---------------------------- MODULE SignalStream ----------------------------
(***************************************************************************)
(* apps/web/src/lib/signalStream.ts: the signalling channel as the browser *)
(* sees it.  One object over a succession of WebSockets: it connects,      *)
(* identifies, matches answers with requests, notices that it fell and     *)
(* comes back.  Any number of WebSockets may be tried: the identity of one *)
(* is used again once nothing refers to it.                                *)
(*                                                                         *)
(* External, from how the class uses them: the browser's WebSocket (after  *)
(* close() no message is delivered, and the close event comes in the end), *)
(* the server (see SignalSession) and the token endpoint, which may answer *)
(* or not.  Close codes are told apart as far as the class does: "final"   *)
(* (replaced, removed), "unauthenticated", and "retry" for the others.     *)
(*                                                                         *)
(* Left out: a URL that makes the constructor throw, which is the same at  *)
(* every attempt, and the delays.  An interval of heartbeat that nobody    *)
(* clears does nothing unless the channel is ready, so intervals are not   *)
(* state; nor are attempts after the first `ready`, which only set delays,  *)
(* nor events, which are only passed on.                                   *)
(***************************************************************************)
EXTENDS Naturals, Sequences, SequencesExt

CONSTANTS
    Sockets,    \* bound: WebSockets something still refers to
    Requests,   \* requests somebody makes
    Backlog,    \* bound: frames on their way to the browser
    None        \* no WebSocket

ASSUME StreamAssumption == None \notin Sockets /\ Backlog \in Nat \ {0}

INITIAL_ATTEMPTS == 2

VARIABLES
    stream,     \* the fields of SignalStream, see NewStream
    net         \* WebSocket -> its two ends

streamVars == <<stream, net>>

NewStream ==
    [state      |-> "connecting",
     stopped    |-> FALSE,
     everReady  |-> FALSE,
     attempt    |-> 0,
     ws         |-> None,
     identify   |-> None,    \* identifyId: the WebSocket it went out on
     requests   |-> [r \in Requests |-> "idle"],
     pings      |-> {},      \* WebSockets with a ping not answered
     resume     |-> FALSE,   \* has a resumeToken far from its end
     needFresh  |-> FALSE,
     retry      |-> FALSE,   \* retryTimer runs
     connect    |-> None,    \* the WebSocket connectTimer watches
     start      |-> "uncalled",  \* the promise of start()
     told       |-> FALSE,   \* history: onFinalClose was called
     left       |-> FALSE]   \* history: the owner called close()

NoSocket ==
    [ready |-> "none", fetching |-> FALSE, server |-> "fresh", asked |-> {},
     inbox |-> <<>>]

Free(n) == {s \in Sockets : n[s] = NoSocket}

-----------------------------------------------------------------------------
(* The methods, on the fields m and the WebSockets n.                      *)

\* failAll: who waits for the channel, or for an answer, is told.
\* Mutant: the connection is cleaned up and nobody is told.
FailAllForgetting(m) == [m EXCEPT !.pings = {}]

FailAll(m) ==
    [m EXCEPT !.requests = [r \in Requests |->
                               IF @[r] \in {"waiting", "pending"} THEN "failed" ELSE @[r]],
              !.pings = {}]

ClearTimers(m) == [m EXCEPT !.retry = FALSE, !.connect = None]

\* close() of a WebSocket, which the callers guard with readyState <= 1.  What
\* is on its way to the browser will not be delivered.
Shut(n, s) ==
    IF s # None /\ n[s].ready \in {"connecting", "open"}
    THEN [n EXCEPT ![s].ready = "closing", ![s].inbox = <<>>, ![s].asked = {}]
    ELSE n

GiveUp(m) ==
    [FailAll(ClearTimers(m)) EXCEPT
        !.stopped = TRUE, !.ws = None, !.state = "closed",
        !.start = IF @ = "pending" THEN "unavailable" ELSE @]

ScheduleRetry(m) == IF m.stopped THEN m ELSE [m EXCEPT !.retry = TRUE]

\* What a fall leaves, whatever comes next.
Down(m) ==
    [ClearTimers(m) EXCEPT
        !.identify = None, !.pings = {}, !.ws = None,
        !.requests = [r \in Requests |-> IF @[r] = "pending" THEN "failed" ELSE @[r]]]

\* Mutant of HandleDown: the retry is scheduled before the timers are cleared.
HandleDownHasty(m, code) ==
    LET back == [m EXCEPT !.needFresh = @ \/ code = "unauthenticated"]
    IN  CASE m.stopped -> Down(m)
          [] ~m.stopped /\ code = "final" ->
                [FailAll(Down(m)) EXCEPT
                    !.stopped = TRUE, !.state = "closed", !.told = TRUE]
          [] ~m.stopped /\ code # "final" /\ m.everReady ->
                Down(ScheduleRetry([back EXCEPT !.state = "reconnecting"]))
          [] OTHER ->
                LET next == [back EXCEPT !.attempt = @ + 1]
                IN  IF next.attempt >= INITIAL_ATTEMPTS THEN GiveUp(Down(next))
                    ELSE Down(ScheduleRetry(next))

HandleDown(m, code) ==
    LET back == [Down(m) EXCEPT !.needFresh = @ \/ code = "unauthenticated"]
    IN  CASE m.stopped -> Down(m)
          [] ~m.stopped /\ code = "final" ->
                [FailAll(Down(m)) EXCEPT
                    !.stopped = TRUE, !.state = "closed", !.told = TRUE]
          [] ~m.stopped /\ code # "final" /\ m.everReady ->
                ScheduleRetry([back EXCEPT !.state = "reconnecting"])
          [] OTHER ->
                LET next == [back EXCEPT !.attempt = @ + 1]
                IN  IF next.attempt >= INITIAL_ATTEMPTS THEN GiveUp(next)
                    ELSE ScheduleRetry(next)

\* open: a new WebSocket, and a ceiling on how long it may take.
Opened(m, s) == [m EXCEPT !.ws = s, !.connect = s]
Connecting(n, s) == [n EXCEPT ![s].ready = "connecting"]

\* identify, once there is a token: only on the WebSocket it was meant for,
\* and only if it is still open.
Identified(m, s) == [m EXCEPT !.identify = s]

\* send
CanSend(m, n) == m.state = "ready" /\ m.ws # None /\ n[m.ws].ready = "open"

Send(m, n, R) ==
    [m EXCEPT !.requests = [r \in Requests |->
        IF r \in R THEN IF CanSend(m, n) THEN "pending" ELSE "failed" ELSE @[r]]]

Carried(m, n, R) ==
    IF R # {} /\ CanSend(m, n) THEN [n EXCEPT ![m.ws].asked = @ \cup R] ELSE n

\* handleReady.  The owner applies the picture before those who waited for the
\* channel go on; their requests go out in the same turn.
Ready(m) ==
    [m EXCEPT !.connect = None, !.everReady = TRUE, !.attempt = 0,
              !.resume = TRUE, !.state = "ready",
              !.start = IF @ = "pending" THEN "ready" ELSE @]

-----------------------------------------------------------------------------
(* The owner.                                                              *)

Init == stream = NewStream /\ net = [s \in Sockets |-> NoSocket]

Start ==
    /\ stream.start = "uncalled"
    /\ \E s \in Free(net) :
           /\ stream' = Opened([stream EXCEPT !.start = "pending"], s)
           /\ net' = Connecting(net, s)

\* request: at once, or when the channel is back.
Request(r) ==
    /\ stream.start \notin {"uncalled", "pending"}
    /\ stream.requests[r] = "idle"
    /\ CASE stream.state = "ready" ->
              /\ stream' = Send(stream, net, {r})
              /\ net' = Carried(stream, net, {r})
         [] stream.state = "closed" ->
              /\ stream' = [stream EXCEPT !.requests[r] = "failed"]
              /\ UNCHANGED net
         [] OTHER ->
              /\ stream' = [stream EXCEPT !.requests[r] = "waiting"]
              /\ UNCHANGED net

RequestTimeout(r) ==
    /\ stream.requests[r] \in {"waiting", "pending"}
    /\ stream' = [stream EXCEPT !.requests[r] = "failed"]
    /\ UNCHANGED net

\* restart: forceRebuild of the owner, once its session began.
Restart ==
    /\ stream.everReady
    /\ ~stream.stopped
    /\ IF stream.ws # None /\ net[stream.ws].ready \in {"connecting", "open"}
       THEN net' = Shut(net, stream.ws) /\ UNCHANGED stream
       ELSE stream' = ScheduleRetry(stream) /\ UNCHANGED net

Close ==
    /\ stream.start # "uncalled"
    /\ ~stream.stopped
    /\ stream' = [FailAll(ClearTimers(stream)) EXCEPT
                     !.stopped = TRUE, !.ws = None, !.state = "closed", !.left = TRUE,
                     !.start = IF @ = "pending" THEN "unavailable" ELSE @]
    /\ net' = Shut(net, stream.ws)

-----------------------------------------------------------------------------
(* Timeouts.                                                               *)

RetryFires ==
    /\ stream.retry
    /\ ~stream.stopped
    /\ \E s \in Free(net) :
           /\ stream' = Opened([stream EXCEPT !.retry = FALSE], s)
           /\ net' = Connecting(net, s)

\* Mutant: a WebSocket that opened is left alone.
ConnectTimeoutOfOpening ==
    /\ stream.connect # None
    /\ stream' = [stream EXCEPT !.connect = None]
    /\ net' = IF stream.ws = stream.connect /\ net[stream.ws].ready = "connecting"
              THEN Shut(net, stream.ws) ELSE net

ConnectTimeout ==
    /\ stream.connect # None
    /\ stream' = [stream EXCEPT !.connect = None]
    /\ net' = IF stream.ws = stream.connect /\ stream.state # "ready"
              THEN Shut(net, stream.ws) ELSE net

\* heartbeat, and the 10 seconds its ping waits for an answer.
Heartbeat ==
    /\ CanSend(stream, net)
    /\ stream.ws \notin stream.pings
    /\ stream' = [stream EXCEPT !.pings = @ \cup {stream.ws}]
    /\ net' = [net EXCEPT ![stream.ws].asked = @ \cup {"ping"}]

PingTimeout(s) ==
    /\ s \in stream.pings
    /\ stream' = [stream EXCEPT !.pings = @ \ {s}]
    /\ net' = IF stream.ws = s THEN Shut(net, s) ELSE net

\* RESUME_TOKEN_MAX_AGE_MS
TokenAges ==
    /\ stream.resume
    /\ stream' = [stream EXCEPT !.resume = FALSE]
    /\ UNCHANGED net

-----------------------------------------------------------------------------
(* The browser.                                                            *)

\* Nothing but the stream refers to a WebSocket that closed.
Dropped(n, s) ==
    [n EXCEPT ![s] = IF @.fetching THEN [NoSocket EXCEPT !.fetching = TRUE] ELSE NoSocket]

\* The identity s may be used again.
Forgotten(m, s) ==
    [m EXCEPT !.connect = IF @ = s THEN None ELSE @,
              !.pings = @ \ {s}]

\* onopen: identify, with the token at hand or after asking for one.
SocketOpens(s) ==
    LET cached == stream.resume /\ ~stream.needFresh
        current == stream.ws = s
    IN  /\ net[s].ready = "connecting"
        /\ stream' = IF ~current THEN stream
                     ELSE IF cached THEN Identified(stream, s)
                     ELSE [stream EXCEPT !.needFresh = FALSE]
        /\ net' = [net EXCEPT ![s].ready = "open",
                              ![s].fetching = current /\ ~cached,
                              ![s].server = IF current /\ cached THEN "asked" ELSE @]

\* getToken answers.
TokenArrives(s) ==
    LET live == stream.ws = s /\ net[s].ready = "open"
        answered == [net[s] EXCEPT !.fetching = FALSE]
    IN  /\ net[s].fetching
        /\ stream' = IF live THEN Identified(stream, s) ELSE stream
        /\ net' = [net EXCEPT ![s] = IF live THEN [answered EXCEPT !.server = "asked"]
                                     ELSE answered]

\* getToken fails: this attempt is over.
TokenFails(s) ==
    LET failed == [net EXCEPT ![s].fetching = FALSE]
    IN  /\ net[s].fetching
        /\ net' = IF stream.ws = s THEN Shut(failed, s) ELSE failed
        /\ UNCHANGED stream

CloseFrame == {"final", "unauthenticated"}

\* Whom the server closes with a code of its own.
Reason(code) == IF code = "final" THEN "ready" ELSE "refused"

\* onclose.  A close frame of the server comes after its other frames, or
\* crosses that of the browser; anything else may cut at any time.
Falls(s, code) ==
    /\ net[s].ready \in {"connecting", "open", "closing"}
    /\ \/ code = "retry"
       \/ net[s].ready = "open" /\ net[s].inbox = <<code>>
       \/ net[s].ready = "closing" /\ net[s].server = Reason(code)
    /\ stream' = Forgotten(IF stream.ws = s THEN HandleDown(stream, code) ELSE stream, s)
    /\ net' = Dropped(net, s)

\* onmessage, for a frame of each kind.
Arrives(s, frame) ==
    /\ net[s].ready = "open"
    /\ net[s].inbox # <<>>
    /\ Head(net[s].inbox) = frame

Read(s) == [net EXCEPT ![s].inbox = Tail(@)]

Current(s) == stream.ws = s

ReadyArrives(s) ==
    LET waiters == {r \in Requests : stream.requests[r] = "waiting"}
        ready == Ready([stream EXCEPT !.identify = None])
    IN  /\ Arrives(s, "ready")
        /\ IF Current(s) /\ stream.identify = s
           THEN /\ stream' = Send(ready, Read(s), waiters)
                /\ net' = Carried(ready, Read(s), waiters)
           ELSE UNCHANGED stream /\ net' = Read(s)

UnsupportedArrives(s) ==
    /\ Arrives(s, "unsupported")
    /\ IF Current(s) /\ stream.identify = s
       THEN /\ stream' = GiveUp([stream EXCEPT !.identify = None])
            /\ net' = Shut(Read(s), s)
       ELSE UNCHANGED stream /\ net' = Read(s)

RefusalArrives(s) ==
    /\ Arrives(s, "refused")
    /\ stream' = IF Current(s) /\ stream.identify = s
                 THEN [stream EXCEPT !.identify = None, !.needFresh = TRUE] ELSE stream
    /\ net' = Read(s)

AnswerArrives(s, r) ==
    /\ Arrives(s, r)
    /\ stream' = IF Current(s) /\ stream.requests[r] = "pending"
                 THEN [stream EXCEPT !.requests[r] = "answered"] ELSE stream
    /\ net' = Read(s)

PongArrives(s) ==
    /\ Arrives(s, "ping")
    /\ stream' = IF Current(s) /\ s \in stream.pings
                 THEN [stream EXCEPT !.pings = @ \ {s}, !.resume = TRUE] ELSE stream
    /\ net' = Read(s)

-----------------------------------------------------------------------------
(* The server.                                                             *)

Live(s) ==
    /\ net[s].ready = "open"
    /\ Len(net[s].inbox) < Backlog
    /\ net[s].inbox # <<>> => Last(net[s].inbox) \notin CloseFrame

Sends(s, frame, server) ==
    net' = [net EXCEPT ![s].inbox = Append(@, frame), ![s].server = server]

ServerIdentifies(s) ==
    /\ Live(s)
    /\ net[s].server = "asked"
    /\ \/ Sends(s, "ready", "ready")
       \/ Sends(s, "unsupported", "refused")
       \/ Sends(s, "refused", "refused")
    /\ UNCHANGED stream

ServerAnswers(s, r) ==
    /\ Live(s)
    /\ net[s].server = "ready"
    /\ r \in net[s].asked
    /\ net' = [net EXCEPT ![s].inbox = Append(@, r), ![s].asked = @ \ {r}]
    /\ UNCHANGED stream

\* A session is replaced or removed; a stranger is refused.
ServerCloses(s) ==
    /\ Live(s)
    /\ \/ /\ net[s].server = "ready"
          /\ Sends(s, "final", "ready")
       \/ /\ net[s].server # "ready"
          /\ net[s].server = "refused" \/ net[s].asked # {}
          /\ Sends(s, "unauthenticated", "refused")
    /\ UNCHANGED stream

Next ==
    \/ Start \/ Restart \/ Close
    \/ \E r \in Requests : Request(r) \/ RequestTimeout(r)
    \/ RetryFires \/ ConnectTimeout \/ Heartbeat \/ TokenAges
    \/ \E s \in Sockets :
           \/ PingTimeout(s)
           \/ SocketOpens(s) \/ TokenArrives(s) \/ TokenFails(s)
           \/ \E code \in CloseFrame \cup {"retry"} : Falls(s, code)
           \/ ReadyArrives(s) \/ UnsupportedArrives(s)
           \/ RefusalArrives(s) \/ PongArrives(s)
           \/ \E r \in Requests : AnswerArrives(s, r)
           \/ ServerIdentifies(s) \/ ServerCloses(s)
           \/ \E r \in Requests \cup {"ping"} : ServerAnswers(s, r)

Spec == Init /\ [][Next]_streamVars

\* Timeouts fire, and the browser closes what it was told to close.  The
\* network, the server and the token endpoint owe nothing.
LiveSpec ==
    /\ Spec
    /\ WF_streamVars(RetryFires)
    /\ WF_streamVars(ConnectTimeout)
    /\ \A r \in Requests : WF_streamVars(RequestTimeout(r))
    /\ \A s \in Sockets :
           WF_streamVars(net[s].ready = "closing"
                           /\ \E code \in CloseFrame \cup {"retry"} : Falls(s, code))

-----------------------------------------------------------------------------

StreamTypeOK ==
    /\ stream \in [state : {"connecting", "ready", "reconnecting", "closed"},
                   stopped : BOOLEAN, everReady : BOOLEAN,
                   attempt : 0..INITIAL_ATTEMPTS,
                   ws : Sockets \cup {None}, identify : Sockets \cup {None},
                   requests : [Requests -> {"idle", "waiting", "pending",
                                            "answered", "failed"}],
                   pings : SUBSET Sockets, resume : BOOLEAN, needFresh : BOOLEAN,
                   retry : BOOLEAN, connect : Sockets \cup {None},
                   start : {"uncalled", "pending", "ready", "unavailable"},
                   told : BOOLEAN, left : BOOLEAN]
    /\ \A s \in Sockets : net[s].ready \in {"none", "connecting", "open", "closing"}

\* Any fall becomes an attempt to come back (signalStream.ts:12-18): a stream
\* that was started and did not stop has a WebSocket or a timeout that will
\* make one, whatever fell under it, and a stream that stopped has neither.
AlwaysOnTheWayBack ==
    /\ StreamTypeOK
    /\ stream.start # "uncalled" => ((stream.ws # None \/ stream.retry) <=> ~stream.stopped)

\* The end is the end (close, giveUp, handleDown): no connection is opened or
\* listened to after it, and nobody waits.
QuietOnceStopped ==
    [][stream.stopped =>
          /\ stream'.stopped /\ stream'.state = "closed"
          /\ stream'.ws = None
          /\ \A r \in Requests : stream'.requests[r] \notin {"waiting", "pending"}
      ]_streamVars

\* Whoever asked is told: start() and every request end, with an answer or an
\* error, though neither the network nor the server ever answers.  The promise
\* of start() is left pending in one case, in which onFinalClose tells the
\* owner instead: a final code that crosses a close of the browser's own before
\* the first `ready` (handleDown, signalStream.ts:418-424, does not reject it).
PromisesSettle ==
    /\ stream.start = "pending" ~> stream.start # "pending" \/ stream.told
    /\ \A r \in Requests :
           stream.requests[r] \in {"waiting", "pending"}
              ~> stream.requests[r] \in {"answered", "failed"}

\* What the comment at signalStream.ts:224 says the connect timeout is for:
\* "sem este teto a conexao ficaria abrindo para sempre".
OpeningEnds ==
    \A s \in Sockets :
        stream.ws = s /\ net[s].ready = "connecting"
          ~> stream.ws # s \/ net[s].ready # "connecting"
=============================================================================
