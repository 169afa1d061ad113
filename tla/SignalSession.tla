---------------------------- MODULE SignalSession ----------------------------
(***************************************************************************)
(* One connection of the media channel, from upgrade to close: the session *)
(* (signal/session.ts), the dispatcher that serves its requests one at a   *)
(* time (signal/dispatcher.ts) and the room events delivered to it         *)
(* (signal/server.ts), over the queue of OutboundQueue.                    *)
(*                                                                         *)
(* A request waits in `inbox` until the one before it was answered (the    *)
(* dispatcher is a Writable).  Serving it takes three steps: it is taken   *)
(* up, the handler ends after its awaits, and the answer is queued by a    *)
(* later microtask; room events, timeouts and closes fall in between.      *)
(* `log` is what the queue accepted, in order; by OutboundQueue the client *)
(* receives exactly log[1], log[2], ..., log[received].                    *)
(***************************************************************************)
EXTENDS OutboundQueue

CONSTANTS
    MaxRequests,    \* bound: requests the client sends
    MaxEvents,      \* bound: events of the room
    None

Kinds == {"identify", "operation", "malformed"}
Requests == [id : Nat, kind : Kinds]

ASSUME SessionAssumption ==
    /\ MaxRequests \in Nat /\ MaxEvents \in Nat
    /\ Keys # {}
    /\ None \notin Requests \cup {"ok", "failed"}

VARIABLES
    log,        \* history: contents of the accepted critical frames
    inbox,      \* requests sent and not taken up
    sent,       \* how many requests the client sent
    handling,   \* the request being served, or None
    result,     \* what its handler ended with: None, "ok" or "failed"
    holding,    \* `held` is a list, not null
    held,       \* that list
    identified, \* session.identity is set, and the room broadcasts to it
    serverClose,\* serverCloseCode is set
    killTimer,  \* the timeout that cuts a close nobody reads
    raised,     \* how many events the room has had
    snapshot,   \* history: `raised` when the room was pictured for `ready`
    refused     \* history: the request refused to a stranger, or 0

sessionVars == <<log, inbox, sent, handling, result, holding, held, identified,
                 serverClose, killTimer, raised, snapshot, refused>>
vars == <<queueVars, sessionVars>>

Answer(r, how) == [what |-> "answer", request |-> r.id, how |-> how]
Event(n, r) == [what |-> "event", number |-> n,
                during |-> IF r = None THEN 0 ELSE r.id]
Speakers == [what |-> "speakers"]

Closing == queue.destroyed \/ serverClose

-----------------------------------------------------------------------------
(* What a step does to the queue and to its log.                           *)

Put(s, content) ==
    LET q == IF content = Speakers
             THEN EnqueueLatest(s.queue, CHOOSE k \in Keys : TRUE)
             ELSE Enqueue(s.queue)
    IN  [queue |-> q,
         log |-> IF q.accepted > s.queue.accepted
                 THEN Append(s.log, content) ELSE s.log]

State == [queue |-> queue, log |-> log]
Becomes(s) == queue' = s.queue /\ log' = s.log

\* Mutant of Deliver: events do not wait for the answer.
DeliverAtOnce(content) ==
    IF Closing
    THEN UNCHANGED <<queue, log, held>>
    ELSE Becomes(Put(State, content)) /\ UNCHANGED held

Deliver(content) ==
    IF Closing
    THEN UNCHANGED <<queue, log, held>>
    ELSE IF holding
    THEN held' = Append(held, content) /\ UNCHANGED <<queue, log>>
    ELSE Becomes(Put(State, content)) /\ UNCHANGED held

\* What was held goes, in its order.
Flushed(s) ==
    LET run[i \in 0..Len(held)] == IF i = 0 THEN s ELSE Put(run[i - 1], held[i])
    IN  run[Len(held)]

Responded(s, answer) == Flushed(Put(s, answer))

\* close: what is queued still goes, then the code; a timeout watches.
ClosedPolitely(s) == [s EXCEPT !.queue = Finish(@)]

-----------------------------------------------------------------------------

SessionInit ==
    /\ Init
    /\ log = <<>>
    /\ inbox = <<>>
    /\ sent = 0
    /\ handling = None
    /\ result = None
    /\ holding = FALSE
    /\ held = <<>>
    /\ identified = FALSE
    /\ serverClose = FALSE
    /\ killTimer = FALSE
    /\ raised = 0
    /\ snapshot = 0
    /\ refused = 0

ClientSends(kind) ==
    /\ Alive /\ ~goodbye
    /\ sent < MaxRequests
    /\ sent' = sent + 1
    /\ inbox' = Append(inbox, [id |-> sent + 1, kind |-> kind])
    /\ UNCHANGED <<queueVars, log, handling, result, holding, held, identified,
                   serverClose, killTimer, raised, snapshot, refused>>

TakenFromInbox(r) == inbox # <<>> /\ handling = None /\ r = Head(inbox) /\ inbox' = Tail(inbox)

\* A connection on its way out takes requests up and drops them.
DropWhileClosing(r) ==
    /\ TakenFromInbox(r)
    /\ Closing
    /\ UNCHANGED <<queueVars, log, sent, handling, result, holding, held,
                   identified, serverClose, killTimer, raised, snapshot, refused>>

\* Asking before identifying is answered, and the connection closed.
\* Mutant: the close goes first, and the answer finds a queue that takes
\* nothing.
RefuseStrangerSilently(r) ==
    /\ TakenFromInbox(r)
    /\ ~Closing
    /\ r.kind = "operation" /\ ~identified
    /\ Becomes(Put(ClosedPolitely(State), Answer(r, "refused")))
    /\ holding' = FALSE /\ held' = <<>>
    /\ serverClose' = TRUE /\ killTimer' = TRUE
    /\ Untouched
    /\ UNCHANGED <<sent, handling, result, identified, raised, snapshot>>
    /\ refused' = r.id

RefuseStranger(r) ==
    /\ TakenFromInbox(r)
    /\ ~Closing
    /\ r.kind = "operation" /\ ~identified
    /\ Becomes(ClosedPolitely(Responded(State, Answer(r, "refused"))))
    /\ holding' = FALSE /\ held' = <<>>
    /\ serverClose' = TRUE /\ killTimer' = TRUE
    /\ Untouched
    /\ UNCHANGED <<sent, handling, result, identified, raised, snapshot>>
    /\ refused' = r.id

RefuseMalformed(r) ==
    /\ TakenFromInbox(r)
    /\ ~Closing
    /\ r.kind = "malformed"
    /\ Becomes(ClosedPolitely(State))
    /\ serverClose' = TRUE /\ killTimer' = TRUE
    /\ Untouched
    /\ UNCHANGED <<sent, handling, result, holding, held, identified, raised,
                   snapshot, refused>>

\* Mutant of TakeUp: a frame is taken up while another one is served.
TakeUpAtOnce(r) ==
    /\ inbox # <<>> /\ r = Head(inbox) /\ inbox' = Tail(inbox)
    /\ ~Closing
    /\ r.kind = "identify" \/ (r.kind = "operation" /\ identified)
    /\ handling' = r
    /\ result' = None
    /\ holding' = TRUE
    /\ UNCHANGED <<queueVars, log, sent, held, identified, serverClose,
                   killTimer, raised, snapshot, refused>>

TakeUp(r) ==
    /\ TakenFromInbox(r)
    /\ ~Closing
    /\ r.kind = "identify" \/ (r.kind = "operation" /\ identified)
    /\ handling' = r
    /\ result' = None
    /\ holding' = TRUE
    /\ UNCHANGED <<queueVars, log, sent, held, identified, serverClose,
                   killTimer, raised, snapshot, refused>>

\* The end of identify, in one piece: the session joins the room and the room
\* is pictured for the answer.  A connection that fell meanwhile is refused.
IdentifyEnds ==
    /\ handling # None /\ result = None
    /\ handling.kind = "identify" /\ ~identified /\ ~queue.destroyed
    /\ identified' = TRUE
    /\ snapshot' = raised
    /\ result' = "ok"
    /\ UNCHANGED <<queueVars, log, inbox, sent, handling, holding, held,
                   serverClose, killTimer, raised, refused>>

HandlerEnds(how) ==
    /\ handling # None /\ result = None
    /\ how = "ok" => handling.kind = "operation"
    /\ result' = how
    /\ UNCHANGED <<queueVars, log, inbox, sent, handling, holding, held,
                   identified, serverClose, killTimer, raised, snapshot, refused>>

\* respond, and the close a failed identify brings.  Every later `held` is a
\* new list: holdEvents of the next request comes after.
Respond ==
    /\ handling # None /\ result # None
    /\ LET hangsUp == handling.kind = "identify" /\ result = "failed" /\ ~Closing
           answered == Responded(State, Answer(handling, result))
       IN  /\ Becomes(IF hangsUp THEN ClosedPolitely(answered) ELSE answered)
           /\ serverClose' = (serverClose \/ hangsUp)
           /\ killTimer' = (killTimer \/ hangsUp)
    /\ holding' = FALSE /\ held' = <<>>
    /\ handling' = None /\ result' = None
    /\ Untouched
    /\ UNCHANGED <<inbox, sent, identified, raised, snapshot, refused>>

\* track:announced, track:closed, consumer:closed, for a session of the room.
RoomEvent ==
    /\ raised < MaxEvents
    /\ raised' = raised + 1
    /\ IF identified THEN Deliver(Event(raised + 1, handling))
                     ELSE UNCHANGED <<queue, log, held>>
    /\ Untouched
    /\ UNCHANGED <<inbox, sent, handling, result, holding, identified,
                   serverClose, killTimer, snapshot, refused>>

RoomSpeaks ==
    /\ identified
    /\ \A k \in Keys :
           queue.fresh[k] + Len(SelectSeq(held, LAMBDA c : c = Speakers)) < MaxValues
    /\ Deliver(Speakers)
    /\ Untouched
    /\ UNCHANGED <<inbox, sent, handling, result, holding, identified,
                   serverClose, killTimer, raised, snapshot, refused>>

\* Replaced by another connection, removed, identify timeout, shutdown.
\* Mutant: nothing watches over the flush.
ServerClosesUnwatched ==
    /\ ~Closing
    /\ Becomes(ClosedPolitely(State))
    /\ serverClose' = TRUE
    /\ Untouched
    /\ UNCHANGED <<inbox, sent, handling, result, holding, held, identified,
                   killTimer, raised, snapshot, refused>>

ServerCloses ==
    /\ ~Closing
    /\ Becomes(ClosedPolitely(State))
    /\ serverClose' = TRUE /\ killTimer' = TRUE
    /\ Untouched
    /\ UNCHANGED <<inbox, sent, handling, result, holding, held, identified,
                   raised, snapshot, refused>>

KillTimerFires ==
    /\ killTimer
    /\ killTimer' = FALSE
    /\ queue' = [queue EXCEPT !.cut = TRUE]
    /\ Untouched
    /\ UNCHANGED <<log, inbox, sent, handling, result, holding, held,
                   identified, serverClose, raised, snapshot, refused>>

\* The WebSocket's close event: release and markClosed.
ConnectionClosed ==
    /\ queue.cut \/ goodbye
    /\ ~queue.destroyed
    /\ queue' = [queue EXCEPT !.destroyed = TRUE]
    /\ holding' = FALSE /\ held' = <<>>
    /\ killTimer' = FALSE
    /\ identified' = FALSE
    /\ Untouched
    /\ UNCHANGED <<log, inbox, sent, handling, result, serverClose, raised, snapshot, refused>>

Transport ==
    /\ StreamReads \/ ClientReceives \/ Cut \/ ClientSeesEnd
    /\ UNCHANGED sessionVars

Serve(r) ==
    DropWhileClosing(r) \/ RefuseStranger(r) \/ RefuseMalformed(r) \/ TakeUp(r)

SessionNext ==
    \/ \E kind \in Kinds : ClientSends(kind)
    \/ \E id \in 1..MaxRequests, kind \in Kinds : Serve([id |-> id, kind |-> kind])
    \/ IdentifyEnds
    \/ \E how \in {"ok", "failed"} : HandlerEnds(how)
    \/ Respond \/ RoomEvent \/ RoomSpeaks
    \/ ServerCloses \/ KillTimerFires \/ ConnectionClosed \/ Transport

SessionSpec == SessionInit /\ [][SessionNext]_vars

\* Timers fire and the runtime reports a closed socket; the dispatcher works
\* off what it was sent.  A handler awaits the Worker, which may never answer,
\* and a client may never read: neither is assumed fair.
SessionLiveSpec ==
    /\ SessionSpec
    /\ WF_vars(KillTimerFires)
    /\ WF_vars(ConnectionClosed)

-----------------------------------------------------------------------------

SessionTypeOK ==
    /\ QueueTypeOK
    /\ Len(log) = queue.accepted
    /\ inbox \in Seq(Requests)
    /\ {sent, raised, snapshot, refused} \subseteq Nat
    /\ handling \in Requests \cup {None}
    /\ result \in {None, "ok", "failed"}
    /\ handling = None => result = None
    /\ {holding, identified, serverClose, killTimer} \subseteq BOOLEAN
    /\ ~holding => held = <<>>

\* How much of the log the client has or may still receive.
Deliverable == IF queue.cut THEN received ELSE Len(log)

\* Requests are answered in the order they were asked, one answer each, and
\* the client never sees the answer to a later one without those before.
AnsweredInTurn ==
    LET answers == {i \in 1..Deliverable : log[i].what = "answer"}
    IN  /\ SessionTypeOK
        /\ \A i, j \in answers : i < j => log[i].request < log[j].request
        /\ \A i \in answers : \A n \in 1..(log[i].request - 1) :
               \E j \in answers : log[j].request = n

\* An event raised while a request is being served reaches the client after
\* its answer (session.ts:64-70: a consumer:closed must not arrive before the
\* answer that creates the consumer), and none before the answer to identify.
EventsFollowTheirAnswer ==
    \A i \in 1..Deliverable :
        log[i].what = "event" =>
            /\ \E j \in 1..(i - 1) : log[j].what = "answer" /\ log[j].how = "ok"
            /\ log[i].during # 0 =>
                   \E j \in 1..(i - 1) :
                       log[j].what = "answer" /\ log[j].request = log[i].during

\* No hole between the picture of the room that `ready` carries and the first
\* event, nor later: what the queue accepted and what is held are exactly the
\* events since the picture (session.ts:70-72).
NoGapAfterReady ==
    identified /\ ~Closing /\ ~queue.cut =>
        LET all == log \o held
            events == {i \in DOMAIN all : all[i].what = "event"}
        IN  /\ \A i, j \in events : i < j => all[i].number < all[j].number
            /\ {all[i].number : i \in events} = (snapshot + 1)..raised

\* Events come in their place: after the answer they were raised under, and
\* from the picture of `ready` on without a hole.
EventsInTheirPlace == EventsFollowTheirAnswer /\ NoGapAfterReady

\* Whoever sees the connection end politely has the answer to every request
\* that was answered or refused, the refusal included (dispatcher.ts:101).
EndIsExplained ==
    goodbye =>
        /\ received = Len(log)
        /\ refused # 0 =>
              \E i \in 1..received :
                  log[i] = Answer([id |-> refused], "refused")

\* A connection the server closes is closed in the end, even if the client
\* never reads and the flush never ends (session.ts:12-17).
ClosesInTheEnd == serverClose ~> queue.destroyed
=============================================================================
