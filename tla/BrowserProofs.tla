---------------------------- MODULE BrowserProofs ----------------------------
(***************************************************************************)
(* Proofs about SignalStream and MediaSubscribing, for any number of       *)
(* WebSockets, requests, tracks, transports and consumers, and lines of    *)
(* any length.                                                             *)
(*                                                                         *)
(* Each invariant is mostly one of the fields of the class, so each method *)
(* is shown to keep it as an operator on the fields, and an action then    *)
(* only says which methods it calls, under which guards, and what becomes  *)
(* of the messages on their way.                                           *)
(***************************************************************************)
EXTENDS SignalStream, MediaSubscribing, FiniteSetTheorems, TLAPS

-----------------------------------------------------------------------------
(* SignalStream.                                                           *)

\* The fields of the class, and the ends of a WebSocket.
Fields ==
    [state : {"connecting", "ready", "reconnecting", "closed"},
     stopped : BOOLEAN, everReady : BOOLEAN,
     attempt : 0..INITIAL_ATTEMPTS,
     ws : Sockets \cup {None}, identify : Sockets \cup {None},
     requests : [Requests -> {"idle", "waiting", "pending", "answered", "failed"}],
     pings : SUBSET Sockets, resume : BOOLEAN, needFresh : BOOLEAN,
     retry : BOOLEAN, connect : Sockets \cup {None},
     start : {"uncalled", "pending", "ready", "unavailable"},
     told : BOOLEAN, left : BOOLEAN]

Frames == Requests \cup CloseFrame \cup {"ping", "ready", "unsupported", "refused"}

Ends ==
    [ready : {"none", "connecting", "open", "closing"}, fetching : BOOLEAN,
     server : {"fresh", "asked", "ready", "refused"},
     asked : SUBSET (Requests \cup {"ping"}), inbox : Seq(Frames)]

\* Before start() nothing is under way.
NothingYet(m) ==
    m.start = "uncalled" => m.ws = None /\ ~m.retry /\ ~m.stopped /\ ~m.everReady

\* From then on, and until it stops, the stream has a WebSocket or is about to.
OnTheWay(m) ==
    m.start # "uncalled" => ((m.ws # None \/ m.retry) <=> ~m.stopped)

\* Nobody waits for a stream that stopped.
NobodyWaits(m) ==
    m.stopped => /\ m.state = "closed"
                 /\ \A r \in Requests : m.requests[r] \notin {"waiting", "pending"}

\* The first attempts are counted, and the last of them stops the stream.
AttemptsAreLeft(m) == ~m.stopped => m.attempt < INITIAL_ATTEMPTS

\* The inductive invariant.
Sound(m) ==
    /\ m \in Fields
    /\ NothingYet(m) /\ OnTheWay(m) /\ NobodyWaits(m) /\ AttemptsAreLeft(m)

StreamInv == Sound(stream) /\ net \in [Sockets -> Ends]

-----------------------------------------------------------------------------
(* The methods.                                                            *)

LEMMA ShutIsTyped ==
    ASSUME NEW n \in [Sockets -> Ends], NEW s \in Sockets \cup {None}
    PROVE  Shut(n, s) \in [Sockets -> Ends]
  <1>1. CASE s # None /\ n[s].ready \in {"connecting", "open"}
    <2> DEFINE e == [n[s] EXCEPT !.ready = "closing", !.inbox = <<>>, !.asked = {}]
    <2>1. n[s] \in Ends
      BY <1>1
    <2>2. <<>> \in Seq(Frames)
      OBVIOUS
    <2>3. e \in Ends
      BY <2>1, <2>2 DEF Ends
    <2>4. Shut(n, s) = [n EXCEPT ![s] = e]
      BY <1>1 DEF Shut
    <2>5. QED
      BY <2>3, <2>4
  <1>2. CASE ~(s # None /\ n[s].ready \in {"connecting", "open"})
    BY <1>2 DEF Shut
  <1>3. QED
    BY <1>1, <1>2

\* failAll, after the end of the stream was decided.
LEMMA FailAllQuiets ==
    ASSUME NEW m \in Fields
    PROVE  /\ FailAll(m) \in Fields
           /\ \A r \in Requests : FailAll(m).requests[r] \notin {"waiting", "pending"}
           /\ FailAll(m).ws = m.ws /\ FailAll(m).retry = m.retry
           /\ FailAll(m).start = m.start /\ FailAll(m).stopped = m.stopped
  BY DEF FailAll, Fields

LEMMA DownIsTyped ==
    ASSUME NEW m \in Fields
    PROVE  /\ Down(m) \in Fields
           /\ Down(m).ws = None /\ ~Down(m).retry
           /\ Down(m).stopped = m.stopped /\ Down(m).start = m.start
           /\ Down(m).everReady = m.everReady /\ Down(m).attempt = m.attempt
  BY DEF Down, ClearTimers, Fields

\* giveUp: whatever was under way, the stream is closed and nobody waits.
LEMMA GiveUpIsSound ==
    ASSUME NEW m \in Fields, m.start # "uncalled"
    PROVE  Sound(GiveUp(m)) /\ GiveUp(m).stopped /\ GiveUp(m).start # "uncalled"
  <1>1. ClearTimers(m) \in Fields /\ ClearTimers(m).start = m.start
    BY DEF ClearTimers, Fields
  <1> DEFINE f == FailAll(ClearTimers(m))
  <1>2. /\ f \in Fields /\ f.start = m.start /\ ~f.retry
        /\ \A r \in Requests : f.requests[r] \notin {"waiting", "pending"}
    <2>1. ~ClearTimers(m).retry
      BY DEF ClearTimers, Fields
    <2>2. QED
      BY <1>1, <2>1, FailAllQuiets
  <1> HIDE DEF f
  <1>3. GiveUp(m) = [f EXCEPT !.stopped = TRUE, !.ws = None, !.state = "closed",
                              !.start = IF @ = "pending" THEN "unavailable" ELSE @]
    BY DEF GiveUp, f
  <1> DEFINE g == GiveUp(m)
  <1>4. /\ g \in Fields /\ g.stopped /\ g.ws = None /\ g.state = "closed"
        /\ g.retry = f.retry /\ g.requests = f.requests /\ g.start # "uncalled"
    BY <1>2, <1>3 DEF Fields
  <1> HIDE DEF g
  <1>5. QED
    BY <1>2, <1>4 DEF Sound, NothingYet, OnTheWay, NobodyWaits, AttemptsAreLeft, g

\* scheduleRetry is harmless to a stream that was started: it does nothing to one
\* that stopped.
LEMMA RetryIsSound ==
    ASSUME NEW m \in Fields, m.start # "uncalled", m.stopped => Sound(m),
           AttemptsAreLeft(m)
    PROVE  Sound(ScheduleRetry(m)) /\ ScheduleRetry(m).stopped = m.stopped
  <1>1. CASE m.stopped
    BY <1>1 DEF ScheduleRetry
  <1>2. CASE ~m.stopped
    <2> DEFINE n == [m EXCEPT !.retry = TRUE]
    <2>1. /\ n \in Fields /\ n.retry /\ ~n.stopped /\ n.start # "uncalled"
          /\ n.everReady = m.everReady /\ n.attempt = m.attempt /\ n.stopped = m.stopped
      <3>1. n \in Fields
        BY DEF Fields
      <3>2. n.retry /\ n.stopped = m.stopped /\ n.start = m.start
            /\ n.everReady = m.everReady /\ n.attempt = m.attempt
        BY DEF Fields
      <3>3. QED
        BY <1>2, <3>1, <3>2
    <2>2. ScheduleRetry(m) = n
      BY <1>2 DEF ScheduleRetry
    <2> HIDE DEF n
    <2>3. NothingYet(n) /\ OnTheWay(n) /\ NobodyWaits(n)
      BY <2>1 DEF NothingYet, OnTheWay, NobodyWaits
    <2>4. AttemptsAreLeft(n)
      BY <1>2, <2>1 DEF AttemptsAreLeft
    <2>5. QED
      BY <1>2, <2>1, <2>2, <2>3, <2>4 DEF Sound
  <1>3. QED
    BY <1>1, <1>2

\* handleDown, of the WebSocket in use: stopped for good or on the way back.
LEMMA HandleDownIsSound ==
    ASSUME NEW m, Sound(m), m.ws # None, NEW code
    PROVE  Sound(HandleDown(m, code)) /\ HandleDown(m, code).start # "uncalled"
  <1>1. m \in Fields /\ m.start # "uncalled" /\ ~m.stopped /\ m.attempt < INITIAL_ATTEMPTS
    BY DEF Sound, NothingYet, OnTheWay, AttemptsAreLeft
  <1> DEFINE d == Down(m)
             back == [d EXCEPT !.needFresh = @ \/ code = "unauthenticated"]
             next == [back EXCEPT !.attempt = @ + 1]
  <1>2. /\ d \in Fields /\ d.ws = None /\ ~d.retry /\ ~d.stopped /\ d.start # "uncalled"
        /\ d.everReady = m.everReady /\ d.attempt = m.attempt
    BY <1>1, DownIsTyped
  <1>3. CASE code = "final"
    <2> DEFINE f == FailAll(d)
               g == [f EXCEPT !.stopped = TRUE, !.state = "closed", !.told = TRUE]
    <2>1. HandleDown(m, code) = g
      BY <1>1, <1>3 DEF HandleDown
    <2> HIDE DEF d
    <2>2. /\ f \in Fields /\ f.ws = None /\ ~f.retry /\ f.start # "uncalled"
          /\ \A r \in Requests : f.requests[r] \notin {"waiting", "pending"}
      BY <1>2, FailAllQuiets
    <2> HIDE DEF f
    <2>3. /\ g \in Fields /\ g.ws = None /\ ~g.retry /\ g.start # "uncalled"
          /\ g.stopped /\ g.state = "closed" /\ g.requests = f.requests
      BY <2>2 DEF Fields
    <2> HIDE DEF g
    <2>4. QED
      BY <2>1, <2>2, <2>3 DEF Sound, NothingYet, OnTheWay, NobodyWaits, AttemptsAreLeft
  <1>4. CASE code # "final"
    <2>1. HandleDown(m, code) =
              IF m.everReady THEN ScheduleRetry([back EXCEPT !.state = "reconnecting"])
              ELSE IF next.attempt >= INITIAL_ATTEMPTS THEN GiveUp(next)
              ELSE ScheduleRetry(next)
      BY <1>1, <1>4 DEF HandleDown
    <2> HIDE DEF d
    <2>2. /\ back \in Fields /\ back.start # "uncalled" /\ ~back.stopped
          /\ back.attempt = m.attempt
      <3>1. d \in Fields
        BY <1>2
      <3>2. (d.needFresh \/ code = "unauthenticated") \in BOOLEAN
        OBVIOUS
      <3>3. back \in Fields
        BY <3>1, <3>2 DEF Fields
      <3>4. back.start = d.start /\ back.stopped = d.stopped /\ back.attempt = d.attempt
        BY <3>1 DEF Fields
      <3>5. QED
        BY <1>2, <3>3, <3>4
    <2>3. m.attempt \in 0 .. INITIAL_ATTEMPTS
      BY <1>1 DEF Fields
    <2> HIDE DEF back
    <2>4. CASE m.everReady
      <3> DEFINE g == [back EXCEPT !.state = "reconnecting"]
      <3>1. /\ g \in Fields /\ g.start # "uncalled" /\ ~g.stopped /\ AttemptsAreLeft(g)
        BY <1>1, <2>2 DEF Fields, AttemptsAreLeft
      <3>2. HandleDown(m, code) = ScheduleRetry(g)
        BY <2>1, <2>4
      <3> HIDE DEF g
      <3>3. QED
        BY <3>1, <3>2, RetryIsSound DEF ScheduleRetry, Fields
    <2>5. CASE ~m.everReady
      <3>1. /\ next \in Fields /\ next.start # "uncalled" /\ ~next.stopped
            /\ next.attempt = m.attempt + 1
        BY <1>1, <2>2, <2>3 DEF Fields, INITIAL_ATTEMPTS
      <3>2. HandleDown(m, code) = IF next.attempt >= INITIAL_ATTEMPTS THEN GiveUp(next)
                                  ELSE ScheduleRetry(next)
        BY <2>1, <2>5
      <3> HIDE DEF next
      <3>3. CASE next.attempt >= INITIAL_ATTEMPTS
        BY <3>1, <3>2, <3>3, GiveUpIsSound
      <3>4. CASE ~(next.attempt >= INITIAL_ATTEMPTS)
        <4>1. AttemptsAreLeft(next)
          BY <2>3, <3>1, <3>4 DEF AttemptsAreLeft, INITIAL_ATTEMPTS
        <4>2. QED
          BY <3>1, <3>2, <3>4, <4>1, RetryIsSound DEF ScheduleRetry, Fields
      <3>5. QED
        BY <3>3, <3>4
    <2>6. QED
      BY <2>4, <2>5
  <1>5. QED
    BY <1>3, <1>4

\* A step that touches nothing the invariant is about.
LEMMA SameIsSound ==
    ASSUME NEW m, Sound(m), NEW q \in Fields,
           q.start = m.start, q.ws = m.ws, q.retry = m.retry, q.stopped = m.stopped,
           q.everReady = m.everReady, q.state = m.state, q.attempt = m.attempt,
           \A r \in Requests : q.requests[r] \in {"waiting", "pending"}
                                  => m.requests[r] \in {"waiting", "pending"} \/ ~m.stopped
    PROVE  Sound(q)
  BY DEF Sound, NothingYet, OnTheWay, NobodyWaits, AttemptsAreLeft

\* The identity of a WebSocket that closed may be used again.
LEMMA ForgottenIsSound ==
    ASSUME NEW m, Sound(m), NEW s
    PROVE  Sound(Forgotten(m, s)) /\ Forgotten(m, s).stopped = m.stopped
  <1>1. /\ Forgotten(m, s) \in Fields
        /\ LET q == Forgotten(m, s)
           IN  /\ q.start = m.start /\ q.ws = m.ws /\ q.retry = m.retry
               /\ q.stopped = m.stopped /\ q.everReady = m.everReady
               /\ q.state = m.state /\ q.attempt = m.attempt /\ q.requests = m.requests
    BY DEF Forgotten, Sound, Fields
  <1>2. QED
    BY <1>1, SameIsSound

-----------------------------------------------------------------------------
(* The actions.                                                            *)

\* What every step keeps: the invariant, and the end once it came.
Keeps ==
    /\ Sound(stream') /\ net' \in [Sockets -> Ends]
    /\ stream.stopped => stream'.stopped

LEMMA InitIsSound == Init => StreamInv
  <1> SUFFICES ASSUME Init PROVE StreamInv
    OBVIOUS
  <1>1. Sound(stream)
    <2>1. stream \in Fields
      BY DEF Init, NewStream, Fields, INITIAL_ATTEMPTS
    <2>2. QED
      BY <2>1 DEF Init, NewStream, Sound, NothingYet, OnTheWay, NobodyWaits, AttemptsAreLeft,
                  INITIAL_ATTEMPTS
  <1>2. NoSocket \in Ends
    <2>1. <<>> \in Seq(Frames)
      OBVIOUS
    <2>2. QED
      BY <2>1 DEF NoSocket, Ends
  <1>3. QED
    BY <1>1, <1>2 DEF Init, StreamInv

\* The two ends of one WebSocket change.
LEMMA OneSocketChanges ==
    ASSUME NEW n \in [Sockets -> Ends], NEW s \in Sockets, NEW e \in Ends
    PROVE  [n EXCEPT ![s] = e] \in [Sockets -> Ends]
  OBVIOUS

LEMMA EndChanges ==
    ASSUME NEW e \in Ends
    PROVE  /\ \A x \in {"none", "connecting", "open", "closing"} : [e EXCEPT !.ready = x] \in Ends
           /\ \A x \in BOOLEAN : [e EXCEPT !.fetching = x] \in Ends
           /\ \A x \in {"fresh", "asked", "ready", "refused"} : [e EXCEPT !.server = x] \in Ends
           /\ \A x \in SUBSET (Requests \cup {"ping"}) : [e EXCEPT !.asked = x] \in Ends
           /\ \A x \in Seq(Frames) : [e EXCEPT !.inbox = x] \in Ends
           /\ e.ready \in {"none", "connecting", "open", "closing"}
           /\ e.asked \in SUBSET (Requests \cup {"ping"}) /\ e.inbox \in Seq(Frames)
  BY DEF Ends

LEMMA OpensIsSound ==
    ASSUME StreamInv, NEW s \in Sockets, NEW m \in Fields,
           m.start # "uncalled", ~m.stopped, AttemptsAreLeft(m)
    PROVE  Sound(Opened(m, s)) /\ Connecting(net, s) \in [Sockets -> Ends]
  <1>1. /\ Opened(m, s) \in Fields
        /\ LET q == Opened(m, s)
           IN  /\ q.start = m.start /\ q.ws = s /\ q.stopped = m.stopped
               /\ q.attempt = m.attempt
    BY DEF Opened, Fields
  <1>2. s # None
    BY StreamAssumption
  <1>3. Sound(Opened(m, s))
    BY <1>1, <1>2 DEF Sound, NothingYet, OnTheWay, NobodyWaits, AttemptsAreLeft
  <1>4. [net[s] EXCEPT !.ready = "connecting"] \in Ends
    BY EndChanges DEF StreamInv
  <1>5. QED
    BY <1>3, <1>4 DEF Connecting, StreamInv

LEMMA StartKeeps == StreamInv /\ Start => Keeps
  <1> SUFFICES ASSUME StreamInv, stream.start = "uncalled", NEW s \in Free(net),
                      stream' = Opened([stream EXCEPT !.start = "pending"], s),
                      net' = Connecting(net, s)
               PROVE  Keeps
    BY DEF Start
  <1> DEFINE m == [stream EXCEPT !.start = "pending"]
  <1>1. stream \in Fields /\ ~stream.stopped /\ AttemptsAreLeft(stream)
    BY DEF StreamInv, Sound, NothingYet
  <1>2. m \in Fields /\ m.start = "pending" /\ m.stopped = stream.stopped /\ m.attempt = stream.attempt
    BY <1>1 DEF Fields
  <1>3. s \in Sockets
    BY DEF Free
  <1> HIDE DEF m
  <1>4. QED
    BY <1>1, <1>2, <1>3, OpensIsSound DEF Keeps, AttemptsAreLeft, m

LEMMA RetryFiresKeeps == StreamInv /\ RetryFires => Keeps
  <1> SUFFICES ASSUME StreamInv, stream.retry, ~stream.stopped, NEW s \in Free(net),
                      stream' = Opened([stream EXCEPT !.retry = FALSE], s),
                      net' = Connecting(net, s)
               PROVE  Keeps
    BY DEF RetryFires
  <1> DEFINE m == [stream EXCEPT !.retry = FALSE]
  <1>1. stream \in Fields /\ stream.start # "uncalled" /\ AttemptsAreLeft(stream)
    BY DEF StreamInv, Sound, NothingYet
  <1>2. m \in Fields /\ m.start = stream.start /\ m.stopped = stream.stopped /\ m.attempt = stream.attempt
    BY <1>1 DEF Fields
  <1>3. s \in Sockets
    BY DEF Free
  <1> HIDE DEF m
  <1>4. QED
    BY <1>1, <1>2, <1>3, OpensIsSound DEF Keeps, AttemptsAreLeft, m

\* send: the requests R go out, or fail at once.
LEMMA SendIsSound ==
    ASSUME NEW m, Sound(m), NEW n \in [Sockets -> Ends], NEW R \in SUBSET Requests
    PROVE  /\ Sound(Send(m, n, R)) /\ Send(m, n, R).stopped = m.stopped
           /\ Carried(m, n, R) \in [Sockets -> Ends]
  <1>1. m \in Fields
    BY DEF Sound
  <1>2. CanSend(m, n) => ~m.stopped /\ m.ws \in Sockets
    BY <1>1 DEF CanSend, Sound, NobodyWaits, Fields
  <1> DEFINE q == Send(m, n, R)
  <1>3. /\ q \in Fields
        /\ q.start = m.start /\ q.ws = m.ws /\ q.retry = m.retry /\ q.stopped = m.stopped
        /\ q.everReady = m.everReady /\ q.state = m.state /\ q.attempt = m.attempt
        /\ \A r \in Requests : q.requests[r] = IF r \in R THEN IF CanSend(m, n) THEN "pending" ELSE "failed"
                                               ELSE m.requests[r]
    BY <1>1 DEF Send, Fields
  <1> HIDE DEF q
  <1>4. Sound(q)
    BY <1>2, <1>3, SameIsSound
  <1>5. Carried(m, n, R) \in [Sockets -> Ends]
    <2>1. CASE R # {} /\ CanSend(m, n)
      <3>1. [n[m.ws] EXCEPT !.asked = @ \cup R] \in Ends
        BY <1>2, <2>1, EndChanges
      <3>2. QED
        BY <1>2, <2>1, <3>1 DEF Carried
    <2>2. CASE ~(R # {} /\ CanSend(m, n))
      BY <2>2 DEF Carried
    <2>3. QED
      BY <2>1, <2>2
  <1>6. QED
    BY <1>3, <1>4, <1>5 DEF q

LEMMA RequestKeeps ==
    ASSUME StreamInv, NEW r \in Requests, Request(r)
    PROVE  Keeps
  <1>1. stream \in Fields /\ Sound(stream) /\ net \in [Sockets -> Ends]
    BY DEF StreamInv, Sound
  <1>2. CASE stream.state = "ready"
    <2>1. stream' = Send(stream, net, {r}) /\ net' = Carried(stream, net, {r})
      BY <1>2 DEF Request
    <2>2. QED
      BY <1>1, <2>1, SendIsSound DEF Keeps
  <1>3. CASE stream.state # "ready"
    <2>1. PICK v \in {"failed", "waiting"} :
              /\ stream' = [stream EXCEPT !.requests[r] = v]
              /\ v = "waiting" => stream.state # "closed"
      BY <1>3 DEF Request
    <2>2. net' = net
      BY <1>3 DEF Request
    <2>3. /\ stream' \in Fields
          /\ stream'.start = stream.start /\ stream'.ws = stream.ws /\ stream'.retry = stream.retry
          /\ stream'.stopped = stream.stopped /\ stream'.everReady = stream.everReady
          /\ stream'.state = stream.state /\ stream'.attempt = stream.attempt
          /\ \A i \in Requests : stream'.requests[i] = IF i = r THEN v ELSE stream.requests[i]
      BY <1>1, <2>1 DEF Fields
    <2>4. v = "waiting" => ~stream.stopped
      BY <1>1, <2>1 DEF Sound, NobodyWaits
    <2>5. Sound(stream')
      BY <1>1, <2>3, <2>4, SameIsSound
    <2>6. QED
      BY <1>1, <2>2, <2>3, <2>5 DEF Keeps
  <1>4. QED
    BY <1>2, <1>3

LEMMA RequestTimeoutKeeps ==
    ASSUME StreamInv, NEW r \in Requests, RequestTimeout(r)
    PROVE  Keeps
  <1>1. stream \in Fields /\ Sound(stream) /\ net' \in [Sockets -> Ends]
    BY DEF StreamInv, Sound, RequestTimeout
  <1>2. /\ stream' \in Fields
        /\ stream'.start = stream.start /\ stream'.ws = stream.ws /\ stream'.retry = stream.retry
        /\ stream'.stopped = stream.stopped /\ stream'.everReady = stream.everReady
        /\ stream'.state = stream.state /\ stream'.attempt = stream.attempt
        /\ \A i \in Requests : stream'.requests[i] = IF i = r THEN "failed" ELSE stream.requests[i]
    BY <1>1 DEF Fields, RequestTimeout
  <1>3. Sound(stream')
    BY <1>1, <1>2, SameIsSound
  <1>4. QED
    BY <1>1, <1>2, <1>3 DEF Keeps

LEMMA RestartKeeps == StreamInv /\ Restart => Keeps
  <1> SUFFICES ASSUME StreamInv, Restart PROVE Keeps
    OBVIOUS
  <1>1. /\ stream \in Fields /\ Sound(stream) /\ net \in [Sockets -> Ends]
        /\ stream.start # "uncalled" /\ ~stream.stopped /\ AttemptsAreLeft(stream)
    BY DEF StreamInv, Sound, Restart, NothingYet
  <1>2. stream.ws \in Sockets \cup {None}
    BY <1>1 DEF Fields
  <1>3. CASE net' = Shut(net, stream.ws) /\ UNCHANGED stream
    BY <1>1, <1>2, <1>3, ShutIsTyped DEF Keeps
  <1>4. CASE stream' = ScheduleRetry(stream) /\ UNCHANGED net
    BY <1>1, <1>4, RetryIsSound DEF Keeps
  <1>5. QED
    BY <1>3, <1>4 DEF Restart

LEMMA CloseKeeps == StreamInv /\ Close => Keeps
  <1> SUFFICES ASSUME StreamInv, Close PROVE Keeps
    OBVIOUS
  <1>1. /\ stream \in Fields /\ stream.start # "uncalled" /\ net \in [Sockets -> Ends]
    BY DEF StreamInv, Sound, Close
  <1>2. Sound(GiveUp(stream)) /\ GiveUp(stream).stopped
    BY <1>1, GiveUpIsSound
  <1>3. stream' = [GiveUp(stream) EXCEPT !.left = TRUE]
    <2>1. ClearTimers(stream) \in Fields
      BY <1>1 DEF ClearTimers, Fields
    <2> DEFINE f == FailAll(ClearTimers(stream))
    <2>2. f \in Fields
      BY <2>1, FailAllQuiets
    <2>3. /\ stream' = [f EXCEPT !.stopped = TRUE, !.ws = None, !.state = "closed", !.left = TRUE,
                                 !.start = IF @ = "pending" THEN "unavailable" ELSE @]
          /\ GiveUp(stream) = [f EXCEPT !.stopped = TRUE, !.ws = None, !.state = "closed",
                                        !.start = IF @ = "pending" THEN "unavailable" ELSE @]
      BY DEF Close, GiveUp
    <2> HIDE DEF f
    <2>4. QED
      BY <2>2, <2>3 DEF Fields
  <1> DEFINE g == GiveUp(stream)
  <1> HIDE DEF g
  <1>4. /\ stream' \in Fields
        /\ stream'.start = g.start /\ stream'.ws = g.ws /\ stream'.retry = g.retry
        /\ stream'.stopped = g.stopped /\ stream'.everReady = g.everReady
        /\ stream'.state = g.state /\ stream'.attempt = g.attempt /\ stream'.requests = g.requests
    <2>1. g \in Fields /\ stream' = [g EXCEPT !.left = TRUE]
      BY <1>2, <1>3 DEF Sound, g
    <2>2. QED
      BY <2>1 DEF Fields
  <1>5. Sound(stream')
    BY <1>2, <1>4, SameIsSound DEF g
  <1>6. net' \in [Sockets -> Ends]
    BY <1>1, ShutIsTyped DEF Close, Fields
  <1>7. QED
    BY <1>2, <1>4, <1>5, <1>6 DEF Keeps, g

LEMMA TimersKeep ==
    ASSUME StreamInv,
           \/ ConnectTimeout \/ Heartbeat \/ TokenAges
           \/ \E s \in Sockets : PingTimeout(s) \/ TokenFails(s)
    PROVE  Keeps
  <1>1. stream \in Fields /\ Sound(stream) /\ net \in [Sockets -> Ends] /\ stream.ws \in Sockets \cup {None}
    BY DEF StreamInv, Sound, Fields
  <1>2. /\ stream' \in Fields
        /\ stream'.start = stream.start /\ stream'.ws = stream.ws /\ stream'.retry = stream.retry
        /\ stream'.stopped = stream.stopped /\ stream'.everReady = stream.everReady
        /\ stream'.state = stream.state /\ stream'.attempt = stream.attempt
        /\ stream'.requests = stream.requests
    <2>1. CASE ConnectTimeout
      BY <1>1, <2>1 DEF ConnectTimeout, Fields
    <2>2. CASE Heartbeat
      BY <1>1, <2>2 DEF Heartbeat, Fields, CanSend
    <2>3. CASE TokenAges
      BY <1>1, <2>3 DEF TokenAges, Fields
    <2>4. ASSUME NEW s \in Sockets, PingTimeout(s) \/ TokenFails(s)
          PROVE  /\ stream' = stream \/ stream' = [stream EXCEPT !.pings = @ \ {s}]
      BY <2>4 DEF PingTimeout, TokenFails
    <2>5. QED
      BY <1>1, <2>1, <2>2, <2>3, <2>4 DEF Fields
  <1>3. Sound(stream')
    BY <1>1, <1>2, SameIsSound
  <1>4. net' \in [Sockets -> Ends]
    <2>1. CASE ConnectTimeout
      BY <1>1, <2>1, ShutIsTyped DEF ConnectTimeout
    <2>2. CASE Heartbeat
      <3>1. stream.ws \in Sockets
        BY <1>1, <2>2 DEF Heartbeat, CanSend
      <3>2. [net[stream.ws] EXCEPT !.asked = @ \cup {"ping"}] \in Ends
        BY <1>1, <3>1, EndChanges
      <3>3. QED
        BY <1>1, <2>2, <3>1, <3>2 DEF Heartbeat
    <2>3. CASE TokenAges
      BY <1>1, <2>3 DEF TokenAges
    <2>4. ASSUME NEW s \in Sockets, PingTimeout(s)
          PROVE  net' \in [Sockets -> Ends]
      BY <1>1, <2>4, ShutIsTyped DEF PingTimeout
    <2>5. ASSUME NEW s \in Sockets, TokenFails(s)
          PROVE  net' \in [Sockets -> Ends]
      <3>1. [net[s] EXCEPT !.fetching = FALSE] \in Ends
        BY <1>1, EndChanges
      <3>2. [net EXCEPT ![s].fetching = FALSE] \in [Sockets -> Ends]
        BY <1>1, <3>1
      <3>3. QED
        BY <2>5, <3>2, ShutIsTyped DEF TokenFails
    <2>6. QED
      BY <2>1, <2>2, <2>3, <2>4, <2>5
  <1>5. QED
    BY <1>2, <1>3, <1>4 DEF Keeps


\* identify was answered.
LEMMA AnsweredIsSound ==
    ASSUME NEW m, Sound(m), NEW q, q = [m EXCEPT !.identify = None]
    PROVE  Sound(q) /\ q.stopped = m.stopped /\ q.start = m.start /\ q.ws = m.ws
  <1>1. m \in Fields
    BY DEF Sound
  <1>2. /\ q \in Fields
        /\ q.start = m.start /\ q.ws = m.ws /\ q.retry = m.retry /\ q.stopped = m.stopped
        /\ q.everReady = m.everReady /\ q.state = m.state /\ q.attempt = m.attempt
        /\ q.requests = m.requests
    BY <1>1 DEF Fields
  <1>3. QED
    BY <1>2, SameIsSound

\* The fields identify writes are not those the invariant is about.
LEMMA IdentifyingIsSound ==
    ASSUME NEW m, Sound(m), NEW q, NEW a \in Sockets \cup {None}, NEW x \in BOOLEAN,
           \/ q = m
           \/ q = [m EXCEPT !.identify = a]
           \/ q = [m EXCEPT !.needFresh = x]
           \/ q = [m EXCEPT !.identify = a, !.needFresh = x]
    PROVE  Sound(q) /\ q.stopped = m.stopped
  <1>1. m \in Fields
    BY DEF Sound
  <1> DEFINE Same == /\ q \in Fields
                     /\ q.start = m.start /\ q.ws = m.ws /\ q.retry = m.retry
                     /\ q.stopped = m.stopped /\ q.everReady = m.everReady
                     /\ q.state = m.state /\ q.attempt = m.attempt /\ q.requests = m.requests
  <1>2. CASE q = m
    BY <1>2
  <1>3. CASE q = [m EXCEPT !.identify = a]
    <2>1. Same
      BY <1>1, <1>3 DEF Fields
    <2>2. QED
      BY <2>1, SameIsSound
  <1>4. CASE q = [m EXCEPT !.needFresh = x]
    <2>1. Same
      BY <1>1, <1>4 DEF Fields
    <2>2. QED
      BY <2>1, SameIsSound
  <1>5. CASE q = [m EXCEPT !.identify = a, !.needFresh = x]
    <2>1. Same
      BY <1>1, <1>5 DEF Fields
    <2>2. QED
      BY <2>1, SameIsSound
  <1>6. QED
    BY <1>2, <1>3, <1>4, <1>5

LEMMA SocketOpensKeeps ==
    ASSUME StreamInv, NEW s \in Sockets, SocketOpens(s)
    PROVE  Keeps
  <1>1. Sound(stream) /\ net \in [Sockets -> Ends] /\ net[s] \in Ends
    BY DEF StreamInv
  <1>2. Sound(stream') /\ stream'.stopped = stream.stopped
    <2>1. stream' \in {stream, [stream EXCEPT !.identify = s], [stream EXCEPT !.needFresh = FALSE]}
      BY DEF SocketOpens, Identified
    <2>2. QED
      BY <1>1, <2>1, IdentifyingIsSound, FALSE \in BOOLEAN
  <1>3. PICK a \in BOOLEAN, v \in {"asked", net[s].server} :
            net' = [net EXCEPT ![s] = [@ EXCEPT !.ready = "open", !.fetching = a, !.server = v]]
    <2> DEFINE a == (stream.ws = s) /\ ~(stream.resume /\ ~stream.needFresh)
               v == IF (stream.ws = s) /\ (stream.resume /\ ~stream.needFresh) THEN "asked" ELSE net[s].server
    <2>1. net' = [net EXCEPT ![s].ready = "open", ![s].fetching = a, ![s].server = v]
      BY <1>1 DEF SocketOpens, Ends
    <2>2. a \in BOOLEAN /\ v \in {"asked", net[s].server}
      OBVIOUS
    <2> HIDE DEF a, v
    <2>3. net' = [net EXCEPT ![s] = [@ EXCEPT !.ready = "open", !.fetching = a, !.server = v]]
      BY <1>1, <2>1 DEF Ends
    <2>4. QED
      BY <2>2, <2>3
  <1>4. [net[s] EXCEPT !.ready = "open", !.fetching = a, !.server = v] \in Ends
    BY <1>1, <1>3 DEF Ends
  <1>5. QED
    BY <1>1, <1>2, <1>3, <1>4 DEF Keeps

LEMMA TokenArrivesKeeps ==
    ASSUME StreamInv, NEW s \in Sockets, TokenArrives(s)
    PROVE  Keeps
  <1>1. Sound(stream) /\ net \in [Sockets -> Ends] /\ net[s] \in Ends
    BY DEF StreamInv
  <1>2. Sound(stream') /\ stream'.stopped = stream.stopped
    <2>1. stream' \in {stream, [stream EXCEPT !.identify = s]}
      BY DEF TokenArrives, Identified
    <2>2. QED
      BY <1>1, <2>1, IdentifyingIsSound
  <1>3. PICK e \in {[net[s] EXCEPT !.fetching = FALSE],
                    [[net[s] EXCEPT !.fetching = FALSE] EXCEPT !.server = "asked"]} :
            net' = [net EXCEPT ![s] = e]
    BY DEF TokenArrives
  <1>4. e \in Ends
    <2>1. [net[s] EXCEPT !.fetching = FALSE] \in Ends
      BY <1>1, EndChanges
    <2>2. [[net[s] EXCEPT !.fetching = FALSE] EXCEPT !.server = "asked"] \in Ends
      BY <2>1, EndChanges
    <2>3. QED
      BY <1>3, <2>1, <2>2
  <1>5. QED
    BY <1>1, <1>2, <1>3, <1>4 DEF Keeps

\* onclose of the WebSocket in use is handleDown; of another, nothing.
LEMMA FallsKeeps ==
    ASSUME StreamInv, NEW s \in Sockets, NEW code, Falls(s, code)
    PROVE  Keeps
  <1>1. Sound(stream) /\ net \in [Sockets -> Ends] /\ net[s] \in Ends /\ stream \in Fields
    BY DEF StreamInv, Sound
  <1>2. CASE stream.ws = s
    <2>1. stream.ws # None /\ ~stream.stopped
      BY <1>1, <1>2, StreamAssumption DEF Sound, NothingYet, OnTheWay
    <2>2. Sound(HandleDown(stream, code))
      BY <1>1, <2>1, HandleDownIsSound
    <2>3. stream' = Forgotten(HandleDown(stream, code), s)
      BY <1>2 DEF Falls
    <2>4. QED
      <3>1. Sound(stream')
        BY <2>2, <2>3, ForgottenIsSound
      <3>2. net' \in [Sockets -> Ends]
        <4>1. NoSocket \in Ends /\ [NoSocket EXCEPT !.fetching = TRUE] \in Ends
          <5>1. <<>> \in Seq(Frames)
            OBVIOUS
          <5>2. QED
            BY <5>1 DEF NoSocket, Ends
        <4>2. QED
          BY <1>1, <4>1 DEF Falls, Dropped
      <3>3. QED
        BY <2>1, <3>1, <3>2 DEF Keeps
  <1>3. CASE stream.ws # s
    <2>1. stream' = Forgotten(stream, s)
      BY <1>3 DEF Falls
    <2>2. Sound(stream') /\ stream'.stopped = stream.stopped
      BY <1>1, <2>1, ForgottenIsSound
    <2>3. NoSocket \in Ends /\ [NoSocket EXCEPT !.fetching = TRUE] \in Ends
      <3>1. <<>> \in Seq(Frames)
        OBVIOUS
      <3>2. QED
        BY <3>1 DEF NoSocket, Ends
    <2>4. net' \in [Sockets -> Ends]
      BY <1>1, <2>3 DEF Falls, Dropped
    <2>5. QED
      BY <2>2, <2>4 DEF Keeps
  <1>4. QED
    BY <1>2, <1>3

\* A frame is taken out of those that came.
LEMMA ReadIsTyped ==
    ASSUME StreamInv, NEW s \in Sockets, net[s].inbox # <<>>
    PROVE  Read(s) \in [Sockets -> Ends]
  <1>1. net \in [Sockets -> Ends] /\ net[s] \in Ends /\ net[s].inbox \in Seq(Frames)
    BY DEF StreamInv, Ends
  <1>2. Tail(net[s].inbox) \in Seq(Frames)
    BY <1>1
  <1>3. [net[s] EXCEPT !.inbox = Tail(@)] \in Ends
    BY <1>1, <1>2, EndChanges
  <1>4. QED
    BY <1>1, <1>3 DEF Read

\* handleReady of the WebSocket in use, which the stream therefore did not stop.
LEMMA ReadyIsSound ==
    ASSUME NEW m, Sound(m), m.ws # None
    PROVE  Sound(Ready(m)) /\ Ready(m).stopped = m.stopped
  <1>1. m \in Fields /\ m.start # "uncalled" /\ ~m.stopped
    BY DEF Sound, NothingYet, OnTheWay
  <1> DEFINE q == Ready(m)
             begun == IF m.start = "pending" THEN "ready" ELSE m.start
  <1>b. begun \in {"pending", "ready", "unavailable"}
    BY <1>1 DEF Fields
  <1>r. q = [m EXCEPT !.connect = None, !.everReady = TRUE, !.attempt = 0,
                      !.resume = TRUE, !.state = "ready", !.start = begun]
    BY DEF Ready
  <1>a. PICK a : a = [m EXCEPT !.connect = None, !.everReady = TRUE, !.resume = TRUE, !.state = "ready"]
    OBVIOUS
  <1>c. a \in Fields /\ a.ws = m.ws /\ a.stopped = m.stopped
    BY <1>1, <1>a DEF Fields
  <1> HIDE DEF q, begun
  <1>d. q = [a EXCEPT !.attempt = 0, !.start = begun]
    BY <1>1, <1>a, <1>r DEF Fields
  <1>z. 0 \in 0 .. INITIAL_ATTEMPTS
    BY DEF INITIAL_ATTEMPTS
  <1>2. /\ q \in Fields /\ q.start = begun /\ q.ws = m.ws /\ q.stopped = m.stopped
        /\ q.attempt = 0
    BY <1>b, <1>c, <1>d, <1>z DEF Fields
  <1>3. Sound(q)
    BY <1>1, <1>b, <1>2 DEF Sound, NothingYet, OnTheWay, NobodyWaits, AttemptsAreLeft, INITIAL_ATTEMPTS
  <1>4. QED
    BY <1>1, <1>2, <1>3 DEF q

LEMMA ReadyArrivesKeeps ==
    ASSUME StreamInv, NEW s \in Sockets, ReadyArrives(s)
    PROVE  Keeps
  <1>1. Sound(stream) /\ Read(s) \in [Sockets -> Ends]
    BY ReadIsTyped DEF StreamInv, ReadyArrives, Arrives
  <1>2. CASE Current(s) /\ stream.identify = s
    <2> DEFINE waiters == {r \in Requests : stream.requests[r] = "waiting"}
               m == [stream EXCEPT !.identify = None]
    <2>1. Sound(m) /\ m.ws # None /\ m.stopped = stream.stopped
      <3>1. stream.ws # None
        BY <1>2, StreamAssumption DEF Current
      <3>2. QED
        BY <1>1, <3>1, AnsweredIsSound
    <2>2. /\ stream' = Send(Ready(m), Read(s), waiters)
          /\ net' = Carried(Ready(m), Read(s), waiters)
      BY <1>2 DEF ReadyArrives
    <2>3. Sound(Ready(m)) /\ Ready(m).stopped = stream.stopped
      BY <2>1, ReadyIsSound
    <2>4. waiters \in SUBSET Requests
      OBVIOUS
    <2> HIDE DEF waiters, m
    <2>5. QED
      BY <1>1, <2>2, <2>3, <2>4, SendIsSound DEF Keeps
  <1>3. CASE ~(Current(s) /\ stream.identify = s)
    BY <1>1, <1>3 DEF ReadyArrives, Keeps
  <1>4. QED
    BY <1>2, <1>3

LEMMA UnsupportedArrivesKeeps ==
    ASSUME StreamInv, NEW s \in Sockets, UnsupportedArrives(s)
    PROVE  Keeps
  <1>1. Sound(stream) /\ Read(s) \in [Sockets -> Ends]
    BY ReadIsTyped DEF StreamInv, UnsupportedArrives, Arrives
  <1>2. CASE Current(s) /\ stream.identify = s
    <2> DEFINE m == [stream EXCEPT !.identify = None]
    <2>1. stream.ws # None
      BY <1>2, StreamAssumption DEF Current
    <2>2. Sound(m) /\ m.start = stream.start /\ m.ws = stream.ws
      BY <1>1, AnsweredIsSound
    <2>3. m \in Fields /\ m.start # "uncalled"
      BY <2>1, <2>2 DEF Sound, NothingYet
    <2>4. stream' = GiveUp(m) /\ net' = Shut(Read(s), s)
      BY <1>2 DEF UnsupportedArrives
    <2> HIDE DEF m
    <2>5. Sound(stream') /\ stream'.stopped
      BY <2>3, <2>4, GiveUpIsSound
    <2>6. QED
      BY <1>1, <2>4, <2>5, ShutIsTyped DEF Keeps
  <1>3. CASE ~(Current(s) /\ stream.identify = s)
    BY <1>1, <1>3 DEF UnsupportedArrives, Keeps
  <1>4. QED
    BY <1>2, <1>3

LEMMA FramesArriveKeep ==
    ASSUME StreamInv, NEW s \in Sockets,
           RefusalArrives(s) \/ PongArrives(s) \/ \E r \in Requests : AnswerArrives(s, r)
    PROVE  Keeps
  <1>1. Sound(stream) /\ stream \in Fields /\ Read(s) \in [Sockets -> Ends]
    BY ReadIsTyped DEF StreamInv, Sound, RefusalArrives, PongArrives, AnswerArrives, Arrives
  <1>2. net' = Read(s)
    BY DEF RefusalArrives, PongArrives, AnswerArrives
  <1>3. Sound(stream') /\ stream'.stopped = stream.stopped
    <2>1. CASE RefusalArrives(s)
      <3>1. stream' \in {stream, [stream EXCEPT !.identify = None, !.needFresh = TRUE]}
        BY <2>1 DEF RefusalArrives
      <3>2. QED
        BY <1>1, <3>1, IdentifyingIsSound, TRUE \in BOOLEAN
    <2>2. CASE PongArrives(s)
      <3>1. /\ stream' \in Fields
            /\ stream'.start = stream.start /\ stream'.ws = stream.ws /\ stream'.retry = stream.retry
            /\ stream'.stopped = stream.stopped /\ stream'.everReady = stream.everReady
            /\ stream'.state = stream.state /\ stream'.attempt = stream.attempt
            /\ stream'.requests = stream.requests
        BY <1>1, <2>2 DEF PongArrives, Fields
      <3>2. QED
        BY <1>1, <3>1, SameIsSound
    <2>3. ASSUME NEW r \in Requests, AnswerArrives(s, r)
          PROVE  Sound(stream') /\ stream'.stopped = stream.stopped
      <3>1. /\ stream' \in Fields
            /\ stream'.start = stream.start /\ stream'.ws = stream.ws /\ stream'.retry = stream.retry
            /\ stream'.stopped = stream.stopped /\ stream'.everReady = stream.everReady
            /\ stream'.state = stream.state /\ stream'.attempt = stream.attempt
            /\ \A i \in Requests : stream'.requests[i] \in {"answered", stream.requests[i]}
        BY <1>1, <2>3 DEF AnswerArrives, Fields
      <3>2. QED
        BY <1>1, <3>1, SameIsSound
    <2>4. QED
      BY <2>1, <2>2, <2>3
  <1>4. QED
    BY <1>1, <1>2, <1>3 DEF Keeps

LEMMA ServerKeeps ==
    ASSUME StreamInv, NEW s \in Sockets,
           \/ ServerIdentifies(s) \/ ServerCloses(s)
           \/ \E r \in Requests \cup {"ping"} : ServerAnswers(s, r)
    PROVE  Keeps
  <1>1. Sound(stream) /\ net \in [Sockets -> Ends] /\ net[s] \in Ends
    BY DEF StreamInv
  <1>2. stream' = stream
    BY DEF ServerIdentifies, ServerCloses, ServerAnswers
  <1>3. \A f \in Frames : Append(net[s].inbox, f) \in Seq(Frames)
    BY <1>1 DEF Ends
  <1>4. CASE ServerIdentifies(s) \/ ServerCloses(s)
    <2>1. PICK f \in Frames, v \in {"ready", "refused"} : Sends(s, f, v)
      BY <1>4 DEF ServerIdentifies, ServerCloses, Frames, CloseFrame
    <2>2. [net[s] EXCEPT !.inbox = Append(net[s].inbox, f), !.server = v] \in Ends
      BY <1>1, <1>3 DEF Ends
    <2>3. net' = [net EXCEPT ![s] = [net[s] EXCEPT !.inbox = Append(net[s].inbox, f), !.server = v]]
      BY <1>1, <2>1 DEF Sends, Ends
    <2>4. QED
      BY <1>1, <1>2, <2>2, <2>3 DEF Keeps
  <1>5. ASSUME NEW r \in Requests \cup {"ping"}, ServerAnswers(s, r)
        PROVE  Keeps
    <2>1. r \in Frames /\ net[s].asked \ {r} \in SUBSET (Requests \cup {"ping"})
      BY <1>1, EndChanges DEF Frames
    <2> DEFINE e == [net[s] EXCEPT !.inbox = Append(@, r), !.asked = @ \ {r}]
    <2>2. e \in Ends
      BY <1>1, <1>3, <2>1 DEF Ends
    <2>3. net' = [net EXCEPT ![s] = e]
      BY <1>1, <1>5 DEF ServerAnswers, Ends
    <2>4. QED
      BY <1>1, <1>2, <2>2, <2>3 DEF Keeps
  <1>6. QED
    BY <1>4, <1>5

-----------------------------------------------------------------------------

LEMMA StepKeeps == StreamInv /\ [Next]_streamVars => Keeps
  <1> SUFFICES ASSUME StreamInv, [Next]_streamVars PROVE Keeps
    OBVIOUS
  <1>1. CASE UNCHANGED streamVars
    BY <1>1 DEF streamVars, StreamInv, Keeps
  <1>2. CASE Start \/ Restart \/ Close \/ RetryFires
    BY <1>2, StartKeeps, RestartKeeps, CloseKeeps, RetryFiresKeeps
  <1>3. CASE \E r \in Requests : Request(r) \/ RequestTimeout(r)
    BY <1>3, RequestKeeps, RequestTimeoutKeeps
  <1>4. CASE \/ ConnectTimeout \/ Heartbeat \/ TokenAges
             \/ \E s \in Sockets : PingTimeout(s) \/ TokenFails(s)
    BY <1>4, TimersKeep
  <1>5. ASSUME NEW s \in Sockets, SocketOpens(s) \/ TokenArrives(s) PROVE Keeps
    BY <1>5, SocketOpensKeeps, TokenArrivesKeeps
  <1>6. ASSUME NEW s \in Sockets, NEW code \in CloseFrame \cup {"retry"}, Falls(s, code) PROVE Keeps
    BY <1>6, FallsKeeps
  <1>7. ASSUME NEW s \in Sockets, ReadyArrives(s) \/ UnsupportedArrives(s) PROVE Keeps
    BY <1>7, ReadyArrivesKeeps, UnsupportedArrivesKeeps
  <1>8. ASSUME NEW s \in Sockets,
               RefusalArrives(s) \/ PongArrives(s) \/ \E r \in Requests : AnswerArrives(s, r)
        PROVE  Keeps
    BY <1>8, FramesArriveKeep
  <1>9. ASSUME NEW s \in Sockets,
               \/ ServerIdentifies(s) \/ ServerCloses(s)
               \/ \E r \in Requests \cup {"ping"} : ServerAnswers(s, r)
        PROVE  Keeps
    BY <1>9, ServerKeeps
  <1>10. QED
    BY <1>1, <1>2, <1>3, <1>4, <1>5, <1>6, <1>7, <1>8, <1>9 DEF Next

\* The fields of the class stay coherent, whatever opens, falls, answers or times out.
THEOREM StreamSpecInv == Spec => []StreamInv
  <1>1. StreamInv /\ [Next]_streamVars => StreamInv'
    BY StepKeeps DEF Keeps, StreamInv
  <1>2. QED
    BY InitIsSound, <1>1, PTL DEF Spec

\* signalStream.ts:12-18: any fall becomes an attempt to come back.  A stream that
\* was started has a WebSocket or a retry set exactly until it stops, after any
\* number of falls, of any WebSockets, crossing any closes.
THEOREM StaysOnTheWayBack == Spec => []AlwaysOnTheWayBack
  <1>1. StreamInv => AlwaysOnTheWayBack
    BY DEF StreamInv, Sound, Fields, OnTheWay, Ends, AlwaysOnTheWayBack, StreamTypeOK
  <1>2. QED
    BY <1>1, StreamSpecInv, PTL

\* close, giveUp, handleDown: a stream that stopped stays stopped, opens nothing,
\* listens to nothing, and leaves nobody waiting.
THEOREM StaysQuiet == Spec => QuietOnceStopped
  <1> DEFINE Quiet == stream.stopped =>
                          /\ stream'.stopped /\ stream'.state = "closed"
                          /\ stream'.ws = None
                          /\ \A r \in Requests : stream'.requests[r] \notin {"waiting", "pending"}
  <1>1. StreamInv /\ [Next]_streamVars => Quiet
    <2> SUFFICES ASSUME Sound(stream'), stream'.stopped
                 PROVE  /\ stream'.state = "closed" /\ stream'.ws = None
                        /\ \A r \in Requests : stream'.requests[r] \notin {"waiting", "pending"}
      BY StepKeeps DEF Keeps
    <2>1. QED
      BY DEF Sound, NothingYet, OnTheWay, NobodyWaits
  <1>2. StreamInv /\ [Next]_streamVars => [Quiet]_streamVars
    BY <1>1
  <1>3. QED
    BY <1>2, StreamSpecInv, PTL DEF Spec, QuietOnceStopped

-----------------------------------------------------------------------------
(* MediaSubscribing: sequences, by the set of kinds they hold.                *)

\* At most one of K is in s.
Once(s, K) == \A i, j \in DOMAIN s : s[i] \in K /\ s[j] \in K => i = j

\* None of B is behind one of A.
Ordered(s, A, B) == \A i, j \in DOMAIN s : i < j /\ s[i] \in A => s[j] \notin B

Lacks(s, K) == \A i \in DOMAIN s : s[i] \notin K

LEMMA EmptyRange == Range(<<>>) = {}
  BY DEF Range

LEMMA RangeOfTail ==
    ASSUME NEW S, NEW s \in Seq(S), s # <<>>
    PROVE  /\ Head(s) \in Range(s) /\ Head(s) \in S
           /\ Tail(s) \in Seq(S)
           /\ Range(s) = {Head(s)} \cup Range(Tail(s))
  <1>1. 1 \in DOMAIN s /\ Head(s) = s[1] /\ Len(s) \in Nat /\ Len(s) >= 1
    OBVIOUS
  <1>2. Tail(s) \in Seq(S) /\ Len(Tail(s)) = Len(s) - 1
        /\ \A i \in 1 .. Len(s) - 1 : Tail(s)[i] = s[i + 1]
    OBVIOUS
  <1>3. \A i \in DOMAIN s : i # 1 => i - 1 \in DOMAIN Tail(s) /\ Tail(s)[i - 1] = s[i]
    BY <1>1, <1>2
  <1>4. \A i \in DOMAIN Tail(s) : i + 1 \in DOMAIN s /\ Tail(s)[i] = s[i + 1]
    BY <1>1, <1>2
  <1>5. Range(s) \subseteq {Head(s)} \cup Range(Tail(s))
    BY <1>1, <1>3 DEF Range
  <1>6. Range(Tail(s)) \subseteq Range(s) /\ Head(s) \in Range(s)
    BY <1>1, <1>4 DEF Range
  <1>7. Head(s) \in S
    BY <1>1
  <1> QED
    BY <1>2, <1>5, <1>6, <1>7

LEMMA RangeOfAppend ==
    ASSUME NEW S, NEW s \in Seq(S), NEW e \in S
    PROVE  Append(s, e) \in Seq(S) /\ Range(Append(s, e)) = Range(s) \cup {e}
  <1>1. /\ Append(s, e) \in Seq(S) /\ DOMAIN Append(s, e) = 1 .. Len(s) + 1
        /\ Append(s, e)[Len(s) + 1] = e /\ \A i \in 1 .. Len(s) : Append(s, e)[i] = s[i]
        /\ DOMAIN s = 1 .. Len(s) /\ Len(s) \in Nat
    OBVIOUS
  <1>2. 1 .. Len(s) + 1 = 1 .. Len(s) \cup {Len(s) + 1}
    BY <1>1
  <1> QED
    BY <1>1, <1>2 DEF Range

LEMMA RangeOfConcat ==
    ASSUME NEW S, NEW s \in Seq(S), NEW t \in Seq(S)
    PROVE  s \o t \in Seq(S) /\ Range(s \o t) = Range(s) \cup Range(t)
  <1>1. /\ s \o t \in Seq(S) /\ DOMAIN (s \o t) = 1 .. Len(s) + Len(t)
        /\ \A i \in 1 .. Len(s) : (s \o t)[i] = s[i]
        /\ \A i \in Len(s) + 1 .. Len(s) + Len(t) : (s \o t)[i] = t[i - Len(s)]
        /\ DOMAIN s = 1 .. Len(s) /\ Len(s) \in Nat /\ DOMAIN t = 1 .. Len(t) /\ Len(t) \in Nat
    OBVIOUS
  <1>2. \A i \in 1 .. Len(t) : (s \o t)[i + Len(s)] = t[i] /\ i + Len(s) \in DOMAIN (s \o t)
    BY <1>1
  <1>3. \A i \in DOMAIN (s \o t) : i \in DOMAIN s \/ (i - Len(s) \in DOMAIN t /\ (s \o t)[i] = t[i - Len(s)])
    BY <1>1
  <1>4. ASSUME NEW i \in DOMAIN s PROVE i \in DOMAIN (s \o t)
    <2> DEFINE a == Len(s)
               b == Len(t)
    <2>1. a \in Nat /\ b \in Nat /\ i \in 1 .. a /\ DOMAIN (s \o t) = 1 .. a + b
      BY <1>1
    <2> HIDE DEF a, b
    <2>2. i \in 1 .. a + b
      BY ONLY <2>1, a \in Nat, b \in Nat, i \in 1 .. a
    <2> QED
      BY ONLY <2>1, <2>2, Zenon
  <1>5. Range(s \o t) \subseteq Range(s) \cup Range(t)
    BY <1>1, <1>3 DEF Range
  <1>6. Range(s) \subseteq Range(s \o t)
    BY <1>1, <1>4 DEF Range
  <1>7. ASSUME NEW i \in DOMAIN t PROVE t[i] \in Range(s \o t)
    <2>1. (s \o t)[i + Len(s)] = t[i] /\ i + Len(s) \in DOMAIN (s \o t)
      BY <1>1, <1>2
    <2> QED
      BY <2>1 DEF Range
  <1>8. Range(t) \subseteq Range(s \o t)
    BY <1>7 DEF Range
  <1> QED
    BY <1>1, <1>5, <1>6, <1>8

LEMMA ConcatAgain ==
    ASSUME NEW S, NEW a \in Seq(S), NEW s \in Seq(S), NEW t \in Seq(S)
    PROVE  (a \o s) \o t = a \o (s \o t)
  OBVIOUS

LEMMA LacksIsRange ==
    ASSUME NEW s, NEW K
    PROVE  Lacks(s, K) <=> Range(s) \cap K = {}
  BY DEF Lacks, Range

LEMMA LacksMeansOnce ==
    ASSUME NEW s, NEW K, Lacks(s, K)
    PROVE  Once(s, K)
  BY DEF Lacks, Once

LEMMA EmptyLacks == ASSUME NEW K PROVE Lacks(<<>>, K)
  BY DEF Lacks

LEMMA TailOfSuch ==
    ASSUME NEW S, NEW s \in Seq(S), s # <<>>, NEW K
    PROVE  /\ Once(s, K) => Once(Tail(s), K) /\ (Head(s) \in K => Lacks(Tail(s), K))
           /\ Lacks(s, K) => Lacks(Tail(s), K) /\ Head(s) \notin K
  <1>1. 1 \in DOMAIN s /\ Head(s) = s[1] /\ Len(s) \in Nat /\ DOMAIN s = 1 .. Len(s)
    OBVIOUS
  <1>2. \A i \in DOMAIN Tail(s) : i \in Nat \ {0} /\ i + 1 \in DOMAIN s /\ Tail(s)[i] = s[i + 1]
    OBVIOUS
  <1> QED
    BY <1>1, <1>2 DEF Once, Lacks

LEMMA TailOrdered ==
    ASSUME NEW S, NEW s \in Seq(S), s # <<>>, NEW A, NEW B, Ordered(s, A, B)
    PROVE  Ordered(Tail(s), A, B) /\ (Head(s) \in A => Lacks(Tail(s), B))
  <1>1. 1 \in DOMAIN s /\ Head(s) = s[1] /\ Len(s) \in Nat /\ DOMAIN s = 1 .. Len(s)
    OBVIOUS
  <1>2. \A i \in DOMAIN Tail(s) : i \in Nat \ {0} /\ i + 1 \in DOMAIN s /\ Tail(s)[i] = s[i + 1]
    OBVIOUS
  <1> QED
    BY <1>1, <1>2 DEF Ordered, Lacks

LEMMA AppendOfSuch ==
    ASSUME NEW S, NEW s \in Seq(S), NEW e, NEW K
    PROVE  /\ Once(s, K) /\ (e \notin K \/ Lacks(s, K)) => Once(Append(s, e), K)
           /\ Lacks(s, K) /\ e \notin K => Lacks(Append(s, e), K)
  <1>1. /\ DOMAIN Append(s, e) = 1 .. Len(s) + 1 /\ Len(s) \in Nat /\ DOMAIN s = 1 .. Len(s)
        /\ Append(s, e)[Len(s) + 1] = e /\ \A i \in 1 .. Len(s) : Append(s, e)[i] = s[i]
    OBVIOUS
  <1>2. \A i \in DOMAIN Append(s, e) : i \in DOMAIN s \/ i = Len(s) + 1
    BY <1>1
  <1> QED
    BY <1>1, <1>2 DEF Once, Lacks

LEMMA AppendOrdered ==
    ASSUME NEW S, NEW s \in Seq(S), NEW e, NEW A, NEW B, Ordered(s, A, B), e \notin B \/ Lacks(s, A)
    PROVE  Ordered(Append(s, e), A, B)
  <1>1. /\ DOMAIN Append(s, e) = 1 .. Len(s) + 1 /\ Len(s) \in Nat /\ DOMAIN s = 1 .. Len(s)
        /\ Append(s, e)[Len(s) + 1] = e /\ \A i \in 1 .. Len(s) : Append(s, e)[i] = s[i]
    OBVIOUS
  <1>2. \A i, j \in DOMAIN Append(s, e) : i < j => i \in DOMAIN s /\ (j \in DOMAIN s \/ j = Len(s) + 1)
    BY <1>1
  <1> QED
    BY <1>1, <1>2 DEF Ordered, Lacks

LEMMA ConcatOfSuch ==
    ASSUME NEW S, NEW s \in Seq(S), NEW t \in Seq(S), NEW K
    PROVE  /\ Once(s, K) /\ Once(t, K) /\ (Lacks(s, K) \/ Lacks(t, K)) => Once(s \o t, K)
           /\ Lacks(s, K) /\ Lacks(t, K) => Lacks(s \o t, K)
  <1>1. \A i \in DOMAIN (s \o t) : \/ i \in DOMAIN s /\ (s \o t)[i] = s[i]
                                   \/ i - Len(s) \in DOMAIN t /\ (s \o t)[i] = t[i - Len(s)]
    OBVIOUS
  <1>2. \A i \in DOMAIN (s \o t) : i \in Int
    OBVIOUS
  <1>3. Len(s) \in Nat
    OBVIOUS
  <1>4. ASSUME Once(s, K), Once(t, K), Lacks(s, K) \/ Lacks(t, K) PROVE Once(s \o t, K)
    <2> SUFFICES ASSUME NEW i \in DOMAIN (s \o t), NEW j \in DOMAIN (s \o t),
                        (s \o t)[i] \in K, (s \o t)[j] \in K
                 PROVE  i = j
      BY DEF Once
    <2>1. CASE Lacks(s, K)
      <3>1. i - Len(s) \in DOMAIN t /\ (s \o t)[i] = t[i - Len(s)]
        BY <1>1, <2>1 DEF Lacks
      <3>2. j - Len(s) \in DOMAIN t /\ (s \o t)[j] = t[j - Len(s)]
        BY <1>1, <2>1 DEF Lacks
      <3>3. i - Len(s) = j - Len(s)
        BY <3>1, <3>2, <1>4 DEF Once
      <3> QED
        BY <3>3, <1>2, <1>3
    <2>2. CASE Lacks(t, K)
      BY <2>2, <1>1, <1>4 DEF Lacks, Once
    <2> QED
      BY <1>4, <2>1, <2>2
  <1>5. ASSUME Lacks(s, K), Lacks(t, K) PROVE Lacks(s \o t, K)
    BY <1>1, <1>5 DEF Lacks
  <1> QED
    BY <1>4, <1>5

LEMMA ConcatOrdered ==
    ASSUME NEW S, NEW s \in Seq(S), NEW t \in Seq(S), NEW A, NEW B,
           Ordered(s, A, B), Ordered(t, A, B), Lacks(s, A) \/ Lacks(t, B)
    PROVE  Ordered(s \o t, A, B)
  <1>1. \A i \in DOMAIN (s \o t) : \/ i \in DOMAIN s /\ (s \o t)[i] = s[i]
                                   \/ i - Len(s) \in DOMAIN t /\ (s \o t)[i] = t[i - Len(s)]
    OBVIOUS
  <1>2. \A i \in DOMAIN (s \o t) : i \in Int
    OBVIOUS
  <1>3. Len(s) \in Nat /\ DOMAIN s = 1 .. Len(s) /\ DOMAIN t = 1 .. Len(t) /\ Len(t) \in Nat
    OBVIOUS
  <1> SUFFICES ASSUME NEW i \in DOMAIN (s \o t), NEW j \in DOMAIN (s \o t), i < j,
                      (s \o t)[i] \in A, (s \o t)[j] \in B
               PROVE  FALSE
    BY DEF Ordered
  <1>4. CASE i \in DOMAIN s /\ (s \o t)[i] = s[i]
    <2>1. CASE j \in DOMAIN s /\ (s \o t)[j] = s[j]
      BY <1>4, <2>1 DEF Ordered
    <2>2. CASE j - Len(s) \in DOMAIN t /\ (s \o t)[j] = t[j - Len(s)]
      BY <1>4, <2>2 DEF Lacks
    <2> QED
      BY <1>1, <2>1, <2>2
  <1>5. CASE i - Len(s) \in DOMAIN t /\ (s \o t)[i] = t[i - Len(s)]
    <2>1. CASE j \in DOMAIN s
      BY <1>5, <2>1, <1>2, <1>3
    <2>2. CASE j - Len(s) \in DOMAIN t /\ (s \o t)[j] = t[j - Len(s)]
      <3>1. i - Len(s) < j - Len(s)
        BY <1>2, <1>3
      <3> QED
        BY <1>5, <2>2, <3>1 DEF Ordered
    <2> QED
      BY <1>1, <2>1, <2>2
  <1> QED
    BY <1>1, <1>4, <1>5

\* The sequence of a finite set has each of its members, once.
LEMMA SeqOfSet ==
    ASSUME NEW S, IsFiniteSet(S)
    PROVE  /\ SetToSeq(S) \in Seq(S)
           /\ Range(SetToSeq(S)) = S
           /\ \A i, j \in DOMAIN SetToSeq(S) : SetToSeq(S)[i] = SetToSeq(S)[j] => i = j
  <1>1. Cardinality(S) \in Nat /\ ExistsBijection(1 .. Cardinality(S), S)
    BY FS_CardinalityType
  <1>2. PICK g \in [1 .. Cardinality(S) -> S] : IsInjective(g)
    BY <1>1 DEF ExistsBijection, Bijection, Injection, IsInjective
  <1> DEFINE f == SetToSeq(S)
  <1>3. f \in [1 .. Cardinality(S) -> S] /\ IsInjective(f)
    BY <1>2 DEF SetToSeq
  <1> HIDE DEF f
  <1>4. f \in Injection(1 .. Cardinality(S), S)
    BY <1>3 DEF Injection
  <1>5. Cardinality(1 .. Cardinality(S)) = Cardinality(S)
    BY <1>1, FS_Interval
  <1>6. f \in Surjection(1 .. Cardinality(S), S)
    BY <1>4, <1>5, FS_Injection
  <1>7. f \in Seq(S) /\ DOMAIN f = 1 .. Cardinality(S)
    BY <1>1, <1>3
  <1>8. Range(f) = S
    BY <1>6, <1>3 DEF Surjection, Range
  <1> QED
    BY <1>3, <1>7, <1>8 DEF IsInjective, f


-----------------------------------------------------------------------------
(* MediaSubscribing: the channel, the session and the path of the media.      *)

Builds == {e \in Messages \cup Requested : e.what \in {"caps", "transport"}}

\* What an entry of the line or of the requests carries.
Formed(e) ==
    /\ e.what \in {"consume", "resume", "announced", "closed", "gone"} => e.try \in Tries
    /\ e.what \in {"resume", "gone"} => e.id \in Consumers
    /\ e.what \in Directions => e.id \in Transports

AnswerFormed(e) ==
    /\ e.what = "consume" /\ e.ok => e.id \in Consumers
    /\ e.what = "transport" /\ e.ok => e.id \in Transports

WellFormed(m, l) ==
    /\ \A e \in Range(m.asks) : Formed(e)
    /\ \A e \in Range(l) : Formed(e) /\ AnswerFormed(e)

ChannelSound(m, l) ==
    /\ ~m.alive => m.channel = "closed"
    /\ m.channel # "ready" => l = <<>> /\ Lacks(m.asks, Builds)
    /\ m.recv # Absent => m.channel \in {"ready", "reconnecting"}

\* One session is built at a time, and none while there is one.
OneSession(m, l) ==
    /\ m.recv # Absent => Lacks(l, Builds) /\ Lacks(m.asks, Builds)
    /\ Once(l, Builds) /\ Once(m.asks, Builds)
    /\ Lacks(l, Builds) \/ Lacks(m.asks, Builds)

PathSound(m) ==
    /\ m.recv = Absent => m.ice = NewPaths
    /\ \A d \in Directions : /\ m.ice[d].state = "connected" => m.ice[d].loss = "none"
                             /\ m.ice[d].state = "lost" => m.ice[d].loss # "none"

\* No handleReconnected waits for a publication.
Settled(m) == \A r \in Rests : m.resting[r] = 0

AllFine(m) == \A d \in Directions : Fine(m.ice[d])

StateKept(m) ==
    /\ m.first => ~m.was
    /\ m.recv # Absent => m.was
    /\ m.alive /\ m.was => m.state \in {"connected", "reconnecting", "blocked"}
    /\ m.alive /\ m.state = "connected" =>
           /\ m.channel = "ready" /\ m.recv # Absent
           /\ \A d \in Directions : m.ice[d].state = "lost" => m.ice[d].loss = "early"

StateSound(m) ==
    /\ StateKept(m)
    /\ m.channel = "ready" /\ m.recv # Absent /\ Settled(m) /\ AllFine(m) => m.state # "reconnecting"

\* All but what the page shows.
Framed(m, l) ==
    /\ m \in Connections /\ l \in Seq(Messages)
    /\ WellFormed(m, l)
    /\ ChannelSound(m, l)
    /\ OneSession(m, l)
    /\ PathSound(m)

Steady(m, l) == Framed(m, l) /\ StateSound(m)

RenegotiationOf(m, l, d) == \E e \in Range(l) \cup Range(m.asks) : e.what = d /\ e.id = m.recv

LostIsOnItsWay(m, l) ==
    \A d \in Directions : m.recv # Absent /\ m.ice[d].loss = "late" =>
        \/ m.ice[d].handle # "none" \/ m.ice[d].strays # {}
        \/ RenegotiationOf(m, l, d)
        \/ m.channel = "reconnecting" /\ ~m.sid

PathInv(m, l) == Steady(m, l) /\ LostIsOnItsWay(m, l)

\* What subscribing leaves alone, but for the requests it adds.
SamePath(m, n) ==
    /\ n.alive = m.alive /\ n.state = m.state /\ n.channel = m.channel /\ n.sid = m.sid
    /\ n.recv = m.recv /\ n.ever = m.ever /\ n.ice = m.ice
    /\ n.first = m.first /\ n.was = m.was /\ n.resting = m.resting

IsAttempt(e) == e.what \in {"consume", "resume"}

\* Requests are added, and no more that matters to the path but what the page shows.
Onward(m, n) ==
    /\ n \in Connections
    /\ n.alive = m.alive /\ n.channel = m.channel /\ n.sid = m.sid /\ n.recv = m.recv
    /\ n.ever = m.ever /\ n.ice = m.ice /\ n.first = m.first /\ n.was = m.was
    /\ \E s \in Seq(Requested) :
           n.asks = m.asks \o s /\ \A e \in Range(s) : IsAttempt(e) /\ Formed(e)

Quiet(m, n) ==
    /\ n \in Connections
    /\ SamePath(m, n)
    /\ \E s \in Seq(Requested) :
           n.asks = m.asks \o s /\ \A e \in Range(s) : IsAttempt(e) /\ Formed(e)

-----------------------------------------------------------------------------

LEMMA AsksAreSeq == ASSUME NEW m \in Connections PROVE m.asks \in Seq(Requested)
  BY DEF Connections

LEMMA SilentIsQuiet ==
    ASSUME NEW m \in Connections, NEW n \in Connections, SamePath(m, n), n.asks = m.asks
    PROVE  Quiet(m, n)
  <1>1. <<>> \in Seq(Requested) /\ Range(<<>>) = {}
    BY EmptyRange
  <1>2. n.asks = m.asks \o <<>>
    BY AsksAreSeq
  <1> QED
    BY <1>1, <1>2 DEF Quiet

LEMMA AskingIsQuiet ==
    ASSUME NEW m \in Connections, NEW n \in Connections, SamePath(m, n),
           NEW e \in Requested, IsAttempt(e), Formed(e), n.asks = Append(m.asks, e)
    PROVE  Quiet(m, n)
  <1>1. <<e>> \in Seq(Requested) /\ Range(<<e>>) = {e}
    BY DEF Range
  <1>2. n.asks = m.asks \o <<e>>
    BY AsksAreSeq
  <1> QED
    BY <1>1, <1>2 DEF Quiet

LEMMA QuietAgain ==
    ASSUME NEW m \in Connections, NEW n, NEW k, Quiet(m, n), Quiet(n, k)
    PROVE  Quiet(m, k)
  <1>1. PICK s \in Seq(Requested) :
            n.asks = m.asks \o s /\ \A e \in Range(s) : IsAttempt(e) /\ Formed(e)
    BY DEF Quiet
  <1>2. PICK t \in Seq(Requested) :
            k.asks = n.asks \o t /\ \A e \in Range(t) : IsAttempt(e) /\ Formed(e)
    BY DEF Quiet
  <1>3. s \o t \in Seq(Requested) /\ Range(s \o t) = Range(s) \cup Range(t)
    BY RangeOfConcat
  <1>4. k.asks = m.asks \o (s \o t)
    <2>1. m.asks \in Seq(Requested) /\ k.asks = (m.asks \o s) \o t
      BY <1>1, <1>2, AsksAreSeq
    <2> DEFINE a == m.asks
    <2>2. a \in Seq(Requested)
      BY <2>1
    <2> HIDE DEF a
    <2>3. (a \o s) \o t = a \o (s \o t)
      BY <2>2, ConcatAgain
    <2> QED
      BY <2>1, <2>3, Zenon DEF a
  <1>5. SamePath(m, k) /\ k \in Connections
    BY DEF Quiet, SamePath
  <1> QED
    BY <1>1, <1>2, <1>3, <1>4, <1>5 DEF Quiet

LEMMA OnwardAgain ==
    ASSUME NEW m \in Connections, NEW n, NEW k, Onward(m, n), Onward(n, k)
    PROVE  Onward(m, k)
  <1>1. PICK s \in Seq(Requested) :
            n.asks = m.asks \o s /\ \A e \in Range(s) : IsAttempt(e) /\ Formed(e)
    BY DEF Onward
  <1>2. PICK t \in Seq(Requested) :
            k.asks = n.asks \o t /\ \A e \in Range(t) : IsAttempt(e) /\ Formed(e)
    BY DEF Onward
  <1>3. s \o t \in Seq(Requested) /\ Range(s \o t) = Range(s) \cup Range(t)
    BY RangeOfConcat
  <1>4. k.asks = m.asks \o (s \o t)
    <2>1. m.asks \in Seq(Requested) /\ k.asks = (m.asks \o s) \o t
      BY <1>1, <1>2, AsksAreSeq
    <2> DEFINE a == m.asks
    <2>2. a \in Seq(Requested)
      BY <2>1
    <2> HIDE DEF a
    <2>3. (a \o s) \o t = a \o (s \o t)
      BY <2>2, ConcatAgain
    <2> QED
      BY <2>1, <2>3, Zenon DEF a
  <1>5. k \in Connections
    BY DEF Onward
  <1> QED
    BY <1>1, <1>2, <1>3, <1>4, <1>5 DEF Onward

LEMMA QuietIsOnward ==
    ASSUME NEW m, NEW n, Quiet(m, n)
    PROVE  Onward(m, n)
  BY DEF Quiet, SamePath, Onward

LEMMA OnwardKeeps ==
    ASSUME NEW m, NEW n, NEW l, Framed(m, l), Onward(m, n)
    PROVE  Framed(n, l) /\ (LostIsOnItsWay(m, l) => LostIsOnItsWay(n, l))
  <1>0. m \in Connections /\ n \in Connections /\ l \in Seq(Messages)
    BY DEF Framed, Onward
  <1>1. PICK s \in Seq(Requested) :
            n.asks = m.asks \o s /\ \A e \in Range(s) : IsAttempt(e) /\ Formed(e)
    BY DEF Onward
  <1>2. Range(n.asks) = Range(m.asks) \cup Range(s)
    BY <1>0, <1>1, AsksAreSeq, RangeOfConcat
  <1>3. Lacks(s, Builds)
    BY <1>1 DEF Lacks, Range, Builds, IsAttempt
  <1>4. /\ Lacks(m.asks, Builds) => Lacks(n.asks, Builds)
        /\ Once(m.asks, Builds) => Once(n.asks, Builds)
    BY <1>0, <1>1, <1>3, AsksAreSeq, ConcatOfSuch, LacksMeansOnce
  <1>5. WellFormed(n, l)
    BY <1>1, <1>2 DEF Framed, WellFormed
  <1>6. ChannelSound(n, l) /\ OneSession(n, l) /\ PathSound(n)
    BY <1>4 DEF Framed, ChannelSound, OneSession, PathSound, Onward
  <1>7. ASSUME LostIsOnItsWay(m, l) PROVE LostIsOnItsWay(n, l)
    BY <1>2, <1>7 DEF LostIsOnItsWay, RenegotiationOf, Onward
  <1> QED
    BY <1>0, <1>5, <1>6, <1>7 DEF Framed

LEMMA QuietKeeps ==
    ASSUME NEW m, NEW n, NEW l, PathInv(m, l), Quiet(m, n)
    PROVE  PathInv(n, l)
  <1>1. Framed(n, l) /\ LostIsOnItsWay(n, l)
    BY QuietIsOnward, OnwardKeeps DEF PathInv, Steady
  <1>2. StateSound(n)
    BY DEF PathInv, Steady, StateSound, StateKept, Settled, AllFine, Quiet, SamePath
  <1> QED
    BY <1>1, <1>2 DEF PathInv, Steady

LEMMA DropThoseTyped ==
    ASSUME NEW m \in Connections, NEW ts
    PROVE  /\ DropThose(m, ts) \in Connections
           /\ SamePath(m, DropThose(m, ts)) /\ DropThose(m, ts).asks = m.asks
  BY DEF DropThose, Connections, SamePath

LEMMA DropThoseIsQuiet ==
    ASSUME NEW m \in Connections, NEW ts
    PROVE  Quiet(m, DropThose(m, ts))
  BY DropThoseTyped, SilentIsQuiet

LEMMA AttemptTyped ==
    ASSUME NEW t \in Tracks, NEW via \in Transports \cup {Absent}, NEW retry \in BOOLEAN
    PROVE  Attempt(t, via, retry) \in Requested /\ Formed(Attempt(t, via, retry))
  BY DEF Attempt, Requested, Tries, Ids, Formed, Directions

AttemptsAt(ts, via, retry) == {Attempt(t, via, retry) : t \in ts}

LEMMA AttemptsAreFinite ==
    ASSUME NEW ts \in SUBSET Tracks, NEW via, NEW retry
    PROVE  IsFiniteSet(AttemptsAt(ts, via, retry))
  <1>1. IsFiniteSet(ts)
    BY SubscribingAssumption, FS_Subset
  <1> DEFINE f == [t \in ts |-> Attempt(t, via, retry)]
  <1>2. f \in Surjection(ts, AttemptsAt(ts, via, retry))
    BY DEF Surjection, AttemptsAt
  <1> QED
    BY <1>1, <1>2, FS_Surjection

\* The requests that Subscribe adds.
NewAttempts(m, ts, retry) == SetToSeq(AttemptsAt(ts, m.recv, retry))

LEMMA NewAttemptsAre ==
    ASSUME NEW m \in Connections, NEW ts \in SUBSET Tracks, NEW retry \in BOOLEAN
    PROVE  /\ NewAttempts(m, ts, retry) \in Seq(Requested)
           /\ Range(NewAttempts(m, ts, retry)) = AttemptsAt(ts, m.recv, retry)
           /\ \A i, j \in DOMAIN NewAttempts(m, ts, retry) :
                  NewAttempts(m, ts, retry)[i] = NewAttempts(m, ts, retry)[j] => i = j
           /\ \A e \in AttemptsAt(ts, m.recv, retry) : e \in Requested /\ IsAttempt(e) /\ Formed(e)
  <1>1. m.recv \in Transports \cup {Absent}
    BY DEF Connections
  <1>2. \A e \in AttemptsAt(ts, m.recv, retry) : e \in Requested /\ IsAttempt(e) /\ Formed(e)
    BY <1>1, AttemptTyped DEF AttemptsAt, IsAttempt, Attempt
  <1> DEFINE S == AttemptsAt(ts, m.recv, retry)
             q == NewAttempts(m, ts, retry)
  <1>3. IsFiniteSet(S)
    BY AttemptsAreFinite
  <1>4. q \in Seq(S) /\ Range(q) = S /\ \A i, j \in DOMAIN q : q[i] = q[j] => i = j
    BY <1>3, SeqOfSet DEF NewAttempts
  <1> HIDE DEF q
  <1>5. q \in Seq(Requested)
    BY <1>2, <1>4
  <1> QED
    BY <1>2, <1>4, <1>5 DEF q

LEMMA SubscribeTyped ==
    ASSUME NEW m \in Connections, NEW ts \in SUBSET Tracks, NEW retry \in BOOLEAN
    PROVE  /\ Subscribe(m, ts, retry) \in Connections
           /\ SamePath(m, Subscribe(m, ts, retry))
           /\ Subscribe(m, ts, retry).asks = m.asks \o NewAttempts(m, ts, retry)
  <1> DEFINE q == NewAttempts(m, ts, retry)
             n == Subscribe(m, ts, retry)
  <1>1. n = [m EXCEPT !.consuming = @ \cup ts, !.gaveUp = @ \ ts, !.asks = @ \o q]
    BY DEF Subscribe, NewAttempts, AttemptsAt
  <1>2. q \in Seq(Requested)
    BY NewAttemptsAre
  <1> HIDE DEF q, n
  <1>3. m.asks \o q \in Seq(Requested)
    BY <1>2, AsksAreSeq
  <1>4. n \in Connections
    BY <1>1, <1>3 DEF Connections
  <1>5. SamePath(m, n) /\ n.asks = m.asks \o q
    BY <1>1 DEF Connections, SamePath
  <1> QED
    BY <1>4, <1>5 DEF q, n

LEMMA SubscribeIsQuiet ==
    ASSUME NEW m \in Connections, NEW ts \in SUBSET Tracks, NEW retry \in BOOLEAN
    PROVE  Quiet(m, Subscribe(m, ts, retry))
  <1> DEFINE q == NewAttempts(m, ts, retry)
  <1>1. q \in Seq(Requested) /\ \A e \in Range(q) : IsAttempt(e) /\ Formed(e)
    BY NewAttemptsAre
  <1>2. /\ Subscribe(m, ts, retry) \in Connections /\ SamePath(m, Subscribe(m, ts, retry))
        /\ Subscribe(m, ts, retry).asks = m.asks \o q
    BY SubscribeTyped
  <1> HIDE DEF q
  <1> QED
    BY <1>1, <1>2 DEF Quiet

LEMMA EnsureConsumedIsQuiet ==
    ASSUME NEW m \in Connections, NEW ts \in SUBSET Tracks, NEW retry \in BOOLEAN
    PROVE  Quiet(m, EnsureConsumed(m, ts, retry))
  <1>1. Missing(m, ts) \in SUBSET Tracks
    BY DEF Missing
  <1> QED
    BY <1>1, SubscribeIsQuiet DEF EnsureConsumed

LEMMA ConsumeMissingIsQuiet ==
    ASSUME NEW m \in Connections
    PROVE  Quiet(m, ConsumeMissing(m))
  <1>1. m.announced \in SUBSET Tracks
    BY DEF Connections
  <1> QED
    BY <1>1, EnsureConsumedIsQuiet DEF ConsumeMissing

LEMMA ConsumeFailedTyped ==
    ASSUME NEW m \in Connections, NEW tries \in SUBSET Tries
    PROVE  /\ ConsumeFailed(m, tries) \in Connections
           /\ SamePath(m, ConsumeFailed(m, tries)) /\ ConsumeFailed(m, tries).asks = m.asks
  <1>1. \A T \in SUBSET Tries : TracksOf(T) \subseteq Tracks
    BY DEF TracksOf, Tries
  <1>2. TracksOf({y \in {z \in tries : z.via = m.recv} : y.retry}) \subseteq Tracks
    BY <1>1
  <1>3. TracksOf({y \in {z \in tries : z.via = m.recv} : ~y.retry}) \subseteq Tracks
    BY <1>1
  <1> QED
    BY <1>2, <1>3 DEF ConsumeFailed, Connections, SamePath

LEMMA ConsumeFailedIsQuiet ==
    ASSUME NEW m \in Connections, NEW tries \in SUBSET Tries
    PROVE  Quiet(m, ConsumeFailed(m, tries))
  BY ConsumeFailedTyped, SilentIsQuiet

LEMMA ConsumeEndedIsQuiet ==
    ASSUME NEW m \in Connections, NEW try
    PROVE  Quiet(m, ConsumeEnded(m, try))
  <1>1. /\ ConsumeEnded(m, try) \in Connections /\ SamePath(m, ConsumeEnded(m, try))
        /\ ConsumeEnded(m, try).asks = m.asks
    BY DEF ConsumeEnded, Connections, SamePath
  <1> QED
    BY <1>1, SilentIsQuiet

LEMMA ConsumeAnsweredIsQuiet ==
    ASSUME NEW m \in Connections, NEW try \in Tries, NEW c \in Consumers
    PROVE  Quiet(m, ConsumeAnswered(m, try, c))
  <1> DEFINE more == m.making \cup {[try |-> try, id |-> c]}
             n == [m EXCEPT !.making = more]
  <1>0. more \in SUBSET [try : Tries, id : Consumers]
    BY DEF Connections
  <1> HIDE DEF more
  <1>1. n \in Connections /\ SamePath(m, n) /\ n.asks = m.asks
    BY <1>0 DEF Connections, SamePath
  <1>2. Quiet(m, n)
    BY <1>1, SilentIsQuiet
  <1> QED
    BY <1>2, ConsumeEndedIsQuiet DEF ConsumeAnswered, more

LEMMA ConsumerMadeIsQuiet ==
    ASSUME NEW m \in Connections, NEW try \in Tries, NEW c \in Consumers
    PROVE  Quiet(m, ConsumerMade(m, try, c))
  <1> DEFINE n == [m EXCEPT !.making = @ \ {[try |-> try, id |-> c]}]
             k == [n EXCEPT !.consumers[try.track] = c, !.open = @ \cup {c}]
             e == [what |-> "resume", try |-> try, id |-> c]
  <1>1. n \in Connections /\ SamePath(m, n) /\ n.asks = m.asks
    BY DEF Connections, SamePath
  <1>2. Quiet(m, n)
    BY <1>1, SilentIsQuiet
  <1>3. CASE Stale(m, try)
    BY <1>1, <1>2, <1>3, ConsumeEndedIsQuiet, QuietAgain DEF ConsumerMade
  <1>4. CASE ~Stale(m, try)
    <2> HIDE DEF n
    <2> DEFINE held == [n.consumers EXCEPT ![try.track] = c]
               made == n.open \cup {c}
    <2>0. /\ held \in [Tracks -> Consumers \cup {Absent}] /\ made \in SUBSET Consumers
          /\ k = [n EXCEPT !.consumers = held, !.open = made]
      BY <1>1 DEF Connections
    <2> HIDE DEF k, held, made
    <2>1. k \in Connections /\ SamePath(n, k) /\ k.asks = n.asks
      BY <1>1, <2>0 DEF Connections, SamePath
    <2>2. e \in Requested /\ IsAttempt(e) /\ Formed(e)
      BY DEF Requested, Ids, IsAttempt, Formed, Directions
    <2> DEFINE j == Ask(k, "resume", try, c)
    <2>3. j = [k EXCEPT !.asks = Append(@, e)]
      BY DEF Ask
    <2> HIDE DEF j, e
    <2>4. Append(k.asks, e) \in Seq(Requested)
      BY <2>1, <2>2, AsksAreSeq, RangeOfAppend
    <2>5. j \in Connections /\ SamePath(k, j) /\ j.asks = Append(k.asks, e)
      BY <2>1, <2>3, <2>4 DEF Connections, SamePath
    <2>6. Quiet(m, j)
      <3>1. SamePath(m, j) /\ j.asks = Append(m.asks, e)
        BY <1>1, <2>1, <2>5 DEF SamePath
      <3> QED
        BY <3>1, <2>2, <2>5, AskingIsQuiet
    <2>7. ConsumerMade(m, try, c) = j
      BY <1>4 DEF ConsumerMade, j, k, n
    <2> QED
      BY <2>6, <2>7
  <1> QED
    BY <1>3, <1>4

LEMMA ConsumerResumedIsQuiet ==
    ASSUME NEW m \in Connections, NEW try, NEW c
    PROVE  Quiet(m, ConsumerResumed(m, try, c))
  <1> DEFINE n == [m EXCEPT !.shown = @ \cup {c}]
  <1>1. CASE c \in m.open
    <2> DEFINE more == m.shown \cup {c}
    <2>0. more \in SUBSET Consumers /\ n = [m EXCEPT !.shown = more]
      BY <1>1 DEF Connections
    <2> HIDE DEF more, n
    <2>1. n \in Connections /\ SamePath(m, n) /\ n.asks = m.asks
      BY <2>0 DEF Connections, SamePath
    <2>2. Quiet(m, n)
      BY <2>1, SilentIsQuiet
    <2>3. Quiet(n, ConsumeEnded(n, try))
      BY <2>1, ConsumeEndedIsQuiet
    <2>4. ConsumerResumed(m, try, c) = ConsumeEnded(n, try)
      BY <1>1 DEF ConsumerResumed, n
    <2> QED
      BY <2>2, <2>3, <2>4, QuietAgain
  <1>2. CASE c \notin m.open
    BY <1>2, ConsumeEndedIsQuiet DEF ConsumerResumed
  <1> QED
    BY <1>1, <1>2

LEMMA SnapshotIsQuiet ==
    ASSUME NEW m \in Connections, srv \in Servers
    PROVE  Quiet(m, ApplySnapshot(m)) /\ ApplySnapshot(m).asks = m.asks
  <1> DEFINE n == DropThose(m, Tracks \ srv.onAir)
  <1>1. n \in Connections /\ SamePath(m, n) /\ n.asks = m.asks
    BY DropThoseTyped
  <1>2. ApplySnapshot(m) = [n EXCEPT !.announced = srv.onAir]
    BY DEF ApplySnapshot
  <1>3. srv.onAir \in SUBSET Tracks
    BY DEF Servers
  <1> DEFINE k == [n EXCEPT !.announced = srv.onAir]
  <1> HIDE DEF n
  <1>4. k \in Connections /\ SamePath(m, k) /\ k.asks = m.asks
    BY <1>1, <1>3 DEF Connections, SamePath
  <1>5. Quiet(m, k)
    BY <1>4, SilentIsQuiet
  <1> QED
    BY <1>2, <1>4, <1>5

-----------------------------------------------------------------------------
(* MediaSubscribing: requests that fail.                                      *)

LostOf(es, kinds) == {e \in es : e.what \in kinds}

\* What the failure of subscriptions takes back.
Withdrawn(m, es) ==
    LET dropped == {t \in Tracks :
                      \E e \in LostOf(es, {"resume"}) : e.try.track = t /\ m.consumers[t] = e.id}
    IN  ConsumeFailed(DropThose(m, dropped), {e.try : e \in LostOf(es, {"consume", "resume"})})

\* The paths of now whose renegotiation failed.
RenegotiatedBy(m, es) == {d \in Directions : \E e \in es : e.what = d /\ e.id = m.recv}

Redone(m, es) == IceRenegotiated(Withdrawn(m, es), RenegotiatedBy(m, es), m.recv)

LEMMA AsksFailedIs ==
    ASSUME NEW m \in Connections, NEW es
    PROVE  AsksFailed(m, es) =
               IF LostOf(es, {"caps", "transport"}) # {} THEN Broken(Redone(m, es)) ELSE Redone(m, es)
  <1> DEFINE those == {e.what : e \in {e \in LostOf(es, Directions) : e.id = m.recv}}
  <1>1. those = RenegotiatedBy(m, es)
    BY DEF RenegotiatedBy, LostOf
  <1>2. Withdrawn(m, es).recv = m.recv
    BY DEF Withdrawn, ConsumeFailed, DropThose, Connections
  <1> QED
    BY <1>1, <1>2 DEF AsksFailed, Redone, Withdrawn, LostOf

Entries(es) == es \subseteq Messages \cup Requested /\ \A e \in es : Formed(e)

LEMMA WithdrawnTyped ==
    ASSUME NEW m \in Connections, NEW es, Entries(es)
    PROVE  /\ Withdrawn(m, es) \in Connections
           /\ SamePath(m, Withdrawn(m, es)) /\ Withdrawn(m, es).asks = m.asks
  <1> DEFINE dropped == {t \in Tracks :
                      \E e \in LostOf(es, {"resume"}) : e.try.track = t /\ m.consumers[t] = e.id}
             tries == {e.try : e \in LostOf(es, {"consume", "resume"})}
             n == DropThose(m, dropped)
  <1>1. tries \in SUBSET Tries
    BY DEF Entries, LostOf, Formed
  <1>2. Withdrawn(m, es) = ConsumeFailed(n, tries)
    BY DEF Withdrawn
  <1> HIDE DEF tries
  <1>3. n \in Connections /\ SamePath(m, n) /\ n.asks = m.asks
    <2> HIDE DEF dropped
    <2> QED
      BY DropThoseTyped
  <1> HIDE DEF n
  <1>4. /\ ConsumeFailed(n, tries) \in Connections
        /\ SamePath(n, ConsumeFailed(n, tries)) /\ ConsumeFailed(n, tries).asks = n.asks
    BY <1>1, <1>3, ConsumeFailedTyped
  <1> QED
    BY <1>2, <1>3, <1>4 DEF SamePath

LEMMA WithdrawnIsQuiet ==
    ASSUME NEW m \in Connections, NEW es, Entries(es)
    PROVE  Quiet(m, Withdrawn(m, es))
  BY WithdrawnTyped, SilentIsQuiet

LEMMA RecoveringIs ==
    ASSUME NEW i \in Paths
    PROVE  /\ Recovering(i) \in Paths
           /\ Recovering(i).state = i.state /\ Recovering(i).loss = i.loss
           /\ Recovering(i).handle = "recovery"
  BY DEF Recovering, Paths

\* The same but for the paths: what they were, some of them renegotiated.
Rerouted(m, n) ==
    /\ n \in Connections
    /\ n.alive = m.alive /\ n.channel = m.channel /\ n.sid = m.sid /\ n.recv = m.recv
    /\ n.ever = m.ever /\ n.asks = m.asks /\ n.was = m.was /\ n.resting = m.resting

Renegotiated(m, n, ds) ==
    /\ \A d \in Directions : /\ n.ice[d].state = m.ice[d].state /\ n.ice[d].loss = m.ice[d].loss
                             /\ IF d \in ds THEN n.ice[d].handle = "recovery" ELSE n.ice[d] = m.ice[d]
    /\ ds = {} => n.ice = m.ice

LEMMA RenegotiatedTyped ==
    ASSUME NEW m \in Connections, NEW ds, NEW t
    PROVE  LET n == IceRenegotiated(m, ds, t) IN
           /\ n \in Connections
           /\ Rerouted(m, n) /\ n.state = m.state /\ n.first = m.first
           /\ m.recv # t => n = m
           /\ m.recv = t => Renegotiated(m, n, ds)
  <1>1. CASE m.recv # t
    BY <1>1 DEF IceRenegotiated, Rerouted
  <1>2. CASE m.recv = t
    <2> DEFINE paths == [d \in Directions |-> IF d \in ds THEN Recovering(m.ice[d]) ELSE m.ice[d]]
               n == [m EXCEPT !.ice = paths]
    <2>0. m.ice \in [Directions -> Paths]
      BY DEF Connections
    <2>1. paths \in [Directions -> Paths]
      BY <2>0, RecoveringIs
    <2>2. /\ \A d \in Directions : paths[d] = IF d \in ds THEN Recovering(m.ice[d]) ELSE m.ice[d]
          /\ ds = {} => paths = m.ice
      BY <2>0
    <2> HIDE DEF paths
    <2>3. n \in Connections /\ Rerouted(m, n) /\ n.state = m.state /\ n.first = m.first /\ n.ice = paths
      BY <2>1 DEF Connections, Rerouted
    <2>4. Renegotiated(m, n, ds)
      BY <2>0, <2>2, <2>3, RecoveringIs DEF Renegotiated
    <2> QED
      BY <1>2, <2>3, <2>4 DEF IceRenegotiated, paths
  <1> QED
    BY <1>1, <1>2

LEMMA BrokenTyped ==
    ASSUME NEW m \in Connections
    PROVE  /\ Broken(m) \in Connections
           /\ Rerouted(m, Broken(m)) /\ Broken(m).ice = m.ice
           /\ Broken(m).first => m.first
           /\ Broken(m).state = m.state \/ (Broken(m).state = "failed" /\ m.first)
  BY ZenonT(60) DEF Broken, Connections, Rerouted

\* What a failure of requests leaves of the channel, the session and the path.
Failed(m, k, es) ==
    /\ Rerouted(m, k)
    /\ Renegotiated(m, k, RenegotiatedBy(m, es))
    /\ k.first => m.first
    /\ k.state = m.state \/ (k.state = "failed" /\ m.first)

LEMMA RedoneTyped ==
    ASSUME NEW m \in Connections, NEW es, Entries(es)
    PROVE  /\ Redone(m, es) \in Connections
           /\ Failed(m, Redone(m, es), es) /\ Redone(m, es).state = m.state
           /\ Redone(m, es).first = m.first
  <1> DEFINE n == Withdrawn(m, es)
  <1>1. n \in Connections /\ SamePath(m, n) /\ n.asks = m.asks
    BY WithdrawnTyped
  <1> HIDE DEF n
  <1>2. n.recv = m.recv /\ Redone(m, es) = IceRenegotiated(n, RenegotiatedBy(m, es), m.recv)
    BY <1>1 DEF Redone, SamePath, n
  <1> DEFINE k == Redone(m, es)
  <1>3. k \in Connections /\ Rerouted(n, k) /\ k.state = n.state /\ k.first = n.first
        /\ Renegotiated(n, k, RenegotiatedBy(m, es))
    BY <1>1, <1>2, RenegotiatedTyped
  <1> HIDE DEF k
  <1>4. Rerouted(m, k) /\ Renegotiated(m, k, RenegotiatedBy(m, es)) /\ k.state = m.state /\ k.first = m.first
    BY <1>1, <1>3 DEF SamePath, Rerouted, Renegotiated
  <1> QED
    BY <1>3, <1>4 DEF Failed, k

LEMMA AsksFailedTyped ==
    ASSUME NEW m \in Connections, NEW es, Entries(es)
    PROVE  Failed(m, AsksFailed(m, es), es)
  <1> DEFINE n == Redone(m, es)
  <1>1. n \in Connections /\ Failed(m, n, es) /\ n.state = m.state /\ n.first = m.first
    BY RedoneTyped
  <1>2. AsksFailed(m, es) = IF LostOf(es, {"caps", "transport"}) # {} THEN Broken(n) ELSE n
    BY AsksFailedIs
  <1> HIDE DEF n
  <1>3. Failed(m, Broken(n), es)
    BY <1>1, BrokenTyped DEF Failed, Rerouted, Renegotiated
  <1> QED
    BY <1>1, <1>2, <1>3

LEMMA NothingRenegotiated ==
    ASSUME NEW m, NEW es, Entries(es), m.recv = Absent
    PROVE  RenegotiatedBy(m, es) = {}
  BY SubscribingAssumption DEF RenegotiatedBy, Entries, Formed

LEMMA FineAgain ==
    ASSUME NEW i, NEW j, i.state = j.state, i.loss = j.loss
    PROVE  Fine(i) <=> Fine(j)
  BY DEF Fine

LEMMA FailedIsSteady ==
    ASSUME NEW m, NEW k, NEW l, NEW es, Entries(es), Steady(m, l), Failed(m, k, es)
    PROVE  Steady(k, l)
  <1>1. WellFormed(k, l) /\ ChannelSound(k, l) /\ OneSession(k, l) /\ k \in Connections
    BY DEF Steady, Framed, WellFormed, ChannelSound, OneSession, Failed, Rerouted
  <1>2. /\ \A d \in Directions : k.ice[d].state = m.ice[d].state /\ k.ice[d].loss = m.ice[d].loss
        /\ AllFine(k) <=> AllFine(m)
        /\ Settled(k) <=> Settled(m)
    BY FineAgain DEF Failed, Renegotiated, AllFine, Settled, Rerouted
  <1>3. PathSound(k)
    BY <1>2, NothingRenegotiated DEF Steady, Framed, PathSound, Failed, Rerouted, Renegotiated
  <1>4. StateSound(k)
    BY <1>2 DEF Steady, Framed, StateSound, StateKept, Failed, Rerouted
  <1> QED
    BY <1>1, <1>3, <1>4 DEF Steady, Framed

LEMMA FailedKeeps ==
    ASSUME NEW m, NEW k, NEW l, NEW g, NEW es, Entries(es), Steady(m, g), Failed(m, k, es),
           LostIsOnItsWay(m, l),
           \A e \in Range(l) : e.what \in Directions => e \in Range(g) \cup es
    PROVE  PathInv(k, g)
  <1>1. Steady(k, g)
    BY FailedIsSteady
  <1>2. LostIsOnItsWay(k, g)
    <2> SUFFICES ASSUME NEW d \in Directions, k.recv # Absent, k.ice[d].loss = "late",
                        k.ice[d].handle = "none", k.ice[d].strays = {},
                        ~(k.channel = "reconnecting" /\ ~k.sid)
                 PROVE  RenegotiationOf(k, g, d)
      BY DEF LostIsOnItsWay
    <2>1. d \notin RenegotiatedBy(m, es) /\ k.ice[d] = m.ice[d]
      BY DEF Failed, Renegotiated
    <2>2. RenegotiationOf(m, l, d)
      BY <2>1 DEF LostIsOnItsWay, Failed, Rerouted
    <2> QED
      BY <2>1, <2>2 DEF RenegotiationOf, RenegotiatedBy, Failed, Rerouted
  <1> QED
    BY <1>1, <1>2 DEF PathInv

-----------------------------------------------------------------------------
(* MediaSubscribing: what the methods of the path and of the session do.      *)

LEMMA RecoveredIs ==
    ASSUME NEW m \in Connections
    PROVE  LET n == Recovered(m) IN
           /\ Rerouted(m, n) /\ n.ice = m.ice /\ n.first = m.first
           /\ IF m.alive /\ m.channel = "ready" /\ Healthy(m) THEN n.state = "connected"
              ELSE n.state = m.state
  <1> DEFINE n == [m EXCEPT !.state = "connected"]
  <1>1. n \in Connections
    BY DEF Connections
  <1>2. Rerouted(m, n) /\ n.ice = m.ice /\ n.first = m.first /\ n.state = "connected"
    BY <1>1 DEF Connections, Rerouted
  <1>3. Rerouted(m, m)
    BY DEF Rerouted
  <1>4. Recovered(m) = IF m.alive /\ m.channel = "ready" /\ Healthy(m) THEN n ELSE m
    BY DEF Recovered
  <1> HIDE DEF n
  <1> QED
    BY <1>2, <1>3, <1>4

LEMMA FineIsHealthy ==
    ASSUME NEW m, AllFine(m), m.recv # Absent
    PROVE  Healthy(m)
  BY DEF AllFine, Fine, Healthy

\* What a page shows that looked whether all is well.
LEMMA RecoveredIsSound ==
    ASSUME NEW m \in Connections, NEW l, ChannelSound(m, l),
           m.first => ~m.was, m.recv # Absent => m.was,
           StateKept(m) \/ (m.alive /\ m.channel = "ready" /\ Healthy(m))
    PROVE  StateSound(Recovered(m)) /\ Onward(m, Recovered(m))
  <1> DEFINE n == Recovered(m)
  <1>1. /\ Rerouted(m, n) /\ n.ice = m.ice /\ n.first = m.first
        /\ IF m.alive /\ m.channel = "ready" /\ Healthy(m) THEN n.state = "connected"
           ELSE n.state = m.state
    BY RecoveredIs
  <1> HIDE DEF n
  <1>2. Onward(m, n)
    <2>1. <<>> \in Seq(Requested) /\ Range(<<>>) = {}
      BY EmptyRange
    <2>2. n.asks = m.asks \o <<>>
      BY <1>1, AsksAreSeq DEF Rerouted
    <2> QED
      BY <1>1, <2>1, <2>2 DEF Onward, Rerouted
  <1>3. CASE m.alive /\ m.channel = "ready" /\ Healthy(m)
    <2>1. /\ n.alive = m.alive /\ n.channel = m.channel /\ n.recv = m.recv /\ n.was = m.was
          /\ n.ice = m.ice /\ n.first = m.first /\ n.state = "connected"
      BY <1>1, <1>3 DEF Rerouted
    <2>2. m.recv # Absent /\ \A d \in Directions : m.ice[d].state # "lost"
      BY <1>3 DEF Healthy
    <2> QED
      <3>1. n.state \in {"connected", "reconnecting", "blocked"} /\ n.state # "reconnecting"
        BY <2>1
      <3>2. StateKept(n)
        BY <1>3, <2>1, <2>2, <3>1, Zenon DEF StateKept
      <3> QED
        BY <1>2, <3>1, <3>2, Zenon DEF StateSound, n
  <1>4. CASE ~(m.alive /\ m.channel = "ready" /\ Healthy(m))
    <2>1. StateKept(n)
      BY <1>1, <1>4 DEF StateKept, Rerouted
    <2>2. ~(n.channel = "ready" /\ n.recv # Absent /\ AllFine(n))
      <3>1. n.channel = m.channel /\ n.recv = m.recv /\ (AllFine(n) <=> AllFine(m))
        BY <1>1 DEF Rerouted, AllFine
      <3>2. m.channel = "ready" => m.alive
        BY DEF ChannelSound
      <3> QED
        BY <1>4, <3>1, <3>2, FineIsHealthy, Zenon
    <2> QED
      BY <1>2, <2>1, <2>2, Zenon DEF StateSound, n
  <1> QED
    BY <1>3, <1>4

LEMMA RestingIs ==
    ASSUME NEW m \in Connections, NEW kind \in Rests, NEW q \in Nat
    PROVE  LET n == [m EXCEPT !.resting[kind] = q] IN
           /\ n \in Connections
           /\ n.alive = m.alive /\ n.channel = m.channel /\ n.sid = m.sid /\ n.recv = m.recv
           /\ n.ever = m.ever /\ n.ice = m.ice /\ n.first = m.first /\ n.was = m.was
           /\ n.state = m.state /\ n.asks = m.asks
           /\ n.resting = [m.resting EXCEPT ![kind] = q]
  <1> DEFINE rests == [m.resting EXCEPT ![kind] = q]
             n == [m EXCEPT !.resting = rests]
  <1>1. rests \in [Rests -> Nat]
    BY DEF Connections
  <1> HIDE DEF rests
  <1>2. n \in Connections
    BY <1>1 DEF Connections
  <1>3. /\ n.alive = m.alive /\ n.channel = m.channel /\ n.sid = m.sid /\ n.recv = m.recv
        /\ n.ever = m.ever /\ n.ice = m.ice /\ n.first = m.first /\ n.was = m.was
        /\ n.state = m.state /\ n.asks = m.asks
        /\ n.resting = rests
    BY DEF Connections
  <1>4. [m EXCEPT !.resting[kind] = q] = n
    BY DEF rests
  <1> HIDE DEF n
  <1> QED
    BY <1>2, <1>3, <1>4 DEF rests

LEMMA RestedIs ==
    ASSUME NEW m \in Connections, NEW l, ChannelSound(m, l), NEW consumes \in BOOLEAN,
           m.first => ~m.was, m.recv # Absent => m.was,
           StateKept(m) \/ (m.alive /\ m.channel = "ready" /\ Healthy(m))
    PROVE  StateSound(Rested(m, consumes)) /\ Onward(m, Rested(m, consumes))
  <1> DEFINE k == IF consumes THEN ConsumeMissing(m) ELSE m
  <1>1. Quiet(m, k)
    BY ConsumeMissingIsQuiet, SilentIsQuiet DEF SamePath
  <1> HIDE DEF k
  <1>2. /\ k \in Connections /\ ChannelSound(k, l)
        /\ k.first => ~k.was
        /\ k.recv # Absent => k.was
        /\ StateKept(k) \/ (k.alive /\ k.channel = "ready" /\ Healthy(k))
    <2>1. k \in Connections /\ SamePath(m, k)
      BY <1>1 DEF Quiet
    <2>2. ChannelSound(k, l)
      <3>1. PICK s \in Seq(Requested) :
                k.asks = m.asks \o s /\ \A e \in Range(s) : IsAttempt(e) /\ Formed(e)
        BY <1>1 DEF Quiet
      <3>2. Lacks(s, Builds)
        BY <3>1 DEF Lacks, Range, Builds, IsAttempt
      <3>3. Lacks(m.asks, Builds) => Lacks(k.asks, Builds)
        BY <3>1, <3>2, AsksAreSeq, ConcatOfSuch
      <3> QED
        BY <2>1, <3>3 DEF ChannelSound, SamePath
    <2> QED
      BY <2>1, <2>2 DEF SamePath, StateKept, Healthy
  <1>3. StateSound(Recovered(k)) /\ Onward(k, Recovered(k))
    BY <1>2, RecoveredIsSound
  <1>4. Onward(m, Recovered(k))
    BY <1>1, <1>3, QuietIsOnward, OnwardAgain
  <1>5. Rested(m, consumes) = Recovered(k)
    BY DEF Rested, k
  <1> QED
    BY <1>3, <1>4, <1>5

\* handleReconnected comes to where a publication is awaited.
LEMMA RestIs ==
    ASSUME NEW m \in Connections, NEW l, ChannelSound(m, l),
           NEW kind \in Rests, NEW waits \in BOOLEAN, NEW consumes \in BOOLEAN,
           m.first => ~m.was, m.recv # Absent => m.was,
           StateKept(m) \/ (~waits /\ m.alive /\ m.channel = "ready" /\ Healthy(m))
    PROVE  LET n == Rest(m, kind, waits, consumes) IN StateSound(n) /\ Onward(m, n)
  <1>1. CASE ~waits
    BY <1>1, RestedIs DEF Rest
  <1>2. CASE waits
    <2> DEFINE n == [m EXCEPT !.resting[kind] = @ + 1]
    <2>0. m.resting \in [Rests -> Nat] /\ m.resting[kind] + 1 \in Nat
      BY DEF Connections
    <2>1. /\ n \in Connections
          /\ n.alive = m.alive /\ n.channel = m.channel /\ n.sid = m.sid /\ n.recv = m.recv
          /\ n.ever = m.ever /\ n.ice = m.ice /\ n.first = m.first /\ n.was = m.was
          /\ n.state = m.state /\ n.asks = m.asks
          /\ n.resting = [m.resting EXCEPT ![kind] = m.resting[kind] + 1]
      BY <2>0, RestingIs
    <2> HIDE DEF n
    <2>2. n.resting[kind] # 0
      BY <2>0, <2>1
    <2>3. ~Settled(n)
      BY <2>2 DEF Settled
    <2>4. StateSound(n)
      BY <1>2, <2>1, <2>3 DEF StateSound, StateKept
    <2>5. Onward(m, n)
      <3>1. <<>> \in Seq(Requested) /\ Range(<<>>) = {}
        BY EmptyRange
      <3>2. n.asks = m.asks \o <<>>
        BY <2>1, AsksAreSeq
      <3> QED
        BY <2>1, <3>1, <3>2 DEF Onward
    <2> QED
      BY <1>2, <2>4, <2>5 DEF Rest, n
  <1> QED
    BY <1>1, <1>2

LEMMA NewPathsAre ==
    /\ NewPaths \in [Directions -> Paths]
    /\ \A d \in Directions : NewPaths[d] = NewIce
    /\ NewIce.state = "new" /\ NewIce.loss = "none"
  BY DEF NewPaths, NewIce, Paths

LEMMA ReleasedIs ==
    ASSUME NEW m \in Connections
    PROVE  LET n == ReleaseMedia(m) IN
           /\ n \in Connections
           /\ n.alive = m.alive /\ n.state = m.state /\ n.channel = m.channel /\ n.sid = m.sid
           /\ n.asks = m.asks /\ n.ever = m.ever
           /\ n.first = m.first /\ n.was = m.was /\ n.resting = m.resting
           /\ n.recv = Absent /\ n.ice = NewPaths
  <1> DEFINE d == DropThose(m, Tracks)
             n == [d EXCEPT
        !.recv = Absent, !.consuming = {}, !.open = {}, !.ice = NewPaths,
        !.making = IF LateFailures THEN @ ELSE {},
        !.retries = {}, !.gaveUp = {}]
  <1>1. d \in Connections /\ SamePath(m, d) /\ d.asks = m.asks
    BY DropThoseTyped
  <1>2. ReleaseMedia(m) = n
    BY DEF ReleaseMedia
  <1> HIDE DEF d
  <1>3. NewPaths \in [Directions -> Paths]
    BY NewPathsAre
  <1>4. n \in Connections
    BY <1>1, <1>3, ZenonT(60) DEF Connections
  <1>5. /\ n.alive = d.alive /\ n.state = d.state /\ n.channel = d.channel /\ n.sid = d.sid
        /\ n.asks = d.asks /\ n.ever = d.ever
        /\ n.first = d.first /\ n.was = d.was /\ n.resting = d.resting
        /\ n.recv = Absent /\ n.ice = NewPaths
    BY <1>1 DEF Connections
  <1> QED
    BY <1>1, <1>2, <1>4, <1>5 DEF SamePath

CapsRequest == [what |-> "caps", try |-> Absent, id |-> Absent]

LEMMA AskIs ==
    ASSUME NEW m \in Connections, NEW what, NEW try, NEW id,
           [what |-> what, try |-> try, id |-> id] \in Requested
    PROVE  LET n == Ask(m, what, try, id) IN
           /\ n \in Connections /\ SamePath(m, n)
           /\ n.asks = Append(m.asks, [what |-> what, try |-> try, id |-> id])
  <1> DEFINE e == [what |-> what, try |-> try, id |-> id]
             a == Append(m.asks, e)
  <1>1. a \in Seq(Requested)
    BY AsksAreSeq, RangeOfAppend
  <1> HIDE DEF a
  <1>2. [m EXCEPT !.asks = a] \in Connections
    BY <1>1 DEF Connections
  <1>3. Ask(m, what, try, id) = [m EXCEPT !.asks = a]
    BY DEF Ask, a
  <1>4. SamePath(m, [m EXCEPT !.asks = a]) /\ [m EXCEPT !.asks = a].asks = a
    BY DEF SamePath, Connections
  <1> QED
    BY <1>2, <1>3, <1>4 DEF a

LEMMA CapsRequestIs == CapsRequest \in Requested /\ CapsRequest \in Builds /\ Formed(CapsRequest)
  BY DEF CapsRequest, Requested, Builds, Formed, Ids, Directions

LEMMA OutdatedIs ==
    ASSUME NEW rests \in [Rests -> Nat]
    PROVE  /\ Outdated(rests) \in [Rests -> Nat]
           /\ Outdated(rests)["reconcile"] = 0
           /\ (\A r \in Rests : Outdated(rests)[r] = 0) => (\A r \in Rests : rests[r] = 0)
  BY DEF Outdated, Rests

LEMMA StartedIs ==
    ASSUME NEW m \in Connections
    PROVE  LET n == StartSession(m) IN
           /\ n \in Connections
           /\ n.alive = m.alive /\ n.state = m.state /\ n.channel = m.channel
           /\ n.recv = m.recv /\ n.ever = m.ever /\ n.ice = m.ice
           /\ n.first = m.first /\ n.was = m.was
           /\ n.sid = TRUE
           /\ n.resting = Outdated(m.resting)
           /\ n.asks = Append(m.asks, CapsRequest)
  <1> DEFINE rests == Outdated(m.resting)
             k == [m EXCEPT !.sid = TRUE, !.build = TRUE, !.resting = rests]
  <1>0. rests \in [Rests -> Nat]
    BY OutdatedIs DEF Connections
  <1>1. StartSession(m) = Ask(k, "caps", Absent, Absent)
    BY DEF StartSession, Connections
  <1> HIDE DEF rests
  <1>2. k \in Connections
    BY <1>0 DEF Connections
  <1>3. /\ k.alive = m.alive /\ k.state = m.state /\ k.channel = m.channel
        /\ k.recv = m.recv /\ k.ever = m.ever /\ k.ice = m.ice /\ k.sid = TRUE /\ k.asks = m.asks
        /\ k.first = m.first /\ k.was = m.was /\ k.resting = rests
    BY DEF Connections
  <1> HIDE DEF k
  <1> QED
    BY <1>1, <1>2, <1>3, AskIs, CapsRequestIs DEF SamePath, CapsRequest, rests

LEMMA SteadyTail ==
    ASSUME NEW m, NEW l, Steady(m, l), l # <<>>
    PROVE  /\ Steady(m, Tail(l))
           /\ Head(l) \in Messages /\ Formed(Head(l)) /\ AnswerFormed(Head(l))
           /\ m.channel = "ready" /\ m.alive
           /\ Head(l) \in Builds => m.recv = Absent /\ Lacks(Tail(l), Builds) /\ Lacks(m.asks, Builds)
           /\ Range(l) = {Head(l)} \cup Range(Tail(l))
  <1>1. l \in Seq(Messages)
    BY DEF Steady, Framed
  <1>2. /\ Head(l) \in Range(l) /\ Head(l) \in Messages /\ Tail(l) \in Seq(Messages)
        /\ Range(l) = {Head(l)} \cup Range(Tail(l))
    BY <1>1, RangeOfTail
  <1>3. /\ Once(l, Builds) => Once(Tail(l), Builds) /\ (Head(l) \in Builds => Lacks(Tail(l), Builds))
        /\ Lacks(l, Builds) => Lacks(Tail(l), Builds) /\ Head(l) \notin Builds
    BY <1>1, TailOfSuch
  <1>4. m.channel = "ready" /\ m.alive
    BY DEF Steady, Framed, ChannelSound
  <1>5. WellFormed(m, Tail(l)) /\ Formed(Head(l)) /\ AnswerFormed(Head(l))
    BY <1>2 DEF Steady, Framed, WellFormed
  <1>6. ChannelSound(m, Tail(l)) /\ OneSession(m, Tail(l))
    BY <1>3, <1>4 DEF Steady, Framed, ChannelSound, OneSession
  <1>7. Head(l) \in Builds => m.recv = Absent /\ Lacks(Tail(l), Builds) /\ Lacks(m.asks, Builds)
    BY <1>3 DEF Steady, Framed, OneSession
  <1> QED
    BY <1>2, <1>4, <1>5, <1>6, <1>7 DEF Steady, Framed

\* A message is taken that no path waits for.
LEMMA TakenKeeps ==
    ASSUME NEW m, NEW l, PathInv(m, l), l # <<>>, Head(l).what \notin Directions
    PROVE  PathInv(m, Tail(l))
  <1>1. Steady(m, Tail(l)) /\ Range(l) = {Head(l)} \cup Range(Tail(l))
    BY SteadyTail DEF PathInv
  <1> QED
    BY <1>1 DEF PathInv, LostIsOnItsWay, RenegotiationOf

LEMMA ToldKeeps ==
    ASSUME NEW m, NEW l, PathInv(m, l), NEW e \in Messages, Formed(e),
           e.what \in {"announced", "closed", "gone"}, m.channel = "ready"
    PROVE  PathInv(m, Append(l, e))
  <1>1. l \in Seq(Messages) /\ Append(l, e) \in Seq(Messages) /\ Range(Append(l, e)) = Range(l) \cup {e}
    BY RangeOfAppend DEF PathInv, Steady, Framed
  <1>2. e \notin Builds /\ AnswerFormed(e)
    BY DEF Builds, AnswerFormed
  <1>3. /\ Lacks(l, Builds) => Lacks(Append(l, e), Builds)
        /\ Once(l, Builds) => Once(Append(l, e), Builds)
    BY <1>1, <1>2, AppendOfSuch
  <1>4. WellFormed(m, Append(l, e))
    BY <1>1, <1>2 DEF PathInv, Steady, Framed, WellFormed
  <1>5. ChannelSound(m, Append(l, e)) /\ OneSession(m, Append(l, e))
    BY <1>3 DEF PathInv, Steady, Framed, ChannelSound, OneSession
  <1>6. LostIsOnItsWay(m, Append(l, e))
    BY <1>1 DEF PathInv, LostIsOnItsWay, RenegotiationOf
  <1> QED
    BY <1>1, <1>4, <1>5, <1>6 DEF PathInv, Steady, Framed

\* The server takes the first request, and answers with e.
LEMMA ServedKeeps ==
    ASSUME NEW m, NEW n, NEW l, PathInv(m, l), m.channel = "ready", m.asks # <<>>,
           n = [m EXCEPT !.asks = Tail(@)],
           NEW e \in Messages, Formed(e), AnswerFormed(e),
           e.what = Head(m.asks).what, e.what \in Directions => e.id = Head(m.asks).id
    PROVE  PathInv(n, Append(l, e))
  <1> DEFINE t == Tail(m.asks)
             g == Append(l, e)
             h == Head(m.asks)
  <1>0. m \in Connections /\ l \in Seq(Messages) /\ m.asks \in Seq(Requested)
    BY AsksAreSeq DEF PathInv, Steady, Framed
  <1>1. g \in Seq(Messages) /\ Range(g) = Range(l) \cup {e}
    BY <1>0, RangeOfAppend
  <1>2. h \in Requested /\ t \in Seq(Requested) /\ Range(m.asks) = {h} \cup Range(t)
    BY <1>0, RangeOfTail
  <1>3. e \in Builds <=> h \in Builds
    BY <1>2 DEF Builds
  <1>4. /\ Once(m.asks, Builds) => Once(t, Builds) /\ (h \in Builds => Lacks(t, Builds))
        /\ Lacks(m.asks, Builds) => Lacks(t, Builds) /\ h \notin Builds
    BY <1>0, TailOfSuch
  <1>5. /\ Once(l, Builds) /\ (e \notin Builds \/ Lacks(l, Builds)) => Once(g, Builds)
        /\ Lacks(l, Builds) /\ e \notin Builds => Lacks(g, Builds)
    BY <1>0, AppendOfSuch
  <1> HIDE DEF t, g
  <1>6. n \in Connections /\ SamePath(m, n) /\ n.asks = t
    BY <1>0, <1>2 DEF Connections, SamePath, t
  <1>7. WellFormed(n, g)
    BY <1>1, <1>2, <1>6 DEF PathInv, Steady, Framed, WellFormed
  <1>8. ChannelSound(n, g)
    BY <1>6 DEF PathInv, Steady, Framed, ChannelSound, SamePath
  <1>9. OneSession(n, g)
    BY <1>3, <1>4, <1>5, <1>6 DEF PathInv, Steady, Framed, OneSession, SamePath
  <1>10. PathSound(n) /\ StateSound(n)
    BY <1>6 DEF PathInv, Steady, Framed, PathSound, StateSound, StateKept, Settled, AllFine, SamePath
  <1>11. LostIsOnItsWay(n, g)
    <2> SUFFICES ASSUME NEW d \in Directions, n.recv # Absent, n.ice[d].loss = "late",
                        n.ice[d].handle = "none", n.ice[d].strays = {},
                        ~(n.channel = "reconnecting" /\ ~n.sid)
                 PROVE  RenegotiationOf(n, g, d)
      BY DEF LostIsOnItsWay
    <2>1. RenegotiationOf(m, l, d)
      BY <1>6 DEF PathInv, LostIsOnItsWay, SamePath
    <2>2. PICK r \in Range(l) \cup Range(m.asks) : r.what = d /\ r.id = m.recv
      BY <2>1 DEF RenegotiationOf
    <2>3. CASE r = h
      BY <1>1, <1>6, <2>2, <2>3 DEF RenegotiationOf, SamePath, h
    <2>4. CASE r # h
      BY <1>1, <1>2, <1>6, <2>2, <2>4 DEF RenegotiationOf, SamePath
    <2> QED
      BY <2>3, <2>4
  <1> QED
    BY <1>1, <1>6, <1>7, <1>8, <1>9, <1>10, <1>11 DEF PathInv, Steady, Framed, g

-----------------------------------------------------------------------------
(* MediaSubscribing: the channel falls.                                       *)

\* The fields while handleDown fails the requests.
FallingOf(m) == [m EXCEPT !.channel = "reconnecting", !.state = "reconnecting", !.asks = <<>>]

InFlight(m) == {e \in Range(line) : IsAnswer(e)} \cup Range(m.asks)

LEMMA EmptySeqs ==
    /\ <<>> \in Seq(Requested) /\ <<>> \in Seq(Messages)
    /\ Range(<<>>) = {} /\ Lacks(<<>>, Builds) /\ Once(<<>>, Builds)
  BY EmptyRange, EmptyLacks, LacksMeansOnce

LEMMA FallingIs ==
    ASSUME NEW m \in Connections
    PROVE  LET n == FallingOf(m) IN
           /\ n \in Connections
           /\ n.alive = m.alive /\ n.state = "reconnecting" /\ n.channel = "reconnecting"
           /\ n.sid = m.sid /\ n.asks = <<>>
           /\ n.recv = m.recv /\ n.ever = m.ever /\ n.ice = m.ice
           /\ n.first = m.first /\ n.was = m.was /\ n.resting = m.resting
  <1> DEFINE none == <<>>
  <1>1. none \in Seq(Requested)
    BY EmptySeqs
  <1> HIDE DEF none
  <1>2. [m EXCEPT !.channel = "reconnecting", !.state = "reconnecting", !.asks = none] \in Connections
    BY <1>1 DEF Connections
  <1> QED
    BY <1>2 DEF FallingOf, Connections, none

LEMMA FallingIsSteady ==
    ASSUME NEW m, NEW l, Steady(m, l), m.channel = "ready"
    PROVE  Steady(FallingOf(m), <<>>)
  <1> DEFINE n == FallingOf(m)
             none == <<>>
  <1>0. m \in Connections
    BY DEF Steady, Framed
  <1>1. /\ n \in Connections
        /\ n.alive = m.alive /\ n.state = "reconnecting" /\ n.channel = "reconnecting"
        /\ n.sid = m.sid /\ n.asks = none
        /\ n.recv = m.recv /\ n.ever = m.ever /\ n.ice = m.ice
        /\ n.first = m.first /\ n.was = m.was
    BY <1>0, FallingIs
  <1>2. /\ none \in Seq(Messages) /\ Range(none) = {} /\ Lacks(none, Builds) /\ Once(none, Builds)
    BY EmptySeqs
  <1> HIDE DEF n
  <1>3. ChannelSound(n, none)
    <2>1. m.alive
      BY DEF Steady, Framed, ChannelSound
    <2> QED
      BY <1>1, <1>2, <2>1 DEF ChannelSound, none
  <1> HIDE DEF none
  <1>4. WellFormed(n, none) /\ OneSession(n, none)
    BY <1>1, <1>2 DEF WellFormed, OneSession
  <1>5. PathSound(n) /\ StateSound(n)
    BY <1>1 DEF Steady, Framed, PathSound, StateSound, StateKept
  <1> QED
    BY <1>1, <1>2, <1>3, <1>4, <1>5 DEF Steady, Framed, n, none

LEMMA InFlightAreEntries ==
    ASSUME NEW m, Steady(m, line)
    PROVE  Entries(InFlight(m))
  <1>1. Range(line) \subseteq Messages /\ Range(m.asks) \subseteq Requested
    BY DEF Steady, Framed, Connections, Range
  <1> QED
    BY <1>1 DEF Steady, Framed, WellFormed, Entries, InFlight

LEMMA FallenIs ==
    ASSUME NEW m, Steady(m, line), m.channel = "ready"
    PROVE  /\ Failed(FallingOf(m), Fallen(m), InFlight(m))
           /\ Steady(Fallen(m), <<>>)
           /\ LostIsOnItsWay(m, line) => PathInv(Fallen(m), <<>>)
  <1> DEFINE n == FallingOf(m)
             es == InFlight(m)
             none == <<>>
  <1>0. m \in Connections
    BY DEF Steady, Framed
  <1>1. n \in Connections /\ n.recv = m.recv /\ n.ever = m.ever /\ n.ice = m.ice
        /\ n.channel = "reconnecting" /\ n.sid = m.sid
    BY <1>0, FallingIs
  <1>2. Entries(es)
    BY <1>1, InFlightAreEntries
  <1>3. Steady(n, none)
    BY FallingIsSteady
  <1>4. Fallen(m) = AsksFailed(n, es)
    BY DEF Fallen, FallingOf, InFlight
  <1>5. Range(none) = {}
    BY EmptySeqs
  <1>6. \A e \in Range(line) \cup Range(m.asks) : e.what \in Directions => e \in es
    BY DEF InFlight, IsAnswer
  <1> HIDE DEF n, es, none
  <1>7. Failed(n, Fallen(m), es)
    BY <1>1, <1>2, <1>4, AsksFailedTyped
  <1>8. Steady(Fallen(m), none)
    BY <1>2, <1>3, <1>7, FailedIsSteady
  <1> DEFINE k == Fallen(m)
  <1> HIDE DEF k
  <1>9. ASSUME LostIsOnItsWay(m, line) PROVE LostIsOnItsWay(k, none)
    <2> SUFFICES ASSUME NEW d \in Directions, k.recv # Absent, k.ice[d].loss = "late",
                        k.ice[d].handle = "none", k.ice[d].strays = {}
                 PROVE  k.channel = "reconnecting" /\ ~k.sid
      BY DEF LostIsOnItsWay
    <2>1. d \notin RenegotiatedBy(n, es) /\ k.ice[d] = m.ice[d] /\ k.recv = m.recv
      BY <1>1, <1>7 DEF Failed, Renegotiated, Rerouted, k
    <2>2. ~RenegotiationOf(m, line, d)
      BY <1>1, <1>6, <2>1 DEF RenegotiationOf, RenegotiatedBy
    <2> QED
      BY <1>9, <2>1, <2>2, <1>1, <1>7 DEF LostIsOnItsWay, Failed, Rerouted, k
  <1> QED
    BY <1>7, <1>8, <1>9 DEF PathInv, n, es, none, k

LEMMA ForcedIs ==
    ASSUME NEW m, Steady(m, line)
    PROVE  PathInv(ForceRebuild(m), <<>>)
  <1> DEFINE k == IF m.channel = "ready" THEN Fallen(m) ELSE m
             n == [k EXCEPT !.sid = FALSE]
             none == <<>>
  <1>1. ForceRebuild(m) = n
    BY DEF ForceRebuild
  <1>2. Steady(k, none) /\ k.channel # "ready"
    <2>1. CASE m.channel = "ready"
      <3>1. Fallen(m).channel = "reconnecting"
        <4>1. m \in Connections
          BY DEF Steady, Framed
        <4> QED
          BY <2>1, <4>1, FallenIs, FallingIs DEF Failed, Rerouted
      <3> QED
        BY <2>1, <3>1, FallenIs
    <2>2. CASE m.channel # "ready"
      <3>1. line = none
        BY <2>2 DEF Steady, Framed, ChannelSound
      <3> HIDE DEF none
      <3> QED
        BY <2>2, <3>1
    <2> QED
      BY <2>1, <2>2
  <1> HIDE DEF k, none
  <1>3. /\ n \in Connections /\ n.sid = FALSE
        /\ n.alive = k.alive /\ n.state = k.state /\ n.channel = k.channel /\ n.asks = k.asks
        /\ n.recv = k.recv /\ n.ever = k.ever /\ n.ice = k.ice
        /\ n.first = k.first /\ n.was = k.was /\ n.resting = k.resting
    BY <1>2 DEF Steady, Framed, Connections
  <1> HIDE DEF n
  <1>4. Steady(n, none)
    BY <1>2, <1>3
       DEF Steady, Framed, WellFormed, ChannelSound, OneSession, PathSound, StateSound, StateKept, Settled, AllFine
  <1>5. LostIsOnItsWay(n, none)
    BY <1>2, <1>3 DEF LostIsOnItsWay, Steady, Framed, ChannelSound
  <1> QED
    BY <1>1, <1>4, <1>5 DEF PathInv, none

-----------------------------------------------------------------------------
(* MediaSubscribing: every action keeps the path.                             *)

BasicInv == PathInv(conn, line) /\ srv \in Servers

BasicNext == PathInv(conn', line')

LEMMA NewConnectionTyped == NewConnection \in Connections
  <1> DEFINE none == <<>>
  <1>1. none \in Seq(Requested)
    BY EmptySeqs
  <1> HIDE DEF none
  <1>2. /\ [t \in Tracks |-> Absent] \in [Tracks -> Consumers \cup {Absent}]
        /\ [r \in Rests |-> 0] \in [Rests -> Nat]
    OBVIOUS
  <1> QED
    BY <1>1, <1>2, NewPathsAre DEF NewConnection, Connections, none

LEMMA InitIsBasic == SubscribingInit => BasicInv
  <1> SUFFICES ASSUME SubscribingInit PROVE BasicInv
    OBVIOUS
  <1> DEFINE none == <<>>
  <1>1. conn \in Connections /\ line = none
    BY NewConnectionTyped DEF SubscribingInit
  <1>2. /\ conn.alive = TRUE /\ conn.state = "connecting" /\ conn.channel = "opening"
        /\ conn.recv = Absent /\ conn.ever = FALSE /\ conn.ice = NewPaths
        /\ conn.was = FALSE /\ conn.asks = none
    BY DEF SubscribingInit, NewConnection
  <1>3. none \in Seq(Messages) /\ Range(none) = {} /\ Lacks(none, Builds) /\ Once(none, Builds)
    BY EmptySeqs
  <1>4. srv \in Servers
    BY DEF SubscribingInit, NewServer, Silence, Servers
  <1> HIDE DEF none
  <1>5. WellFormed(conn, line) /\ ChannelSound(conn, line) /\ OneSession(conn, line) /\ StateSound(conn)
    BY <1>1, <1>2, <1>3 DEF WellFormed, ChannelSound, OneSession, StateSound, StateKept, none
  <1>6. PathSound(conn) /\ LostIsOnItsWay(conn, line)
    BY <1>2, NewPathsAre DEF PathSound, LostIsOnItsWay
  <1> QED
    BY <1>1, <1>3, <1>4, <1>5, <1>6 DEF BasicInv, PathInv, Steady, Framed

LEMMA BasicIsTyped == BasicInv => conn \in Connections /\ line \in Seq(Messages) /\ srv \in Servers
  BY DEF BasicInv, PathInv, Steady, Framed

LEMMA OpensKeeps == BasicInv /\ ChannelOpens => BasicNext
  <1> SUFFICES ASSUME BasicInv, ChannelOpens PROVE BasicNext
    OBVIOUS
  <1> DEFINE m == [conn EXCEPT !.channel = "ready"]
             u == ApplySnapshot(m)
             n == StartSession(u)
  <1>0. conn \in Connections /\ srv \in Servers /\ Steady(conn, line)
    BY BasicIsTyped DEF BasicInv, PathInv
  <1>1. /\ m \in Connections /\ m.channel = "ready"
        /\ m.alive = conn.alive /\ m.state = conn.state /\ m.sid = conn.sid
        /\ m.recv = conn.recv /\ m.ever = conn.ever /\ m.ice = conn.ice /\ m.asks = conn.asks
        /\ m.first = conn.first /\ m.was = conn.was
    BY <1>0 DEF Connections
  <1> HIDE DEF m
  <1>2. u \in Connections /\ SamePath(m, u) /\ u.asks = m.asks
    BY <1>0, <1>1, SnapshotIsQuiet DEF Quiet
  <1> HIDE DEF u
  <1>3. /\ n \in Connections
        /\ n.alive = u.alive /\ n.state = u.state /\ n.channel = u.channel
        /\ n.recv = u.recv /\ n.ever = u.ever /\ n.ice = u.ice
        /\ n.first = u.first /\ n.was = u.was
        /\ n.asks = Append(u.asks, CapsRequest)
    BY <1>2, StartedIs
  <1> HIDE DEF n
  <1>4. conn' = n /\ line' = line
    BY DEF ChannelOpens, n, u, m
  <1>5. /\ conn.channel = "opening" /\ conn.recv = Absent /\ conn.alive
        /\ Lacks(conn.asks, Builds) /\ Once(conn.asks, Builds)
        /\ Lacks(line, Builds)
    BY <1>0, EmptySeqs, LacksMeansOnce DEF ChannelOpens, Steady, Framed, ChannelSound
  <1>6. Once(n.asks, Builds) /\ Range(n.asks) = Range(conn.asks) \cup {CapsRequest}
    BY <1>0, <1>1, <1>2, <1>3, <1>5, AsksAreSeq, CapsRequestIs, AppendOfSuch, RangeOfAppend
  <1>7. WellFormed(n, line)
    BY <1>0, <1>6, CapsRequestIs DEF Steady, Framed, WellFormed
  <1>8. /\ n.alive = conn.alive /\ n.state = conn.state /\ n.channel = "ready"
        /\ n.recv = Absent /\ n.ice = conn.ice /\ n.first = conn.first /\ n.was = conn.was
    BY <1>1, <1>2, <1>3, <1>5 DEF SamePath
  <1>9. ChannelSound(n, line) /\ OneSession(n, line) /\ PathSound(n)
        /\ LostIsOnItsWay(n, line)
    BY <1>0, <1>5, <1>6, <1>8
       DEF Steady, Framed, ChannelSound, OneSession, PathSound, LostIsOnItsWay
  <1>10. StateSound(n)
    BY <1>0, <1>5, <1>8, Zenon DEF Steady, Framed, StateSound, StateKept
  <1> QED
    BY <1>0, <1>3, <1>4, <1>7, <1>9, <1>10 DEF BasicNext, PathInv, Steady, Framed

LEMMA FallsKeepsPath == BasicInv /\ ChannelFalls => BasicNext
  BY FallenIs DEF BasicInv, BasicNext, PathInv, ChannelFalls, ChannelReady

LEMMA ForgetsKeeps == BasicInv /\ ServerForgets => BasicNext
  <1> SUFFICES ASSUME BasicInv, ServerForgets PROVE BasicNext
    OBVIOUS
  <1> DEFINE n == [conn EXCEPT !.sid = FALSE]
  <1>0. conn \in Connections /\ PathInv(conn, line)
    BY BasicIsTyped DEF BasicInv
  <1>1. /\ n \in Connections /\ n.sid = FALSE
        /\ n.alive = conn.alive /\ n.state = conn.state /\ n.channel = conn.channel
        /\ n.recv = conn.recv /\ n.ever = conn.ever /\ n.ice = conn.ice /\ n.asks = conn.asks
        /\ n.first = conn.first /\ n.was = conn.was /\ n.resting = conn.resting
    BY <1>0 DEF Connections
  <1>2. conn' = n /\ line' = line
    BY DEF ServerForgets
  <1> HIDE DEF n
  <1>3. Steady(n, line)
    BY <1>0, <1>1
       DEF PathInv, Steady, Framed, WellFormed, ChannelSound, OneSession, PathSound, StateSound,
           StateKept, Settled, AllFine
  <1>4. LostIsOnItsWay(n, line)
    BY <1>0, <1>1 DEF PathInv, LostIsOnItsWay, RenegotiationOf
  <1> QED
    BY <1>2, <1>3, <1>4 DEF BasicNext, PathInv

\* The fields when the channel is back, before the requests that waited.
BackOf(m) == [m EXCEPT !.channel = "ready", !.asks = <<>>]

LEMMA BackIs ==
    ASSUME NEW m \in Connections, srv \in Servers
    PROVE  LET u == ApplySnapshot(BackOf(m)) IN
           /\ BackOf(m) \in Connections /\ u \in Connections
           /\ u.channel = "ready" /\ u.asks = <<>>
           /\ u.alive = m.alive /\ u.state = m.state /\ u.sid = m.sid
           /\ u.recv = m.recv /\ u.ever = m.ever /\ u.ice = m.ice
           /\ u.first = m.first /\ u.was = m.was /\ u.resting = m.resting
  <1> DEFINE none == <<>>
             n == [m EXCEPT !.channel = "ready", !.asks = none]
             u == ApplySnapshot(n)
  <1>1. none \in Seq(Requested)
    BY EmptySeqs
  <1> HIDE DEF none
  <1>2. /\ n \in Connections /\ n.channel = "ready" /\ n.asks = none
        /\ n.alive = m.alive /\ n.state = m.state /\ n.sid = m.sid
        /\ n.recv = m.recv /\ n.ever = m.ever /\ n.ice = m.ice
        /\ n.first = m.first /\ n.was = m.was /\ n.resting = m.resting
    BY <1>1 DEF Connections
  <1> HIDE DEF n
  <1>3. u \in Connections /\ SamePath(n, u) /\ u.asks = n.asks
    BY <1>2, SnapshotIsQuiet DEF Quiet
  <1>4. BackOf(m) = n
    BY DEF BackOf, n, none
  <1> QED
    BY <1>2, <1>3, <1>4 DEF SamePath, none

LEMMA DropLostIsQuiet ==
    ASSUME NEW m \in Connections
    PROVE  DropLost(m) \in Connections /\ Quiet(m, DropLost(m))
  <1> DEFINE ts == {t \in Tracks : m.consumers[t] # Absent /\ srv.consumers[m.consumers[t]] = Absent}
  <1>1. DropLost(m) = DropThose(m, ts)
    BY DEF DropLost
  <1> HIDE DEF ts
  <1> QED
    BY <1>1, DropThoseTyped, DropThoseIsQuiet

\* The requests that waited go out behind those that a step made.
LEMMA QueueIs ==
    ASSUME NEW m, NEW l, Framed(m, l), NEW s \in Seq(Requested), Lacks(s, Builds),
           \A e \in Range(s) : Formed(e)
    PROVE  LET n == [m EXCEPT !.asks = @ \o s] IN
           /\ Framed(n, l) /\ n.asks = m.asks \o s
           /\ Range(n.asks) = Range(m.asks) \cup Range(s)
           /\ n.alive = m.alive /\ n.state = m.state /\ n.channel = m.channel /\ n.sid = m.sid
           /\ n.recv = m.recv /\ n.ever = m.ever /\ n.ice = m.ice
           /\ n.first = m.first /\ n.was = m.was /\ n.resting = m.resting
  <1> DEFINE q == m.asks \o s
             n == [m EXCEPT !.asks = q]
  <1>0. m \in Connections /\ m.asks \in Seq(Requested)
    BY AsksAreSeq DEF Framed
  <1>1. /\ q \in Seq(Requested) /\ Range(q) = Range(m.asks) \cup Range(s)
        /\ Lacks(m.asks, Builds) => Lacks(q, Builds)
        /\ Once(m.asks, Builds) => Once(q, Builds)
    BY <1>0, RangeOfConcat, ConcatOfSuch, LacksMeansOnce
  <1> HIDE DEF q
  <1>2. n \in Connections
    BY <1>0, <1>1 DEF Connections
  <1>3. /\ n.asks = q
        /\ n.alive = m.alive /\ n.state = m.state /\ n.channel = m.channel /\ n.sid = m.sid
        /\ n.recv = m.recv /\ n.ever = m.ever /\ n.ice = m.ice
        /\ n.first = m.first /\ n.was = m.was /\ n.resting = m.resting
    BY <1>0 DEF Connections
  <1>4. [m EXCEPT !.asks = @ \o s] = n
    BY DEF q
  <1> HIDE DEF n
  <1>5. WellFormed(n, l)
    BY <1>1, <1>3 DEF Framed, WellFormed
  <1>6. ChannelSound(n, l) /\ OneSession(n, l) /\ PathSound(n)
    BY <1>1, <1>3 DEF Framed, ChannelSound, OneSession, PathSound
  <1>7. Framed(n, l)
    BY <1>2, <1>5, <1>6 DEF Framed
  <1> QED
    BY <1>1, <1>3, <1>4, <1>7 DEF q

LEMMA StateStays ==
    ASSUME NEW m, NEW n, StateSound(m),
           n.alive = m.alive, n.state = m.state, n.channel = m.channel, n.recv = m.recv,
           n.ice = m.ice, n.first = m.first, n.was = m.was, n.resting = m.resting
    PROVE  StateSound(n)
  BY DEF StateSound, StateKept, Settled, AllFine

LEMMA ReturnsKeeps ==
    ASSUME BasicInv, NEW waits \in BOOLEAN, ChannelReturns(waits)
    PROVE  BasicNext
  <1> DEFINE u == ApplySnapshot(BackOf(conn))
             none == <<>>
             intact == conn.sid /\ conn.recv # Absent /\ conn.recv = srv.transport
  <1>0. conn \in Connections /\ srv \in Servers /\ Steady(conn, line) /\ LostIsOnItsWay(conn, line)
    BY BasicIsTyped DEF BasicInv, PathInv
  <1>1. /\ u \in Connections
        /\ u.channel = "ready" /\ u.asks = none
        /\ u.alive = conn.alive /\ u.state = conn.state /\ u.sid = conn.sid
        /\ u.recv = conn.recv /\ u.ever = conn.ever /\ u.ice = conn.ice
        /\ u.first = conn.first /\ u.was = conn.was /\ u.resting = conn.resting
    BY <1>0, BackIs
  <1> HIDE DEF u
  <1>2. /\ conn.channel = "reconnecting" /\ conn.alive /\ line' = line /\ line = none
        /\ Lacks(conn.asks, Builds) /\ Lacks(line, Builds) /\ Once(line, Builds)
        /\ conn.asks \in Seq(Requested) /\ none \in Seq(Requested)
        /\ Range(none) = {} /\ Lacks(none, Builds) /\ Once(none, Builds)
        /\ \A e \in Range(conn.asks) : Formed(e)
    BY <1>0, EmptySeqs, AsksAreSeq
       DEF ChannelReturns, Steady, Framed, ChannelSound, WellFormed
  <1>3. conn.state # "connected"
    BY <1>0, <1>2 DEF Steady, StateSound, StateKept
  <1> HIDE DEF none
  <1>4. CASE intact
    <2> DEFINE r == DropLost(u)
               v == Rest(r, "reconcile", waits, TRUE)
               n == [v EXCEPT !.asks = @ \o conn.asks]
    <2>1. conn' = n
      BY <1>4 DEF ChannelReturns, BackUp, BackOf, u
    <2>2. r \in Connections /\ SamePath(u, r) /\ Quiet(u, r)
      BY <1>1, DropLostIsQuiet DEF Quiet
    <2>3. Framed(u, line)
      BY <1>0, <1>1, <1>2, <1>4, LacksMeansOnce
         DEF Steady, Framed, WellFormed, ChannelSound, OneSession, PathSound
    <2>4. Framed(r, line)
      BY <2>2, <2>3, QuietIsOnward, OnwardKeeps
    <2>5. /\ r.first => ~r.was
          /\ r.recv # Absent => r.was
          /\ StateKept(r)
      <3>1. /\ r.alive = conn.alive /\ r.state = conn.state /\ r.recv = conn.recv
            /\ r.ice = conn.ice /\ r.first = conn.first /\ r.was = conn.was
        BY <1>1, <2>2 DEF SamePath
      <3> QED
        BY <1>0, <1>3, <3>1, Zenon DEF Steady, StateSound, StateKept
    <2> HIDE DEF r
    <2>6. StateSound(v) /\ Onward(r, v)
      <3>1. ChannelSound(r, line)
        BY <2>4 DEF Framed
      <3>2. "reconcile" \in Rests /\ TRUE \in BOOLEAN
        BY DEF Rests
      <3> QED
        BY <2>2, <2>5, <3>1, <3>2, RestIs
    <2> HIDE DEF v
    <2>7. Framed(v, line)
      BY <2>4, <2>6, OnwardKeeps
    <2> DEFINE s == conn.asks
    <2>11. s \in Seq(Requested) /\ Lacks(s, Builds) /\ \A e \in Range(s) : Formed(e)
      BY <1>2
    <2> HIDE DEF s
    <2>12. LET w == [v EXCEPT !.asks = @ \o s] IN
          /\ Framed(w, line) /\ Range(w.asks) = Range(v.asks) \cup Range(s)
          /\ w.alive = v.alive /\ w.state = v.state /\ w.channel = v.channel /\ w.sid = v.sid
          /\ w.recv = v.recv /\ w.ever = v.ever /\ w.ice = v.ice
          /\ w.first = v.first /\ w.was = v.was /\ w.resting = v.resting
      BY <2>7, <2>11, QueueIs
    <2>8. /\ Framed(n, line) /\ Range(n.asks) = Range(v.asks) \cup Range(conn.asks)
          /\ n.alive = v.alive /\ n.state = v.state /\ n.channel = v.channel /\ n.sid = v.sid
          /\ n.recv = v.recv /\ n.ever = v.ever /\ n.ice = v.ice
          /\ n.first = v.first /\ n.was = v.was /\ n.resting = v.resting
      BY <2>12 DEF s
    <2> HIDE DEF n
    <2>9. StateSound(n)
      BY <2>6, <2>8, StateStays
    <2>10. LostIsOnItsWay(n, line)
      <3>1. n.recv = conn.recv /\ n.ice = conn.ice
        BY <1>1, <2>2, <2>6, <2>8 DEF SamePath, Onward
      <3> QED
        BY <1>0, <1>4, <2>8, <3>1 DEF LostIsOnItsWay, RenegotiationOf
    <2> QED
      BY <1>2, <2>1, <2>8, <2>9, <2>10 DEF BasicNext, PathInv, Steady
  <1>5. CASE ~intact
    <2> DEFINE r == ReleaseMedia(u)
               v == StartSession(r)
               n == [v EXCEPT !.asks = @ \o conn.asks]
    <2>1. conn' = n
      BY <1>5 DEF ChannelReturns, BackUp, BackOf, u
    <2>2. /\ r \in Connections
          /\ r.alive = u.alive /\ r.state = u.state /\ r.channel = u.channel
          /\ r.asks = u.asks /\ r.ever = u.ever
          /\ r.first = u.first /\ r.was = u.was
          /\ r.recv = Absent /\ r.ice = NewPaths
      BY <1>1, ReleasedIs
    <2> HIDE DEF r
    <2>3. /\ v \in Connections
          /\ v.alive = r.alive /\ v.state = r.state /\ v.channel = r.channel
          /\ v.recv = r.recv /\ v.ever = r.ever /\ v.ice = r.ice
          /\ v.first = r.first /\ v.was = r.was
          /\ v.asks = Append(r.asks, CapsRequest)
      BY <2>2, StartedIs
    <2> HIDE DEF v
    <2>4. Once(v.asks, Builds) /\ v.asks \in Seq(Requested) /\ Range(v.asks) = {CapsRequest}
      <3> DEFINE a == Append(none, CapsRequest)
      <3>1. v.asks = a
        BY <1>1, <2>2, <2>3
      <3>2. a \in Seq(Requested) /\ Range(a) = {CapsRequest}
        BY <1>2, CapsRequestIs, RangeOfAppend
      <3>3. Once(a, Builds)
        BY <1>2, AppendOfSuch
      <3> QED
        BY <3>1, <3>2, <3>3
    <2>5. /\ v.alive = conn.alive /\ v.channel = "ready" /\ v.state = conn.state
          /\ v.first = conn.first /\ v.was = conn.was
          /\ v.recv = Absent /\ v.ice = NewPaths
      BY <1>1, <2>2, <2>3
    <2>6. Framed(v, line)
      <3>1. WellFormed(v, line)
        BY <1>0, <2>4, CapsRequestIs DEF Steady, Framed, WellFormed
      <3>2. ChannelSound(v, line) /\ OneSession(v, line)
        BY <1>2, <2>4, <2>5 DEF ChannelSound, OneSession
      <3>3. PathSound(v)
        BY <2>5, NewPathsAre DEF PathSound
      <3> QED
        BY <1>0, <2>3, <3>1, <3>2, <3>3 DEF Steady, Framed
    <2>7. /\ Framed(n, line)
          /\ n.alive = v.alive /\ n.state = v.state /\ n.channel = v.channel /\ n.sid = v.sid
          /\ n.recv = v.recv /\ n.ever = v.ever /\ n.ice = v.ice
          /\ n.first = v.first /\ n.was = v.was /\ n.resting = v.resting
      BY <1>2, <2>6, QueueIs
    <2> HIDE DEF n
    <2>8. StateSound(n)
      BY <1>0, <1>3, <2>5, <2>7, Zenon DEF Steady, StateSound, StateKept
    <2>9. LostIsOnItsWay(n, line)
      BY <2>5, <2>7 DEF LostIsOnItsWay
    <2> QED
      BY <1>2, <2>1, <2>7, <2>8, <2>9 DEF BasicNext, PathInv, Steady
  <1> QED
    BY <1>4, <1>5

LEMMA AnswerKeeps ==
    ASSUME BasicInv, NEW what, Serves(what), NEW ok \in BOOLEAN, NEW id \in Ids, Answer(ok, id),
           what = "resume" => id \in Consumers,
           what \in Directions => id = Head(conn.asks).id,
           what = "consume" /\ ok => id \in Consumers,
           what = "transport" /\ ok => id \in Transports
    PROVE  BasicNext
  <1> DEFINE h == Head(conn.asks)
             e == Says(h.what, ok, h.try, id)
             n == [conn EXCEPT !.asks = Tail(@)]
  <1>1. conn.channel = "ready" /\ conn.asks # <<>> /\ h.what = what /\ conn' = n
        /\ line' = Append(line, e)
    BY DEF Serves, Answer, ChannelReady
  <1>2. conn \in Connections /\ conn.asks \in Seq(Requested) /\ PathInv(conn, line)
    BY BasicIsTyped, AsksAreSeq DEF BasicInv
  <1>3. h \in Requested /\ h \in Range(conn.asks)
    BY <1>1, <1>2, RangeOfTail
  <1>4. Formed(h)
    BY <1>2, <1>3 DEF PathInv, Steady, Framed, WellFormed
  <1>5. e \in Messages
    BY <1>3 DEF Says, Requested, Messages
  <1>6. e.what = what /\ e.ok = ok /\ e.try = h.try /\ e.id = id
    BY <1>1 DEF Says
  <1> HIDE DEF e, h, n
  <1>7. Formed(e) /\ AnswerFormed(e)
    <2>1. h.what = what /\ what \in {"caps", "transport", "consume", "resume"} \cup Directions
      BY <1>1, <1>3 DEF Requested
    <2>2. what \in Directions => id = h.id
      BY DEF h
    <2> QED
      BY <1>4, <1>6, <2>1, <2>2 DEF Formed, AnswerFormed, Directions
  <1>8. e.what = h.what /\ (e.what \in Directions => e.id = h.id)
    BY <1>1, <1>6 DEF h
  <1>9. PathInv(n, Append(line, e))
    BY <1>1, <1>2, <1>5, <1>7, <1>8, ServedKeeps DEF h, n
  <1> QED
    BY <1>1, <1>9 DEF BasicNext

LEMMA ServerKeepsPath == BasicInv /\ Server => BasicNext
  <1> SUFFICES ASSUME BasicInv, Server PROVE BasicNext
    OBVIOUS
  <1>0. /\ Absent \in Ids /\ (\A c \in Consumers : c \in Ids) /\ (\A t \in Transports : t \in Ids)
        /\ TRUE \in BOOLEAN /\ FALSE \in BOOLEAN
        /\ \A k \in {"caps", "transport", "consume", "resume"} : k \notin Directions
    BY DEF Ids, Directions
  <1>1. CASE ServesCaps
    <2>1. PICK b \in BOOLEAN : b = TRUE
      OBVIOUS
    <2>2. Serves("caps") /\ Answer(b, Absent)
      BY <1>1, <2>1 DEF ServesCaps
    <2> QED
      BY <1>0, <2>2, AnswerKeeps
  <1>2. CASE RefusesConsume
    <2>1. PICK b \in BOOLEAN : b = FALSE
      OBVIOUS
    <2>2. Serves("consume") /\ Answer(b, Absent)
      BY <1>2, <2>1 DEF RefusesConsume
    <2> QED
      BY <1>0, <2>1, <2>2, AnswerKeeps
  <1>3. CASE ServesResume
    <2> DEFINE c == Head(conn.asks).id
               ok == srv.consumers[c] # Absent
    <2>1. Serves("resume") /\ Answer(ok, c)
      BY <1>3 DEF ServesResume
    <2>2. c \in Consumers
      <3>1. conn.asks \in Seq(Requested) /\ conn.asks # <<>> /\ Head(conn.asks).what = "resume"
        BY <2>1, BasicIsTyped, AsksAreSeq DEF Serves
      <3>2. Head(conn.asks) \in Range(conn.asks)
        BY <3>1, RangeOfTail
      <3> QED
        BY <3>1, <3>2 DEF BasicInv, PathInv, Steady, Framed, WellFormed, Formed
    <2>3. ok \in BOOLEAN
      OBVIOUS
    <2> HIDE DEF c, ok
    <2> QED
      BY <1>0, <2>1, <2>2, <2>3, AnswerKeeps
  <1>4. ASSUME NEW d \in Directions, ServesIce(d) PROVE BasicNext
    <2> DEFINE c == Head(conn.asks).id
               ok == c = srv.transport
    <2>1. Serves(d) /\ Answer(ok, c)
      BY <1>4 DEF ServesIce
    <2>2. c \in Transports
      <3>1. conn.asks \in Seq(Requested) /\ conn.asks # <<>> /\ Head(conn.asks).what = d
        BY <2>1, BasicIsTyped, AsksAreSeq DEF Serves
      <3>2. Head(conn.asks) \in Range(conn.asks)
        BY <3>1, RangeOfTail
      <3> QED
        BY <3>1, <3>2 DEF BasicInv, PathInv, Steady, Framed, WellFormed, Formed
    <2>3. ok \in BOOLEAN
      OBVIOUS
    <2>4. c = Head(conn.asks).id /\ c \in Ids /\ d \notin {"resume", "consume", "transport"}
      BY <1>0, <2>2 DEF Directions
    <2> HIDE DEF c, ok
    <2> QED
      BY <2>1, <2>2, <2>3, <2>4, AnswerKeeps
  <1>7. CASE ServerHearsOfClose
    BY <1>7 DEF ServerHearsOfClose, BasicInv, BasicNext
  <1>5. ASSUME NEW t \in Transports, ServesTransport(t) PROVE BasicNext
    <2>1. PICK b \in BOOLEAN : b = TRUE
      OBVIOUS
    <2>2. Serves("transport") /\ Answer(b, t)
      BY <1>5, <2>1 DEF ServesTransport
    <2> QED
      BY <1>0, <2>2, AnswerKeeps
  <1>6. ASSUME NEW c \in Consumers, ServesConsume(c) PROVE BasicNext
    <2> DEFINE try == Head(conn.asks).try
               ok == try.via = srv.transport /\ try.track \in srv.onAir
               id == IF ok THEN c ELSE Absent
    <2>1. Serves("consume") /\ Answer(ok, id)
      BY <1>6 DEF ServesConsume
    <2>2. ok \in BOOLEAN /\ id \in Ids /\ (ok => id \in Consumers)
      BY <1>0
    <2>3. "consume" \notin Directions
      BY DEF Directions
    <2> HIDE DEF ok, id
    <2> QED
      BY <2>1, <2>2, <2>3, AnswerKeeps
  <1> QED
    BY <1>1, <1>2, <1>3, <1>4, <1>5, <1>6, <1>7 DEF Server

LEMMA EventIs ==
    ASSUME NEW what \in {"announced", "closed", "gone"}, NEW t \in Tracks, NEW c \in Consumers \cup {Absent},
           what = "gone" => c \in Consumers
    PROVE  /\ Event(what, t, c) \in Messages /\ Formed(Event(what, t, c)) /\ Event(what, t, c).what = what
           /\ Event(what, t, c).try.track = t /\ Event(what, t, c).id = c
  <1>1. [track |-> t, via |-> Absent, retry |-> FALSE] \in Tries
    BY DEF Tries
  <1> QED
    BY <1>1 DEF Event, Says, Messages, Ids, Formed, Directions

LEMMA TellKeeps ==
    ASSUME BasicInv, NEW e \in Messages, Formed(e), e.what \in {"announced", "closed", "gone"},
           Tell(e), UNCHANGED conn
    PROVE  BasicNext
  BY ToldKeeps DEF BasicInv, BasicNext, Tell, ChannelReady

LEMMA RoomKeepsPath ==
    BasicInv => /\ \A t \in Tracks : TrackGoesOnAir(t) \/ TrackGoesOffAir(t) => BasicNext
                /\ \A c \in Consumers : BridgeFalls(c) => BasicNext
  <1> SUFFICES ASSUME BasicInv PROVE /\ \A t \in Tracks : TrackGoesOnAir(t) \/ TrackGoesOffAir(t) => BasicNext
                                     /\ \A c \in Consumers : BridgeFalls(c) => BasicNext
    OBVIOUS
  <1>1. ASSUME NEW t \in Tracks, TrackGoesOnAir(t) PROVE BasicNext
    BY <1>1, EventIs, TellKeeps DEF TrackGoesOnAir
  <1>2. ASSUME NEW t \in Tracks, TrackGoesOffAir(t) PROVE BasicNext
    BY <1>2, EventIs, TellKeeps DEF TrackGoesOffAir
  <1>3. ASSUME NEW c \in Consumers, BridgeFalls(c) PROVE BasicNext
    <2>1. srv.consumers[c] \in Tracks
      BY <1>3, BasicIsTyped DEF BridgeFalls, Servers
    <2> QED
      BY <1>3, <2>1, EventIs, TellKeeps DEF BridgeFalls
  <1> QED
    BY <1>1, <1>2, <1>3

\* A message arrives, and subscribing is all that it changes.
LEMMA ReceivedQuietly ==
    ASSUME BasicInv, NEW what \in {"announced", "closed", "gone", "consume", "resume"},
           NEW n, Receives(what, n), Quiet(conn, n)
    PROVE  BasicNext
  <1>1. line # <<>> /\ First.what \notin Directions /\ conn' = n /\ line' = Tail(line)
    BY DEF Receives, First, Directions
  <1>2. PathInv(conn, Tail(line))
    BY <1>1, TakenKeeps DEF BasicInv, First
  <1> QED
    BY <1>1, <1>2, QuietKeeps DEF BasicNext

LEMMA FirstIs ==
    ASSUME BasicInv, line # <<>>
    PROVE  /\ First \in Messages /\ Formed(First) /\ AnswerFormed(First)
           /\ Steady(conn, Tail(line)) /\ conn.channel = "ready" /\ conn.alive
           /\ First \in Builds => conn.recv = Absent /\ Lacks(Tail(line), Builds) /\ Lacks(conn.asks, Builds)
           /\ Range(line) = {First} \cup Range(Tail(line))
           /\ Range(Tail(line)) \subseteq Range(line)
  BY SteadyTail DEF BasicInv, PathInv, First

LEMMA AnnouncedKeeps == BasicInv /\ TrackAnnounced => BasicNext
  <1> SUFFICES ASSUME BasicInv, TrackAnnounced PROVE BasicNext
    OBVIOUS
  <1> DEFINE t == First.try.track
             m == [conn EXCEPT !.announced = @ \cup {t}]
             n == EnsureConsumed(m, {t}, FALSE)
  <1>1. Receives("announced", n) /\ line # <<>> /\ First.what = "announced"
    BY DEF TrackAnnounced, Receives, First
  <1>2. conn \in Connections
    BY BasicIsTyped
  <1>3. t \in Tracks
    BY <1>1, FirstIs DEF Formed, Tries
  <1> HIDE DEF t
  <1>4. m \in Connections /\ SamePath(conn, m) /\ m.asks = conn.asks
    BY <1>2, <1>3 DEF Connections, SamePath
  <1>5. Quiet(conn, m)
    BY <1>2, <1>4, SilentIsQuiet
  <1> HIDE DEF m
  <1>6. Quiet(m, n)
    BY <1>3, <1>4, EnsureConsumedIsQuiet
  <1> QED
    BY <1>1, <1>2, <1>5, <1>6, QuietAgain, ReceivedQuietly

LEMMA ClosedKeeps == BasicInv /\ TrackClosed => BasicNext
  <1> SUFFICES ASSUME BasicInv, TrackClosed PROVE BasicNext
    OBVIOUS
  <1> DEFINE t == First.try.track
             m == [conn EXCEPT !.announced = @ \ {t}]
             n == IF t \notin conn.announced THEN conn ELSE DropThose(m, {t})
  <1>1. Receives("closed", n)
    BY DEF TrackClosed
  <1>2. conn \in Connections
    BY BasicIsTyped
  <1>3. m \in Connections /\ SamePath(conn, m) /\ m.asks = conn.asks
    BY <1>2 DEF Connections, SamePath
  <1>4. Quiet(conn, m) /\ Quiet(conn, conn)
    BY <1>2, <1>3, SilentIsQuiet DEF SamePath
  <1> HIDE DEF m
  <1>5. Quiet(m, DropThose(m, {t}))
    BY <1>3, DropThoseIsQuiet
  <1>6. Quiet(conn, n)
    BY <1>2, <1>4, <1>5, QuietAgain
  <1> QED
    BY <1>1, <1>6, ReceivedQuietly

LEMMA GoneKeeps == BasicInv /\ ConsumerClosed => BasicNext
  <1> SUFFICES ASSUME BasicInv, ConsumerClosed PROVE BasicNext
    OBVIOUS
  <1> DEFINE t == First.try.track
             m == DropConsumer(conn, t, First.id)
             n == IF t \in conn.announced THEN EnsureConsumed(m, {t}, FALSE) ELSE m
  <1>1. Receives("gone", n) /\ line # <<>> /\ First.what = "gone"
    BY DEF ConsumerClosed, Receives, First
  <1>2. conn \in Connections
    BY BasicIsTyped
  <1>3. t \in Tracks
    BY <1>1, FirstIs DEF Formed, Tries
  <1> HIDE DEF t
  <1>4. m \in Connections /\ Quiet(conn, m)
    BY <1>2, DropThoseTyped, DropThoseIsQuiet DEF DropConsumer
  <1> HIDE DEF m
  <1>5. Quiet(m, EnsureConsumed(m, {t}, FALSE))
    BY <1>3, <1>4, EnsureConsumedIsQuiet
  <1>6. Quiet(conn, n)
    BY <1>2, <1>4, <1>5, QuietAgain
  <1> QED
    BY <1>1, <1>6, ReceivedQuietly

LEMMA FirstFails ==
    ASSUME BasicInv, line # <<>>, conn' = AsksFailed(conn, {First}), line' = Tail(line)
    PROVE  BasicNext
  <1>1. /\ First \in Messages /\ Formed(First) /\ Steady(conn, Tail(line))
        /\ First \in Builds => conn.recv = Absent
        /\ Range(line) = {First} \cup Range(Tail(line))
    BY FirstIs
  <1>2. conn \in Connections /\ LostIsOnItsWay(conn, line)
    BY BasicIsTyped DEF BasicInv, PathInv
  <1> DEFINE es == {First}
             g == Tail(line)
  <1>3. Entries(es)
    BY <1>1 DEF Entries
  <1>4. \A e \in Range(line) : e.what \in Directions => e \in Range(g) \cup es
    BY <1>1
  <1> HIDE DEF es, g
  <1>5. Failed(conn, AsksFailed(conn, es), es)
    BY <1>2, <1>3, AsksFailedTyped
  <1>6. PathInv(AsksFailed(conn, es), g)
    BY <1>1, <1>2, <1>3, <1>4, <1>5, FailedKeeps DEF g
  <1> QED
    BY <1>6 DEF BasicNext, es, g

LEMMA ConsumeReturnsKeeps == BasicInv /\ ConsumeReturns => BasicNext
  <1> SUFFICES ASSUME BasicInv, ConsumeReturns PROVE BasicNext
    OBVIOUS
  <1>1. line # <<>> /\ First.what = "consume" /\ line' = Tail(line)
    BY DEF ConsumeReturns, Receives, First
  <1>2. conn \in Connections /\ Formed(First) /\ AnswerFormed(First)
    BY <1>1, BasicIsTyped, FirstIs
  <1>3. CASE First.ok
    <2>1. First.try \in Tries /\ First.id \in Consumers
      BY <1>1, <1>2, <1>3 DEF Formed, AnswerFormed
    <2>2. Quiet(conn, ConsumeAnswered(conn, First.try, First.id))
      BY <1>2, <2>1, ConsumeAnsweredIsQuiet
    <2>3. Receives("consume", ConsumeAnswered(conn, First.try, First.id))
      BY <1>3 DEF ConsumeReturns
    <2> QED
      BY <2>2, <2>3, ReceivedQuietly
  <1>4. CASE ~First.ok
    BY <1>1, <1>4, FirstFails DEF ConsumeReturns, Receives
  <1> QED
    BY <1>3, <1>4

LEMMA ResumeReturnsKeeps == BasicInv /\ ResumeReturns => BasicNext
  <1> SUFFICES ASSUME BasicInv, ResumeReturns PROVE BasicNext
    OBVIOUS
  <1>1. line # <<>> /\ First.what = "resume" /\ line' = Tail(line)
    BY DEF ResumeReturns, Receives, First
  <1>2. conn \in Connections
    BY BasicIsTyped
  <1>3. CASE First.ok
    <2>1. Quiet(conn, ConsumerResumed(conn, First.try, First.id))
      BY <1>2, ConsumerResumedIsQuiet
    <2>2. Receives("resume", ConsumerResumed(conn, First.try, First.id))
      BY <1>3 DEF ResumeReturns
    <2> QED
      BY <2>1, <2>2, ReceivedQuietly
  <1>4. CASE ~First.ok
    BY <1>1, <1>4, FirstFails DEF ResumeReturns, Receives
  <1> QED
    BY <1>3, <1>4

LEMMA TooLateKeeps == BasicInv /\ AnswerTooLate => BasicNext
  BY FirstFails DEF AnswerTooLate

\* startSession threw, at an answer.
LEMMA BrokenKeeps ==
    ASSUME BasicInv, line # <<>>, First.what \in {"caps", "transport"}, conn' = Broken(conn), line' = Tail(line)
    PROVE  BasicNext
  <1>1. /\ First \in Messages /\ Steady(conn, Tail(line))
        /\ First \in Builds => conn.recv = Absent
    BY FirstIs
  <1>2. conn.recv = Absent
    BY <1>1 DEF Builds
  <1> DEFINE n == Broken(conn)
             g == Tail(line)
  <1>3. /\ n \in Connections /\ Rerouted(conn, n) /\ n.ice = conn.ice /\ n.recv = Absent
        /\ n.first => conn.first
        /\ n.state = conn.state \/ (n.state = "failed" /\ conn.first)
    BY <1>2, BrokenTyped, BasicIsTyped DEF Rerouted
  <1> HIDE DEF n
  <1>4. Framed(n, g)
    BY <1>1, <1>2, <1>3
       DEF Steady, Framed, WellFormed, ChannelSound, OneSession, PathSound, Rerouted
  <1>5. StateSound(n)
    <2>1. n.alive = conn.alive /\ n.was = conn.was /\ n.recv = Absent
      BY <1>3 DEF Rerouted
    <2>2. StateKept(conn)
      BY <1>1 DEF Steady, StateSound
    <2>3. CASE n.state = conn.state
      BY <1>2, <1>3, <2>1, <2>2, <2>3, Zenon DEF StateSound, StateKept
    <2>4. CASE n.state = "failed" /\ conn.first
      <3>1. ~n.was /\ n.state # "connected"
        BY <2>1, <2>2, <2>4 DEF StateKept
      <3> QED
        BY <2>1, <3>1, Zenon DEF StateSound, StateKept
    <2> QED
      BY <1>3, <2>3, <2>4
  <1>6. LostIsOnItsWay(n, g)
    BY <1>3 DEF LostIsOnItsWay
  <1> QED
    BY <1>4, <1>5, <1>6 DEF BasicNext, PathInv, Steady, n, g

TransportRequest == [what |-> "transport", try |-> Absent, id |-> Absent]

LEMMA CapsReturnKeeps == BasicInv /\ CapsReturn => BasicNext
  <1> SUFFICES ASSUME BasicInv, CapsReturn PROVE BasicNext
    OBVIOUS
  <1>1. line # <<>> /\ First.what = "caps" /\ line' = Tail(line)
    BY DEF CapsReturn, Receives, First
  <1>2. CASE ~First.ok
    BY <1>1, <1>2, BrokenKeeps DEF CapsReturn, Receives
  <1>3. CASE First.ok
    <2> DEFINE n == Ask(conn, "transport", Absent, Absent)
               g == Tail(line)
    <2>1. conn' = n
      BY <1>3 DEF CapsReturn, Receives
    <2>2. conn \in Connections /\ conn.asks \in Seq(Requested)
      BY BasicIsTyped, AsksAreSeq
    <2>3. /\ First \in Messages /\ Steady(conn, g) /\ conn.channel = "ready"
          /\ First \in Builds => conn.recv = Absent /\ Lacks(g, Builds) /\ Lacks(conn.asks, Builds)
      BY <1>1, FirstIs
    <2>4. conn.recv = Absent /\ Lacks(g, Builds) /\ Lacks(conn.asks, Builds)
      BY <1>1, <2>3 DEF Builds
    <2>5. TransportRequest \in Requested /\ Formed(TransportRequest)
      BY DEF TransportRequest, Requested, Formed, Ids, Directions
    <2>6. n \in Connections /\ SamePath(conn, n) /\ n.asks = Append(conn.asks, TransportRequest)
      BY <2>2, <2>5, AskIs DEF TransportRequest
    <2> HIDE DEF n, g
    <2>7. Once(n.asks, Builds) /\ Range(n.asks) = Range(conn.asks) \cup {TransportRequest}
      BY <2>2, <2>4, <2>5, <2>6, AppendOfSuch, RangeOfAppend, LacksMeansOnce
    <2>8. WellFormed(n, g)
      BY <2>3, <2>5, <2>7 DEF Steady, Framed, WellFormed
    <2>9. ChannelSound(n, g) /\ OneSession(n, g) /\ PathSound(n) /\ LostIsOnItsWay(n, g)
      BY <2>3, <2>4, <2>6, <2>7
         DEF Steady, Framed, ChannelSound, OneSession, PathSound, LostIsOnItsWay, SamePath
    <2>10. StateSound(n)
      BY <2>3, <2>6, StateStays DEF Steady, SamePath
    <2> QED
      BY <1>1, <2>1, <2>3, <2>6, <2>8, <2>9, <2>10 DEF BasicNext, PathInv, Steady, Framed, g
  <1> QED
    BY <1>2, <1>3

LEMMA TransportReturnsKeeps ==
    ASSUME BasicInv, NEW waits \in BOOLEAN, TransportReturns(waits)
    PROVE  BasicNext
  <1>1. line # <<>> /\ First.what = "transport" /\ line' = Tail(line)
    BY DEF TransportReturns, Receives, First
  <1>2. CASE ~First.ok
    BY <1>1, <1>2, BrokenKeeps DEF TransportReturns, Receives
  <1>3. CASE First.ok
    <2> DEFINE m == [conn EXCEPT !.build = FALSE, !.first = FALSE, !.was = TRUE,
                                 !.recv = First.id, !.ice = NewPaths]
               r == ConsumeMissing(m)
               n == Rest(r, "session", waits, FALSE)
               g == Tail(line)
    <2>1. conn' = n
      BY <1>3 DEF TransportReturns, Receives
    <2>2. conn \in Connections /\ conn.asks \in Seq(Requested)
      BY BasicIsTyped, AsksAreSeq
    <2>3. /\ First \in Messages /\ Steady(conn, g) /\ conn.channel = "ready" /\ conn.alive
          /\ First \in Builds => conn.recv = Absent /\ Lacks(g, Builds) /\ Lacks(conn.asks, Builds)
          /\ AnswerFormed(First)
      BY <1>1, FirstIs
    <2>4. conn.recv = Absent /\ Lacks(g, Builds) /\ Lacks(conn.asks, Builds) /\ First.id \in Transports
      BY <1>1, <1>3, <2>3 DEF Builds, AnswerFormed
    <2>5. m \in Connections
      <3> HIDE DEF NewPaths
      <3> QED
        BY <2>2, <2>4, NewPathsAre, ZenonT(60) DEF Connections
    <2>6. /\ m.alive = conn.alive /\ m.state = conn.state /\ m.channel = conn.channel
          /\ m.asks = conn.asks /\ m.recv = First.id /\ m.ice = NewPaths /\ m.ever = conn.ever
          /\ m.first = FALSE /\ m.was = TRUE
      BY <2>2 DEF Connections
    <2> HIDE DEF m, g
    <2>7. m.recv # Absent
      BY <2>4, <2>6, SubscribingAssumption
    <2>8. \A d \in Directions : m.ice[d].state = "new" /\ m.ice[d].loss = "none"
      BY <2>6, NewPathsAre
    <2>9. Framed(m, g) /\ LostIsOnItsWay(m, g)
      <3>1. WellFormed(m, g)
        BY <2>3, <2>6 DEF Steady, Framed, WellFormed
      <3>2. ChannelSound(m, g) /\ OneSession(m, g)
        BY <2>3, <2>4, <2>6, LacksMeansOnce DEF ChannelSound, OneSession
      <3>3. PathSound(m) /\ LostIsOnItsWay(m, g)
        BY <2>7, <2>8 DEF PathSound, LostIsOnItsWay
      <3> QED
        BY <2>3, <2>5, <3>1, <3>2, <3>3 DEF Steady, Framed
    <2>10. Quiet(m, r) /\ r \in Connections /\ SamePath(m, r)
      BY <2>5, ConsumeMissingIsQuiet DEF Quiet
    <2> HIDE DEF r
    <2>11. Framed(r, g) /\ LostIsOnItsWay(r, g)
      BY <2>9, <2>10, QuietIsOnward, OnwardKeeps
    <2>12. /\ r.alive /\ r.channel = "ready" /\ Healthy(r)
           /\ (r.first => ~r.was) /\ r.was
      <3>1. /\ r.alive = conn.alive /\ r.channel = conn.channel /\ r.recv = m.recv /\ r.ice = m.ice
            /\ r.first = FALSE /\ r.was = TRUE
        BY <2>6, <2>10 DEF SamePath
      <3>2. Healthy(r)
        BY <2>7, <2>8, <3>1 DEF Healthy
      <3> QED
        BY <2>3, <3>1, <3>2
    <2>13. StateKept(r) \/ (~waits /\ r.alive /\ r.channel = "ready" /\ Healthy(r))
      <3>1. CASE ~waits
        BY <2>12, <3>1
      <3>2. CASE waits
        <4>1. conn.was
          BY <3>2 DEF TransportReturns
        <4>2. /\ r.state = conn.state /\ r.recv # Absent /\ r.alive = conn.alive
              /\ r.ice = m.ice
          BY <2>6, <2>7, <2>10 DEF SamePath
        <4>3. conn.state \in {"connected", "reconnecting", "blocked"} /\ conn.state # "connected"
          BY <2>3, <2>4, <4>1 DEF Steady, StateSound, StateKept
        <4>4. StateKept(r)
          BY <2>12, <4>2, <4>3, Zenon DEF StateKept
        <4> QED
          BY <4>4
      <3> QED
        BY <3>1, <3>2
    <2>14. StateSound(n) /\ Onward(r, n)
      <3>1. ChannelSound(r, g)
        BY <2>11 DEF Framed
      <3>2. "session" \in Rests /\ FALSE \in BOOLEAN
        BY DEF Rests
      <3> QED
        BY <2>10, <2>12, <2>13, <3>1, <3>2, RestIs
    <2> HIDE DEF n
    <2>15. Framed(n, g) /\ LostIsOnItsWay(n, g)
      BY <2>11, <2>14, OnwardKeeps
    <2> QED
      BY <1>1, <2>1, <2>14, <2>15 DEF BasicNext, PathInv, Steady, g
  <1> QED
    BY <1>2, <1>3

LEMMA IceReturnsKeeps ==
    ASSUME BasicInv, NEW d \in Directions, IceReturns(d)
    PROVE  BasicNext
  <1>1. line # <<>> /\ First.what = d /\ conn \in Connections
    BY BasicIsTyped DEF IceReturns, Receives, First
  <1>2. CASE First.ok
    <2> DEFINE n == IceRenegotiated(conn, {d}, First.id)
               g == Tail(line)
    <2>1. conn' = n /\ line' = g
      BY <1>2 DEF IceReturns, Receives
    <2>2. /\ Steady(conn, g) /\ Range(line) = {First} \cup Range(g) /\ Formed(First)
          /\ First \in Messages
      BY <1>1, FirstIs
    <2>3. LostIsOnItsWay(conn, line)
      BY DEF BasicInv, PathInv
    <2> HIDE DEF g
    <2>4. CASE conn.recv # First.id
      <3>1. n = conn
        BY <1>1, <2>4, RenegotiatedTyped
      <3>2. LostIsOnItsWay(conn, g)
        BY <2>2, <2>3, <2>4 DEF LostIsOnItsWay, RenegotiationOf
      <3> QED
        BY <2>1, <2>2, <3>1, <3>2 DEF BasicNext, PathInv
    <2>5. CASE conn.recv = First.id
      <3> DEFINE es == {First}
      <3>1. Entries(es)
        BY <2>2 DEF Entries
      <3>2. RenegotiatedBy(conn, es) = {d}
        BY <1>1, <2>5 DEF RenegotiatedBy
      <3>3. Failed(conn, n, es)
        <4>1. /\ n \in Connections /\ Rerouted(conn, n) /\ n.state = conn.state /\ n.first = conn.first
              /\ Renegotiated(conn, n, {d})
          BY <1>1, <2>5, RenegotiatedTyped
        <4> QED
          BY <3>2, <4>1 DEF Failed
      <3>4. \A e \in Range(line) : e.what \in Directions => e \in Range(g) \cup es
        BY <2>2
      <3> HIDE DEF n, es
      <3>5. PathInv(n, g)
        BY <2>2, <2>3, <3>1, <3>3, <3>4, FailedKeeps
      <3> QED
        BY <2>1, <3>5 DEF BasicNext
    <2> QED
      BY <2>4, <2>5
  <1>3. CASE ~First.ok
    BY <1>1, <1>3, ForcedIs DEF IceReturns, BasicInv, BasicNext, PathInv
  <1> QED
    BY <1>2, <1>3

LEMMA InVainKeeps == BasicInv /\ WaitedInVain => BasicNext
  <1> SUFFICES ASSUME BasicInv, WaitedInVain PROVE BasicNext
    OBVIOUS
  <1> DEFINE h == Head(conn.asks)
             t == Tail(conn.asks)
             m == [conn EXCEPT !.asks = Tail(@)]
             es == {h}
             k == AsksFailed(m, es)
  <1>1. conn' = k /\ line' = line /\ conn.asks # <<>> /\ conn.channel = "reconnecting"
    BY DEF WaitedInVain, Becomes
  <1>2. conn \in Connections /\ conn.asks \in Seq(Requested) /\ Steady(conn, line)
    BY BasicIsTyped, AsksAreSeq DEF BasicInv, PathInv
  <1>3. h \in Requested /\ t \in Seq(Requested) /\ Range(conn.asks) = {h} \cup Range(t)
    BY <1>1, <1>2, RangeOfTail
  <1>4. Lacks(t, Builds) /\ h \notin Builds
    <2>1. Lacks(conn.asks, Builds)
      BY <1>1, <1>2 DEF Steady, Framed, ChannelSound
    <2> QED
      BY <1>1, <1>2, <2>1, TailOfSuch
  <1> HIDE DEF t, h
  <1>5. m \in Connections /\ SamePath(conn, m) /\ m.asks = t
    BY <1>2, <1>3 DEF Connections, SamePath, t
  <1> HIDE DEF m
  <1>6. Steady(m, line)
    <2>1. WellFormed(m, line)
      BY <1>2, <1>3, <1>5 DEF Steady, Framed, WellFormed
    <2>2. ChannelSound(m, line) /\ OneSession(m, line)
      BY <1>2, <1>4, <1>5, LacksMeansOnce DEF Steady, Framed, ChannelSound, OneSession, SamePath
    <2>3. PathSound(m)
      BY <1>2, <1>5 DEF Steady, Framed, PathSound, SamePath
    <2>4. StateSound(m)
      BY <1>2, <1>5, StateStays DEF Steady, SamePath
    <2> QED
      BY <1>2, <1>5, <2>1, <2>2, <2>3, <2>4 DEF Steady, Framed
  <1>7. Entries(es)
    BY <1>2, <1>3, <1>4 DEF Entries, Steady, Framed, WellFormed
  <1> HIDE DEF es
  <1>8. Failed(m, k, es)
    BY <1>5, <1>7, AsksFailedTyped
  <1> HIDE DEF k
  <1>9. Steady(k, line)
    BY <1>6, <1>7, <1>8, FailedIsSteady
  <1>10. LostIsOnItsWay(k, line)
    <2> SUFFICES ASSUME NEW d \in Directions, k.recv # Absent, k.ice[d].loss = "late",
                        k.ice[d].handle = "none", k.ice[d].strays = {},
                        ~(k.channel = "reconnecting" /\ ~k.sid)
                 PROVE  RenegotiationOf(k, line, d)
      BY DEF LostIsOnItsWay
    <2>1. /\ d \notin RenegotiatedBy(m, es) /\ k.ice[d] = conn.ice[d] /\ k.recv = conn.recv
          /\ k.asks = t /\ k.channel = conn.channel /\ k.sid = conn.sid
      BY <1>5, <1>8 DEF Failed, Renegotiated, Rerouted, SamePath
    <2>2. RenegotiationOf(conn, line, d)
      BY <2>1 DEF BasicInv, PathInv, LostIsOnItsWay
    <2>3. ~(h.what = d /\ h.id = conn.recv)
      BY <1>5, <2>1 DEF RenegotiatedBy, SamePath, es
    <2> QED
      BY <1>3, <2>1, <2>2, <2>3 DEF RenegotiationOf
  <1> QED
    BY <1>1, <1>9, <1>10 DEF BasicNext, PathInv

\* Subscribing is all that a step changes.
LEMMA QuietStep ==
    ASSUME BasicInv, NEW n, Quiet(conn, n), Becomes(n)
    PROVE  BasicNext
  BY QuietKeeps DEF BasicInv, BasicNext, Becomes

LEMMA MakingIs ==
    ASSUME BasicInv, NEW e \in conn.making
    PROVE  e.try \in Tries /\ e.id \in Consumers /\ e = [try |-> e.try, id |-> e.id]
  BY BasicIsTyped DEF Connections

LEMMA MakingKeeps ==
    ASSUME BasicInv, NEW e \in conn.making, MakingEnds(e) \/ MakingFails(e)
    PROVE  BasicNext
  <1>0. conn \in Connections
    BY BasicIsTyped
  <1>1. e.try \in Tries /\ e.id \in Consumers
    BY MakingIs
  <1>2. CASE MakingEnds(e)
    BY <1>0, <1>1, <1>2, ConsumerMadeIsQuiet, QuietStep DEF MakingEnds
  <1>3. CASE MakingFails(e)
    <2> DEFINE m == [conn EXCEPT !.making = @ \ {e}]
    <2>1. m \in Connections /\ SamePath(conn, m) /\ m.asks = conn.asks
      BY <1>0 DEF Connections, SamePath
    <2>2. Quiet(conn, m)
      BY <1>0, <2>1, SilentIsQuiet
    <2>3. Becomes(ConsumeFailed(m, {e.try}))
      BY <1>3 DEF MakingFails
    <2> HIDE DEF m
    <2>4. Quiet(m, ConsumeFailed(m, {e.try}))
      BY <1>1, <2>1, ConsumeFailedIsQuiet
    <2> QED
      BY <1>0, <2>2, <2>3, <2>4, QuietAgain, QuietStep
  <1> QED
    BY <1>2, <1>3

LEMMA RetryKeeps ==
    ASSUME BasicInv, NEW t \in Tracks, RetryTimeout(t)
    PROVE  BasicNext
  <1> DEFINE m == [conn EXCEPT !.retries = @ \ {t}]
             n == IF t \in conn.announced THEN EnsureConsumed(m, {t}, TRUE) ELSE m
  <1>0. conn \in Connections
    BY BasicIsTyped
  <1>1. m \in Connections /\ SamePath(conn, m) /\ m.asks = conn.asks
    BY <1>0 DEF Connections, SamePath
  <1>2. Quiet(conn, m)
    BY <1>0, <1>1, SilentIsQuiet
  <1>3. Becomes(n)
    BY DEF RetryTimeout
  <1> HIDE DEF m
  <1>4. Quiet(m, EnsureConsumed(m, {t}, TRUE))
    BY <1>1, EnsureConsumedIsQuiet
  <1>5. Quiet(conn, n)
    BY <1>0, <1>2, <1>4, QuietAgain
  <1> QED
    BY <1>3, <1>5, QuietStep

\* The paths change, and neither the requests nor the channel.
LEMMA ReroutedKeeps ==
    ASSUME NEW m, NEW n, NEW l, Steady(m, l), Rerouted(m, n), PathSound(n)
    PROVE  Framed(n, l)
  BY DEF Steady, Framed, Rerouted, WellFormed, ChannelSound, OneSession

States == {"connecting", "connected", "reconnecting", "failed", "blocked", "disconnected"}

LEMMA OnePathIs ==
    ASSUME NEW m \in Connections, NEW d \in Directions, NEW i \in Paths
    PROVE  LET n == [m EXCEPT !.ice[d] = i] IN
           /\ Rerouted(m, n) /\ n.state = m.state /\ n.first = m.first
           /\ n.ice[d] = i /\ \A x \in Directions \ {d} : n.ice[x] = m.ice[x]
  <1> DEFINE p == [m.ice EXCEPT ![d] = i]
             n == [m EXCEPT !.ice = p]
  <1>1. /\ p \in [Directions -> Paths]
        /\ p[d] = i /\ \A x \in Directions \ {d} : p[x] = m.ice[x]
    BY DEF Connections
  <1>2. [m EXCEPT !.ice[d] = i] = n
    OBVIOUS
  <1> HIDE DEF p
  <1>3. n \in Connections
    BY <1>1 DEF Connections
  <1>4. Rerouted(m, n) /\ n.state = m.state /\ n.first = m.first /\ n.ice = p
    BY <1>3 DEF Rerouted, Connections
  <1> HIDE DEF n
  <1> QED
    BY <1>1, <1>2, <1>4

LEMMA StateIs ==
    ASSUME NEW m \in Connections, NEW s \in States
    PROVE  LET n == [m EXCEPT !.state = s] IN
           /\ Rerouted(m, n) /\ n.state = s /\ n.first = m.first /\ n.ice = m.ice
  <1> DEFINE n == [m EXCEPT !.state = s]
  <1>1. n \in Connections
    BY DEF Connections, States
  <1> QED
    BY <1>1 DEF Rerouted, Connections

LEMMA EverIs ==
    ASSUME NEW m \in Connections
    PROVE  LET n == [m EXCEPT !.ever = TRUE] IN
           /\ n \in Connections
           /\ n.alive = m.alive /\ n.channel = m.channel /\ n.sid = m.sid /\ n.recv = m.recv
           /\ n.asks = m.asks /\ n.was = m.was /\ n.resting = m.resting
           /\ n.state = m.state /\ n.first = m.first /\ n.ice = m.ice
  <1> DEFINE n == [m EXCEPT !.ever = TRUE]
  <1>1. n \in Connections
    BY DEF Connections
  <1> QED
    BY <1>1 DEF Connections

\* One path changes, in a way that is sound and leaves it on its way back.
Moved(m, n, l, d) ==
    /\ n \in Connections
    /\ n.alive = m.alive /\ n.channel = m.channel /\ n.sid = m.sid /\ n.recv = m.recv /\ n.asks = m.asks
    /\ \A x \in Directions \ {d} : n.ice[x] = m.ice[x]
    /\ n.ice[d].state = "connected" => n.ice[d].loss = "none"
    /\ n.ice[d].state = "lost" => n.ice[d].loss # "none"
    /\ n.ice[d].loss = "late" => \/ n.ice[d].handle # "none" \/ n.ice[d].strays # {}
                                 \/ RenegotiationOf(m, l, d)
                                 \/ m.channel = "reconnecting" /\ ~m.sid

LEMMA OnePathKeeps ==
    ASSUME NEW m, NEW n, NEW l, PathInv(m, l), m.recv # Absent, NEW d \in Directions, Moved(m, n, l, d)
    PROVE  Framed(n, l) /\ LostIsOnItsWay(n, l)
  <1>1. Framed(m, l) /\ LostIsOnItsWay(m, l)
    BY DEF PathInv, Steady
  <1>2. PathSound(n)
    <2>1. ASSUME NEW x \in Directions
          PROVE  /\ n.ice[x].state = "connected" => n.ice[x].loss = "none"
                 /\ n.ice[x].state = "lost" => n.ice[x].loss # "none"
      <3>1. CASE x = d
        BY <3>1 DEF Moved
      <3>2. CASE x # d
        BY <1>1, <3>2 DEF Moved, Framed, PathSound
      <3> QED
        BY <3>1, <3>2
    <2>2. n.recv = Absent => n.ice = NewPaths
      BY DEF Moved
    <2> QED
      BY <2>1, <2>2 DEF PathSound
  <1>3. WellFormed(n, l) /\ ChannelSound(n, l) /\ OneSession(n, l)
    BY <1>1 DEF Moved, Framed, WellFormed, ChannelSound, OneSession
  <1>4. LostIsOnItsWay(n, l)
    <2> SUFFICES ASSUME NEW x \in Directions, n.ice[x].loss = "late"
                 PROVE  \/ n.ice[x].handle # "none" \/ n.ice[x].strays # {}
                        \/ RenegotiationOf(n, l, x)
                        \/ n.channel = "reconnecting" /\ ~n.sid
      BY DEF LostIsOnItsWay
    <2>1. RenegotiationOf(n, l, x) <=> RenegotiationOf(m, l, x)
      BY DEF RenegotiationOf, Moved
    <2>2. CASE x = d
      BY <2>1, <2>2 DEF Moved
    <2>3. CASE x # d
      <3>1. n.ice[x] = m.ice[x]
        BY <2>3 DEF Moved
      <3> QED
        BY <1>1, <2>1, <3>1 DEF LostIsOnItsWay, Moved
    <2> QED
      BY <2>2, <2>3
  <1> QED
    BY <1>1, <1>2, <1>3, <1>4 DEF Framed, Moved

\* A page whose session has a path.
LEMMA APath ==
    ASSUME BasicInv, conn.recv # Absent
    PROVE  /\ conn \in Connections /\ PathInv(conn, line) /\ StateSound(conn) /\ StateKept(conn)
           /\ conn.alive /\ conn.was /\ ~conn.first
           /\ conn.state \in {"connected", "reconnecting", "blocked"}
           /\ conn.channel \in {"ready", "reconnecting"}
           /\ \A d \in Directions :
                  /\ conn.ice[d] \in Paths
                  /\ conn.ice[d].state = "connected" => conn.ice[d].loss = "none"
                  /\ conn.ice[d].state = "lost" => conn.ice[d].loss # "none"
  <1>1. conn \in Connections /\ PathInv(conn, line) /\ StateSound(conn) /\ StateKept(conn)
    BY BasicIsTyped DEF BasicInv, PathInv, Steady, StateSound
  <1>2. ChannelSound(conn, line) /\ PathSound(conn)
    BY <1>1 DEF PathInv, Steady, Framed
  <1>3. conn.alive /\ conn.channel \in {"ready", "reconnecting"}
    BY <1>2 DEF ChannelSound
  <1>4. conn.was /\ ~conn.first /\ conn.state \in {"connected", "reconnecting", "blocked"}
    BY <1>1, <1>3 DEF StateKept
  <1>5. \A d \in Directions : conn.ice[d] \in Paths
    BY <1>1 DEF Connections
  <1> QED
    BY <1>1, <1>2, <1>3, <1>4, <1>5 DEF PathSound

LEMMA IceConnectsKeeps ==
    ASSUME BasicInv, NEW d \in Directions, IceConnects(d)
    PROVE  BasicNext
  <1> DEFINE i == [CancelIceRestart(conn.ice[d]) EXCEPT !.state = "connected", !.loss = "none"]
             e == [conn EXCEPT !.ever = TRUE]
             n == [e EXCEPT !.ice[d] = i]
             k == IF conn.state = "reconnecting" THEN Recovered(n) ELSE n
  <1>0. /\ conn.recv # Absent /\ conn' = PathConnected(conn, d) /\ line' = line
    BY DEF IceConnects, Becomes
  <1>1. /\ conn \in Connections /\ PathInv(conn, line) /\ StateSound(conn) /\ StateKept(conn)
        /\ conn.alive /\ conn.was /\ ~conn.first /\ conn.ice[d] \in Paths
        /\ conn.state \in {"connected", "reconnecting", "blocked"}
    BY <1>0, APath
  <1>2. i \in Paths /\ i.state = "connected" /\ i.loss = "none"
    BY <1>1 DEF CancelIceRestart, Paths
  <1>3. conn' = k
    <2>1. [conn EXCEPT !.ever = TRUE, !.ice[d] = i] = n
      BY <1>1 DEF Connections
    <2> QED
      BY <1>0, <2>1 DEF PathConnected
  <1> HIDE DEF i
  <1>4. /\ e \in Connections
        /\ e.alive = conn.alive /\ e.channel = conn.channel /\ e.sid = conn.sid /\ e.recv = conn.recv
        /\ e.asks = conn.asks /\ e.was = conn.was /\ e.resting = conn.resting
        /\ e.state = conn.state /\ e.first = conn.first /\ e.ice = conn.ice
    BY <1>1, EverIs
  <1> HIDE DEF e
  <1>5. /\ Rerouted(e, n) /\ n.state = e.state /\ n.first = e.first
        /\ n.ice[d] = i /\ \A x \in Directions \ {d} : n.ice[x] = e.ice[x]
    BY <1>2, <1>4, OnePathIs
  <1> HIDE DEF n
  <1>6. /\ n \in Connections
        /\ n.alive = conn.alive /\ n.channel = conn.channel /\ n.sid = conn.sid /\ n.recv = conn.recv
        /\ n.asks = conn.asks /\ n.was = conn.was /\ n.resting = conn.resting
        /\ n.state = conn.state /\ n.first = conn.first
        /\ n.ice[d] = i /\ \A x \in Directions \ {d} : n.ice[x] = conn.ice[x]
    BY <1>4, <1>5 DEF Rerouted
  <1>7. Framed(n, line) /\ LostIsOnItsWay(n, line)
    <2>1. Moved(conn, n, line, d)
      BY <1>2, <1>6 DEF Moved
    <2> QED
      BY <1>0, <1>1, <2>1, OnePathKeeps
  <1>8. StateKept(n)
    <2>1. \A x \in Directions : n.ice[x].state = "lost" => n.ice[x] = conn.ice[x]
      BY <1>2, <1>6
    <2> QED
      BY <1>1, <1>6, <2>1, Zenon DEF StateKept
  <1>9. CASE conn.state = "reconnecting"
    <2>1. ChannelSound(n, line)
      BY <1>7 DEF Framed
    <2>2. StateSound(Recovered(n)) /\ Onward(n, Recovered(n))
      BY <1>0, <1>1, <1>6, <1>8, <2>1, RecoveredIsSound
    <2>3. Framed(Recovered(n), line) /\ LostIsOnItsWay(Recovered(n), line)
      BY <1>7, <2>2, OnwardKeeps
    <2> QED
      BY <1>0, <1>3, <1>9, <2>2, <2>3 DEF BasicNext, PathInv, Steady
  <1>10. CASE conn.state # "reconnecting"
    <2>1. StateSound(n)
      BY <1>6, <1>8, <1>10, Zenon DEF StateSound
    <2> QED
      BY <1>0, <1>3, <1>7, <1>10, <2>1 DEF BasicNext, PathInv, Steady
  <1> QED
    BY <1>9, <1>10

LEMMA IceFallsKeeps ==
    ASSUME BasicInv, NEW d \in Directions, IceFalls(d)
    PROVE  BasicNext
  <1>0. /\ conn.recv # Absent /\ line' = line
        /\ conn' = IF conn.ever THEN PathLost(conn, d) ELSE PathBlocked(conn, d)
    BY DEF IceFalls, Becomes
  <1>1. /\ conn \in Connections /\ PathInv(conn, line) /\ StateSound(conn) /\ StateKept(conn)
        /\ conn.alive /\ conn.was /\ ~conn.first /\ conn.ice[d] \in Paths
        /\ conn.state \in {"connected", "reconnecting", "blocked"}
    BY <1>0, APath
  <1>2. ASSUME NEW i \in Paths, i.state = "lost", i.loss \in {"early", "late"},
               i.loss = "late" => i.handle # "none",
               NEW s \in States, s \in {conn.state, "reconnecting", "blocked"},
               i.loss = "late" => s = "reconnecting",
               conn' = [conn EXCEPT !.state = s, !.ice[d] = i]
        PROVE  BasicNext
    <2> DEFINE e == [conn EXCEPT !.state = s]
               n == [e EXCEPT !.ice[d] = i]
    <2>1. conn' = n
      BY <1>1, <1>2 DEF Connections
    <2>2. Rerouted(conn, e) /\ e.state = s /\ e.first = conn.first /\ e.ice = conn.ice
      BY <1>1, StateIs
    <2> HIDE DEF e
    <2>3. /\ Rerouted(e, n) /\ n.state = e.state /\ n.first = e.first
          /\ n.ice[d] = i /\ \A x \in Directions \ {d} : n.ice[x] = e.ice[x]
      BY <2>2, OnePathIs DEF Rerouted
    <2> HIDE DEF n
    <2>4. /\ n \in Connections
          /\ n.alive = conn.alive /\ n.channel = conn.channel /\ n.sid = conn.sid /\ n.recv = conn.recv
          /\ n.asks = conn.asks /\ n.was = conn.was /\ n.resting = conn.resting
          /\ n.state = s /\ n.first = conn.first
          /\ n.ice[d] = i /\ \A x \in Directions \ {d} : n.ice[x] = conn.ice[x]
      BY <2>2, <2>3 DEF Rerouted
    <2>5. Framed(n, line) /\ LostIsOnItsWay(n, line)
      <3>1. Moved(conn, n, line, d)
        BY <1>2, <2>4 DEF Moved
      <3> QED
        BY <1>0, <1>1, <3>1, OnePathKeeps
    <2>6. StateKept(n)
      <3>1. n.state \in {"connected", "reconnecting", "blocked"} /\ (n.state = "connected" => conn.state = "connected")
        BY <1>1, <1>2, <2>4
      <3>2. ASSUME n.state = "connected", NEW x \in Directions, n.ice[x].state = "lost"
            PROVE  n.ice[x].loss = "early"
        <4>1. conn.state = "connected" /\ i.loss = "early"
          BY <1>2, <2>4, <3>1, <3>2
        <4>2. CASE x = d
          BY <2>4, <4>1, <4>2
        <4>3. CASE x # d
          BY <1>1, <2>4, <3>2, <4>1, <4>3 DEF StateKept
        <4> QED
          BY <4>2, <4>3
      <3>3. n.state = "connected" => n.channel = "ready" /\ n.recv # Absent
        BY <1>1, <2>4, <3>1 DEF StateKept
      <3> QED
        BY <1>1, <2>4, <3>1, <3>2, <3>3, Zenon DEF StateKept
    <2>7. ~AllFine(n)
      BY <1>2, <2>4 DEF AllFine, Fine
    <2> QED
      BY <1>0, <2>1, <2>5, <2>6, <2>7 DEF BasicNext, PathInv, Steady, StateSound
  <1>3. CASE conn.ever
    <2> DEFINE i == [ScheduleIceRestart(conn.ice[d]) EXCEPT !.state = "lost", !.loss = "late"]
    <2>1. i \in Paths /\ i.state = "lost" /\ i.loss = "late" /\ i.handle # "none"
      BY <1>1 DEF ScheduleIceRestart, Paths
    <2>2. conn' = [conn EXCEPT !.state = "reconnecting", !.ice[d] = i]
      BY <1>0, <1>3 DEF PathLost
    <2>3. "reconnecting" \in States
      BY DEF States
    <2> HIDE DEF i
    <2> QED
      BY <1>2, <2>1, <2>2, <2>3
  <1>4. CASE ~conn.ever
    <2> DEFINE i == [conn.ice[d] EXCEPT !.state = "lost", !.loss = "early"]
               s == IF d = "send" THEN "blocked" ELSE conn.state
    <2>1. i \in Paths /\ i.state = "lost" /\ i.loss = "early"
      BY <1>1 DEF Paths
    <2>2. conn' = [conn EXCEPT !.state = s, !.ice[d] = i]
      BY <1>0, <1>4 DEF PathBlocked
    <2>3. s \in States /\ s \in {conn.state, "blocked"}
      BY <1>1 DEF States
    <2> HIDE DEF i, s
    <2> QED
      BY <1>2, <2>1, <2>2, <2>3
  <1> QED
    BY <1>3, <1>4

LEMMA IceTriesKeeps ==
    ASSUME BasicInv, NEW d \in Directions, IceTries(d)
    PROVE  BasicNext
  <1> DEFINE i == [conn.ice[d] EXCEPT !.state = "new"]
             n == [conn EXCEPT !.ice[d] = i]
  <1>0. /\ conn.recv # Absent /\ conn.ice[d].state = "lost" /\ line' = line
        /\ conn' = [conn EXCEPT !.ice[d].state = "new"]
    BY DEF IceTries, Becomes
  <1>1. /\ conn \in Connections /\ PathInv(conn, line) /\ StateSound(conn) /\ StateKept(conn)
        /\ conn.alive /\ conn.was /\ ~conn.first /\ conn.ice[d] \in Paths
        /\ conn.ice[d].loss # "none"
    BY <1>0, APath
  <1>2. conn' = n
    BY <1>0
  <1>3. /\ i \in Paths /\ i.state = "new" /\ i.loss = conn.ice[d].loss
        /\ i.handle = conn.ice[d].handle /\ i.strays = conn.ice[d].strays
    BY <1>1 DEF Paths
  <1> HIDE DEF i
  <1>4. /\ Rerouted(conn, n) /\ n.state = conn.state /\ n.first = conn.first
        /\ n.ice[d] = i /\ \A x \in Directions \ {d} : n.ice[x] = conn.ice[x]
    BY <1>1, <1>3, OnePathIs
  <1> HIDE DEF n
  <1>5. /\ n \in Connections
        /\ n.alive = conn.alive /\ n.channel = conn.channel /\ n.sid = conn.sid /\ n.recv = conn.recv
        /\ n.asks = conn.asks /\ n.was = conn.was
    BY <1>4 DEF Rerouted
  <1>6. i.loss = "late" => \/ i.handle # "none" \/ i.strays # {}
                           \/ RenegotiationOf(conn, line, d)
                           \/ conn.channel = "reconnecting" /\ ~conn.sid
    BY <1>0, <1>1, <1>3 DEF PathInv, LostIsOnItsWay
  <1>7. Framed(n, line) /\ LostIsOnItsWay(n, line)
    <2>1. Moved(conn, n, line, d)
      BY <1>1, <1>3, <1>4, <1>5, <1>6 DEF Moved
    <2> QED
      BY <1>0, <1>1, <2>1, OnePathKeeps
  <1>8. StateKept(n)
    <2>1. \A x \in Directions : n.ice[x].state = "lost" => n.ice[x] = conn.ice[x]
      BY <1>3, <1>4
    <2> QED
      BY <1>1, <1>4, <1>5, <2>1, Zenon DEF StateKept
  <1>9. ~AllFine(n)
    BY <1>1, <1>3, <1>4 DEF AllFine, Fine
  <1> QED
    BY <1>0, <1>2, <1>7, <1>8, <1>9 DEF BasicNext, PathInv, Steady, StateSound

\* A timeout of a path has fired.
LEMMA FiredIs ==
    ASSUME BasicInv, NEW d \in Directions, NEW kind \in {"restart", "recovery"}, NEW stray \in BOOLEAN,
           Pends(conn.ice[d], kind, stray)
    PROVE  LET n == [conn EXCEPT !.ice[d] = Fired(@, kind, stray)] IN
           /\ conn.recv # Absent /\ Rerouted(conn, n) /\ Steady(n, line)
           /\ n.ice[d].state = conn.ice[d].state /\ n.ice[d].loss = conn.ice[d].loss
           /\ \A x \in Directions \ {d} : n.ice[x] = conn.ice[x]
  <1> DEFINE i == Fired(conn.ice[d], kind, stray)
             n == [conn EXCEPT !.ice[d] = i]
  <1>1. conn \in Connections /\ Steady(conn, line)
    BY BasicIsTyped DEF BasicInv, PathInv
  <1>2. conn.recv # Absent
    <2>1. NewPaths[d].handle = "none" /\ NewPaths[d].strays = {}
      BY DEF NewPaths, NewIce
    <2>2. conn.recv = Absent => conn.ice = NewPaths
      BY <1>1 DEF Steady, Framed, PathSound
    <2> QED
      BY <2>1, <2>2 DEF Pends
  <1>3. conn.ice[d] \in Paths
    BY <1>1 DEF Connections
  <1>4. i \in Paths /\ i.state = conn.ice[d].state /\ i.loss = conn.ice[d].loss
    <2> DEFINE more == (conn.ice[d].strays \ {kind}) \cup ({conn.ice[d].handle} \ {"none"})
               some == IF stray THEN more ELSE conn.ice[d].strays
    <2>1. some \in SUBSET {"restart", "recovery"}
      BY <1>3 DEF Paths
    <2>2. i = [conn.ice[d] EXCEPT !.handle = "none", !.strays = some]
      BY DEF Fired
    <2> HIDE DEF some, i
    <2> QED
      BY <1>3, <2>1, <2>2 DEF Paths
  <1> HIDE DEF i
  <1>5. /\ Rerouted(conn, n) /\ n.state = conn.state /\ n.first = conn.first
        /\ n.ice[d] = i /\ \A x \in Directions \ {d} : n.ice[x] = conn.ice[x]
    BY <1>1, <1>4, OnePathIs
  <1>6. [conn EXCEPT !.ice[d] = Fired(@, kind, stray)] = n
    BY DEF i
  <1> HIDE DEF n
  <1>7. \A x \in Directions : n.ice[x].state = conn.ice[x].state /\ n.ice[x].loss = conn.ice[x].loss
    BY <1>4, <1>5
  <1>8. PathSound(n)
    BY <1>1, <1>2, <1>5, <1>7 DEF Steady, Framed, PathSound, Rerouted
  <1>9. Framed(n, line)
    BY <1>1, <1>5, <1>8, ReroutedKeeps
  <1>10. StateSound(n)
    <2>1. (AllFine(n) <=> AllFine(conn)) /\ (Settled(n) <=> Settled(conn))
      BY <1>5, <1>7, FineAgain DEF AllFine, Settled, Rerouted
    <2>2. /\ n.alive = conn.alive /\ n.channel = conn.channel /\ n.recv = conn.recv /\ n.was = conn.was
          /\ n.first = conn.first /\ n.state = conn.state
      BY <1>5 DEF Rerouted
    <2> QED
      BY <1>1, <1>7, <2>1, <2>2, Zenon DEF Steady, StateSound, StateKept
  <1> QED
    BY <1>2, <1>4, <1>5, <1>6, <1>9, <1>10 DEF Steady

\* A timeout that finds its path connected changes nothing else.
LEMMA FiredInTime ==
    ASSUME BasicInv, NEW d \in Directions, NEW n, Rerouted(conn, n), Steady(n, line),
           conn.recv # Absent, conn.ice[d].state = "connected",
           n.ice[d].state = conn.ice[d].state, n.ice[d].loss = conn.ice[d].loss,
           \A x \in Directions \ {d} : n.ice[x] = conn.ice[x]
    PROVE  PathInv(n, line)
  <1>1. PathInv(conn, line) /\ n.ice[d].loss = "none" /\ n.ice[d].state = "connected"
    BY APath
  <1>2. LostIsOnItsWay(n, line)
    <2>1. Moved(conn, n, line, d)
      BY <1>1 DEF Moved, Rerouted
    <2> QED
      BY <1>1, <2>1, OnePathKeeps
  <1> QED
    BY <1>2 DEF PathInv

LEMMA RestartTimeoutKeeps ==
    ASSUME BasicInv, NEW d \in Directions, NEW stray \in BOOLEAN, IceRestartTimeout(d, stray)
    PROVE  BasicNext
  <1> DEFINE n == [conn EXCEPT !.ice[d] = Fired(@, "restart", stray)]
  <1>1. /\ conn.recv # Absent /\ Rerouted(conn, n) /\ Steady(n, line)
        /\ n.ice[d].state = conn.ice[d].state /\ n.ice[d].loss = conn.ice[d].loss
        /\ \A x \in Directions \ {d} : n.ice[x] = conn.ice[x]
    BY FiredIs DEF IceRestartTimeout
  <1>2. /\ line' = line
        /\ conn' = IF conn.ice[d].state = "connected" THEN n ELSE Ask(n, d, Absent, conn.recv)
    BY DEF IceRestartTimeout, Becomes
  <1> HIDE DEF n
  <1>3. CASE conn.ice[d].state = "connected"
    BY <1>1, <1>2, <1>3, FiredInTime DEF BasicNext
  <1>4. CASE conn.ice[d].state # "connected"
    <2> DEFINE k == Ask(n, d, Absent, conn.recv)
               e == [what |-> d, try |-> Absent, id |-> conn.recv]
    <2>0. n \in Connections /\ n.recv = conn.recv /\ n.recv \in Transports /\ n.asks = conn.asks
      BY <1>1 DEF Rerouted, Connections
    <2>1. e \in Requested /\ Formed(e) /\ e \notin Builds
      BY <2>0 DEF Requested, Ids, Formed, Builds, Directions
    <2>2. k \in Connections /\ SamePath(n, k) /\ k.asks = Append(n.asks, e)
      BY <2>0, <2>1, AskIs
    <2>3. e.what = d /\ e.id = conn.recv
      OBVIOUS
    <2> HIDE DEF e, k
    <2>4. n.asks \in Seq(Requested) /\ Range(k.asks) = Range(n.asks) \cup {e}
      BY <2>0, <2>1, <2>2, AsksAreSeq, RangeOfAppend
    <2>5. /\ Lacks(n.asks, Builds) => Lacks(k.asks, Builds)
          /\ Once(n.asks, Builds) => Once(k.asks, Builds)
      BY <2>1, <2>2, <2>4, AppendOfSuch
    <2>6. WellFormed(k, line)
      BY <1>1, <2>1, <2>4 DEF Steady, Framed, WellFormed
    <2>7. ChannelSound(k, line) /\ OneSession(k, line) /\ PathSound(k)
      BY <1>1, <2>2, <2>5 DEF Steady, Framed, ChannelSound, OneSession, PathSound, SamePath
    <2>8. StateSound(k)
      BY <1>1, <2>2, StateStays DEF Steady, SamePath
    <2>9. LostIsOnItsWay(k, line)
      <3> SUFFICES ASSUME NEW x \in Directions, k.ice[x].loss = "late",
                          k.ice[x].handle = "none", k.ice[x].strays = {},
                          ~(k.channel = "reconnecting" /\ ~k.sid)
                   PROVE  RenegotiationOf(k, line, x)
        BY DEF LostIsOnItsWay
      <3>1. k.ice[x] = n.ice[x] /\ k.recv = conn.recv /\ k.channel = conn.channel /\ k.sid = conn.sid
        BY <1>1, <2>0, <2>2 DEF SamePath, Rerouted
      <3>2. CASE x = d
        BY <2>3, <2>4, <3>1, <3>2 DEF RenegotiationOf
      <3>3. CASE x # d
        <4>1. k.ice[x] = conn.ice[x]
          BY <1>1, <3>1, <3>3
        <4>2. RenegotiationOf(conn, line, x)
          BY <1>1, <3>1, <4>1 DEF BasicInv, PathInv, LostIsOnItsWay
        <4> QED
          BY <2>0, <2>4, <3>1, <4>2 DEF RenegotiationOf
      <3> QED
        BY <3>2, <3>3
    <2> QED
      BY <1>1, <1>2, <1>4, <2>2, <2>6, <2>7, <2>8, <2>9 DEF BasicNext, PathInv, Steady, Framed, k
  <1> QED
    BY <1>3, <1>4

\* The line when the channel is closed by the page.
LEMMA LineIsCut ==
    ASSUME BasicInv
    PROVE  (IF ChannelReady THEN <<>> ELSE line) = <<>>
  BY DEF BasicInv, PathInv, Steady, Framed, ChannelSound, ChannelReady

LEMMA RecoveryTimeoutKeeps ==
    ASSUME BasicInv, NEW d \in Directions, NEW stray \in BOOLEAN, IceRecoveryTimeout(d, stray)
    PROVE  BasicNext
  <1> DEFINE n == [conn EXCEPT !.ice[d] = Fired(@, "recovery", stray)]
  <1>1. /\ conn.recv # Absent /\ Rerouted(conn, n) /\ Steady(n, line)
        /\ n.ice[d].state = conn.ice[d].state /\ n.ice[d].loss = conn.ice[d].loss
        /\ \A x \in Directions \ {d} : n.ice[x] = conn.ice[x]
    BY FiredIs DEF IceRecoveryTimeout
  <1>2. CASE conn.ice[d].state = "connected"
    <2>1. conn' = n /\ line' = line
      BY <1>2 DEF IceRecoveryTimeout, Becomes
    <2> HIDE DEF n
    <2> QED
      BY <1>1, <1>2, <2>1, FiredInTime DEF BasicNext
  <1>3. CASE conn.ice[d].state # "connected"
    <2>1. conn' = ForceRebuild(n) /\ line' = IF ChannelReady THEN <<>> ELSE line
      BY <1>3 DEF IceRecoveryTimeout
    <2> HIDE DEF n
    <2> QED
      BY <1>1, <2>1, ForcedIs, LineIsCut DEF BasicNext
  <1> QED
    BY <1>2, <1>3

LEMMA RestEndsKeeps ==
    ASSUME BasicInv, NEW kind \in Rests, NEW consumes \in BOOLEAN, RestEnds(kind, consumes)
    PROVE  BasicNext
  <1> DEFINE q == conn.resting[kind] - 1
             m == [conn EXCEPT !.resting[kind] = q]
             n == Rested(m, consumes)
  <1>0. conn \in Connections /\ Steady(conn, line) /\ LostIsOnItsWay(conn, line)
    BY BasicIsTyped DEF BasicInv, PathInv
  <1>1. conn' = n /\ line' = line
    BY DEF RestEnds, Becomes
  <1>2. q \in Nat
    <2>1. conn.resting \in [Rests -> Nat] /\ conn.resting[kind] > 0
      BY <1>0 DEF RestEnds, Connections
    <2> QED
      BY <2>1
  <1> HIDE DEF q
  <1>3. /\ m \in Connections
        /\ m.alive = conn.alive /\ m.channel = conn.channel /\ m.sid = conn.sid /\ m.recv = conn.recv
        /\ m.ever = conn.ever /\ m.ice = conn.ice /\ m.first = conn.first /\ m.was = conn.was
        /\ m.state = conn.state /\ m.asks = conn.asks
    BY <1>0, <1>2, RestingIs
  <1> HIDE DEF m
  <1>4. Framed(m, line) /\ LostIsOnItsWay(m, line)
    BY <1>0, <1>3
       DEF Steady, Framed, WellFormed, ChannelSound, OneSession, PathSound, LostIsOnItsWay, RenegotiationOf
  <1>5. StateKept(m) /\ (m.first => ~m.was) /\ (m.recv # Absent => m.was)
    BY <1>0, <1>3, Zenon DEF Steady, StateSound, StateKept
  <1>6. StateSound(n) /\ Onward(m, n)
    <2>1. ChannelSound(m, line)
      BY <1>4 DEF Framed
    <2> QED
      BY <1>3, <1>5, <2>1, RestedIs
  <1> HIDE DEF n
  <1>7. Framed(n, line) /\ LostIsOnItsWay(n, line)
    BY <1>4, <1>6, OnwardKeeps
  <1> QED
    BY <1>1, <1>6, <1>7 DEF BasicNext, PathInv, Steady

LEMMA RebuildKeeps == BasicInv /\ RebuildTimeout => BasicNext
  <1> SUFFICES ASSUME BasicInv, RebuildTimeout PROVE BasicNext
    OBVIOUS
  <1> DEFINE n == [conn EXCEPT !.rebuild = FALSE]
  <1>0. conn \in Connections /\ Steady(conn, line)
    BY BasicIsTyped DEF BasicInv, PathInv
  <1>1. /\ n \in Connections /\ SamePath(conn, n) /\ n.asks = conn.asks
    BY <1>0 DEF Connections, SamePath
  <1>2. conn' = ForceRebuild(n) /\ line' = IF ChannelReady THEN <<>> ELSE line
    BY DEF RebuildTimeout
  <1> HIDE DEF n
  <1>3. Steady(n, line)
    <2>1. Framed(n, line)
      BY <1>0, <1>1
         DEF Steady, Framed, WellFormed, ChannelSound, OneSession, PathSound, SamePath
    <2>2. StateSound(n)
      BY <1>0, <1>1, StateStays DEF Steady, SamePath
    <2> QED
      BY <2>1, <2>2 DEF Steady
  <1> QED
    BY <1>2, <1>3, ForcedIs, LineIsCut DEF BasicNext

LEMMA EndKeeps ==
    ASSUME BasicInv, NEW final \in BOOLEAN, ConnectionEnds(final)
    PROVE  BasicNext
  <1> DEFINE r == ReleaseMedia(conn)
             none == <<>>
             rests == [x \in Rests |-> 0]
             news == IF final THEN r.announced ELSE {}
             says == IF final THEN "disconnected" ELSE r.state
             n == [r EXCEPT
        !.alive = FALSE, !.channel = "closed", !.asks = none,
        !.build = FALSE, !.rebuild = FALSE, !.resting = rests,
        !.announced = news, !.state = says]
  <1>0. conn \in Connections
    BY BasicIsTyped
  <1>1. r \in Connections /\ r.recv = Absent /\ r.ice = NewPaths
        /\ r.first = conn.first /\ r.was = conn.was
    BY <1>0, ReleasedIs
  <1>2. /\ none \in Seq(Messages) /\ none \in Seq(Requested)
        /\ Range(none) = {} /\ Lacks(none, Builds) /\ Once(none, Builds)
    BY EmptySeqs
  <1>3. conn' = n /\ line' = none
    BY DEF ConnectionEnds, Ended
  <1> HIDE DEF none, r
  <1>4. /\ news \in SUBSET Tracks
        /\ says \in {"connecting", "connected", "reconnecting", "failed", "blocked", "disconnected"}
        /\ rests \in [Rests -> Nat]
    BY <1>1 DEF Connections
  <1> HIDE DEF news, says, rests
  <1>5. n \in Connections
    <2> DEFINE k == [r EXCEPT !.alive = FALSE, !.channel = "closed", !.asks = none]
               j == [k EXCEPT !.build = FALSE, !.rebuild = FALSE, !.resting = rests]
               i == [j EXCEPT !.announced = news, !.state = says]
    <2>1. k \in Connections
      BY <1>1, <1>2, ZenonT(60) DEF Connections
    <2>2. n = i
      BY <1>1 DEF Connections
    <2> HIDE DEF k, n
    <2>3. j \in Connections
      BY <1>4, <2>1 DEF Connections
    <2> HIDE DEF j
    <2>4. i \in Connections
      BY <1>4, <2>3 DEF Connections
    <2> QED
      BY <2>2, <2>4
  <1>6. /\ n.alive = FALSE /\ n.channel = "closed" /\ n.asks = none
        /\ n.recv = Absent /\ n.ice = NewPaths /\ n.first = conn.first /\ n.was = conn.was
    BY <1>1 DEF Connections
  <1> HIDE DEF n
  <1>7. ChannelSound(n, none)
    BY <1>2, <1>6 DEF ChannelSound, none
  <1>8. WellFormed(n, none) /\ OneSession(n, none) /\ LostIsOnItsWay(n, none)
    BY <1>2, <1>6 DEF WellFormed, OneSession, LostIsOnItsWay
  <1>9. PathSound(n)
    BY <1>6, NewPathsAre DEF PathSound
  <1>10. StateSound(n)
    <2>1. conn.first => ~conn.was
      BY DEF BasicInv, PathInv, Steady, StateSound, StateKept
    <2> QED
      BY <1>6, <2>1, Zenon DEF StateSound, StateKept
  <1> QED
    BY <1>2, <1>3, <1>5, <1>7, <1>8, <1>9, <1>10 DEF BasicNext, PathInv, Steady, Framed

-----------------------------------------------------------------------------

LEMMA ServersTyped == srv \in Servers /\ SubscribingNext => srv' \in Servers
  <1> SUFFICES ASSUME srv \in Servers, SubscribingNext PROVE srv' \in Servers
    OBVIOUS
  <1>0. Silence \in [Consumers -> Tracks \cup {Absent}]
    BY DEF Silence
  <1>1. CASE ServerForgets \/ ServerHearsOfClose
    BY <1>0, <1>1 DEF ServerForgets, ServerHearsOfClose, Servers
  <1>2. ASSUME NEW t \in Transports, ServesTransport(t) PROVE srv' \in Servers
    BY <1>0, <1>2 DEF ServesTransport, Servers
  <1>3. ASSUME NEW c \in Consumers, ServesConsume(c) PROVE srv' \in Servers
    BY <1>3 DEF ServesConsume, Servers
  <1>4. ASSUME NEW t \in Tracks, TrackGoesOnAir(t) PROVE srv' \in Servers
    BY <1>4 DEF TrackGoesOnAir, Servers
  <1>5. ASSUME NEW t \in Tracks, TrackGoesOffAir(t) PROVE srv' \in Servers
    BY <1>5 DEF TrackGoesOffAir, Servers
  <1>6. ASSUME NEW c \in Consumers, BridgeFalls(c) PROVE srv' \in Servers
    BY <1>6 DEF BridgeFalls, Servers
  <1>7. CASE UNCHANGED srv
    BY <1>7
  <1>8. \/ ServerForgets \/ ServerHearsOfClose \/ UNCHANGED srv
        \/ \E t \in Transports : ServesTransport(t)
        \/ \E c \in Consumers : ServesConsume(c) \/ BridgeFalls(c)
        \/ \E t \in Tracks : TrackGoesOnAir(t) \/ TrackGoesOffAir(t)
    BY DEF SubscribingNext, ChannelOpens, ChannelFalls, ChannelReturns, Server, Received,
           AnswerTooLate, WaitedInVain, RetryTimeout, MakingEnds, MakingFails, IceConnects,
           IceFalls, IceTries, IceRestartTimeout, IceRecoveryTimeout, RestEnds, RebuildTimeout,
           ConnectionEnds, Becomes,
           ServesCaps, RefusesConsume, ServesResume, ServesIce, TrackAnnounced, TrackClosed,
           ConsumerClosed, ConsumeReturns, ResumeReturns, CapsReturn, TransportReturns,
           IceReturns, Receives
  <1> QED
    BY <1>1, <1>2, <1>3, <1>4, <1>5, <1>6, <1>7, <1>8

LEMMA BasicSteps == BasicInv /\ [SubscribingNext]_subscribingVars => BasicInv'
  <1> SUFFICES ASSUME BasicInv, SubscribingNext \/ UNCHANGED subscribingVars PROVE BasicInv'
    OBVIOUS
  <1>1. CASE UNCHANGED subscribingVars
    BY <1>1 DEF BasicInv, subscribingVars
  <1>2. CASE SubscribingNext
    <2>1. srv' \in Servers
      BY <1>2, ServersTyped DEF BasicInv
    <2>2. BasicNext
      <3>1. CASE Received
        BY <3>1, AnnouncedKeeps, ClosedKeeps, GoneKeeps, ConsumeReturnsKeeps, ResumeReturnsKeeps,
           CapsReturnKeeps, TransportReturnsKeeps, IceReturnsKeeps DEF Received
      <3>2. CASE \E t \in Tracks : TrackGoesOnAir(t) \/ TrackGoesOffAir(t) \/ RetryTimeout(t)
        BY <3>2, RoomKeepsPath, RetryKeeps
      <3>3. CASE \E e \in conn.making : MakingEnds(e) \/ MakingFails(e)
        BY <3>3, MakingKeeps
      <3>4. CASE \E d \in Directions : IceConnects(d) \/ IceFalls(d) \/ IceTries(d)
        BY <3>4, IceConnectsKeeps, IceFallsKeeps, IceTriesKeeps
      <3>5. CASE \E d \in Directions, stray \in BOOLEAN :
                    IceRestartTimeout(d, stray) \/ IceRecoveryTimeout(d, stray)
        BY <3>5, RestartTimeoutKeeps, RecoveryTimeoutKeeps
      <3>6. CASE \/ \E waits \in BOOLEAN : ChannelReturns(waits)
                 \/ \E kind \in Rests, consumes \in BOOLEAN : RestEnds(kind, consumes)
        BY <3>6, ReturnsKeeps, RestEndsKeeps
      <3> QED
        BY <1>2, <3>1, <3>2, <3>3, <3>4, <3>5, <3>6, OpensKeeps, FallsKeepsPath, ForgetsKeeps,
           ServerKeepsPath, TooLateKeeps, InVainKeeps, RoomKeepsPath, RebuildKeeps, EndKeeps
           DEF SubscribingNext
    <2> QED
      BY <2>1, <2>2 DEF BasicInv, BasicNext
  <1> QED
    BY <1>1, <1>2

LEMMA BasicHolds == SubscribingSpec => []BasicInv
  BY InitIsBasic, BasicSteps, PTL DEF SubscribingSpec

\* Whatever falls of a page's channel, session and two paths, and whenever: a path that
\* was lost after media flowed is never left so.
THEOREM LostMediaComesBack == SubscribingSpec => []LostMediaOnItsWayBack
  <1>1. BasicInv => LostMediaOnItsWayBack
    BY DEF BasicInv, PathInv, LostIsOnItsWay, RenegotiationOf, LostMediaOnItsWayBack
  <1> QED
    BY <1>1, BasicHolds, PTL

\* The page says that it is connected when it is, and only then, whichever of its two
\* paths fell and came back, in whatever order.
THEOREM StateIsTrue == SubscribingSpec => []StateTellsTheTruth
  <1>1. BasicInv => StateTellsTheTruth
    <2> SUFFICES ASSUME BasicInv PROVE StateTellsTheTruth
      OBVIOUS
    <2>1. StateSound(conn) /\ StateKept(conn) /\ ChannelSound(conn, line)
      BY DEF BasicInv, PathInv, Steady, Framed, StateSound
    <2>2. ASSUME Calm, conn.recv # Absent, \A d \in Directions : Fine(conn.ice[d])
          PROVE  conn.state \in {"connected", "blocked"}
      <3>1. conn.channel = "ready" /\ Settled(conn) /\ AllFine(conn)
        BY <2>2 DEF Calm, ChannelReady, Settled, AllFine
      <3>2. conn.alive /\ conn.was
        BY <2>1, <2>2, <3>1 DEF ChannelSound, StateKept
      <3> QED
        BY <2>1, <2>2, <3>1, <3>2 DEF StateSound, StateKept
    <2>3. ASSUME conn.alive, conn.state = "connected"
          PROVE  /\ ChannelReady /\ conn.recv # Absent
                 /\ \A d \in Directions : conn.ice[d].state = "lost" => conn.ice[d].loss = "early"
      BY <2>1, <2>3 DEF StateKept, ChannelReady
    <2> QED
      BY <2>2, <2>3 DEF StateTellsTheTruth
  <1> QED
    BY <1>1, BasicHolds, PTL

-----------------------------------------------------------------------------
(* MediaSubscribing: what is under way between the page and the server.       *)

\* The messages, and behind them the requests: what the page will hear of first
\* comes first.
Way(m, l) == l \o m.asks

Entry == Messages \cup Requested

Attempts == {e \in Entry : IsAttempt(e)}
AttemptOf(t) == {e \in Attempts : e.try.track = t}
PathRequests == {e \in Entry : e.what = "transport"}
GoneOf(c) == {e \in Messages : e.what = "gone" /\ e.id = c}
ResumedOf(c) == {e \in Messages : e.what = "resume" /\ e.ok /\ e.id = c}
AnnouncedOf(t) == {e \in Messages : e.what = "announced" /\ e.try.track = t}
ClosedOf(t) == {e \in Messages : e.what = "closed" /\ e.try.track = t}

Makes(m, t) == \E y \in m.making : y.try.track = t

\* Somebody is subscribing to t.
Under(m, w, t) == ~Lacks(w, AttemptOf(t)) \/ Makes(m, t)

\* One attempt a track, known to consuming, over the transport of now.
Booked(m, w) ==
    /\ \A t \in Tracks : Once(w, AttemptOf(t))
    /\ \A t \in Tracks : Makes(m, t) => Lacks(w, AttemptOf(t))
    /\ \A y, z \in m.making : y.try.track = z.try.track => y = z
    /\ Ordered(w, PathRequests, Attempts)
    /\ \A e \in Range(w) : IsAttempt(e) => e.try.via # Absent

Counted(m, w) ==
    m.recv # Absent =>
        /\ \A t \in Tracks : t \in m.consuming <=> Under(m, w, t)
        /\ \A e \in Range(w) : IsAttempt(e) => e.try.via = m.recv
        /\ \A y \in m.making : y.try.via = m.recv

\* Nothing is left of a transport that was released.
Released(m) ==
    m.recv = Absent =>
        /\ m.consuming = {} /\ m.making = {} /\ m.open = {} /\ m.shown = {} /\ m.retries = {}
        /\ \A t \in Tracks : m.consumers[t] = Absent

Held(m) ==
    /\ m.open = {m.consumers[t] : t \in Tracks} \ {Absent}
    /\ m.shown \subseteq m.open
    /\ \A t \in Tracks : m.consumers[t] # Absent =>
           t \in m.announced /\ (m.consumers[t] \in m.shown \/ t \in m.consuming)

\* An attempt waits for a track without a consumer, or for its own to be resumed.
Awaited(m, w) ==
    /\ \A e \in Range(w) : e.what = "consume" => m.consumers[e.try.track] = Absent
    /\ \A e \in Range(w) : e.what = "resume" => m.consumers[e.try.track] \in {Absent, e.id}
    /\ \A y \in m.making : m.consumers[y.try.track] = Absent

\* f says whose track a consumer is of.
Tagged(f, m, l, s) ==
    /\ f \in [Consumers -> Tracks \cup {Absent}]
    /\ \A e \in Range(l) : (e.what = "consume" /\ e.ok) \/ e.what \in {"resume", "gone"} =>
           f[e.id] = e.try.track
    /\ \A e \in Range(m.asks) : e.what = "resume" => f[e.id] = e.try.track
    /\ \A y \in m.making : f[y.id] = y.try.track
    /\ \A t \in Tracks : m.consumers[t] # Absent => f[m.consumers[t]] = t
    /\ \A c \in Consumers : s.consumers[c] # Absent => f[c] = s.consumers[c]

Resumable(m, l, s) ==
    /\ \A e \in Range(m.asks) : e.what = "resume" /\ m.recv # Absent =>
           \/ m.consumers[e.try.track] = e.id
           \/ e.try.track \notin m.announced
           \/ s.consumers[e.id] = Absent
    /\ \A e \in Range(l) : e.what = "resume" /\ e.ok /\ m.recv # Absent =>
           m.consumers[e.try.track] = e.id \/ e.try.track \notin m.announced
    /\ \A e \in Range(l) : e.what = "gone" => s.consumers[e.id] = Absent
    /\ \A c \in Consumers : Ordered(l, GoneOf(c), ResumedOf(c))

\* The page will hear that the server lost the consumer of t.
WillHear(m, l, t) ==
    \/ \E e \in Range(l) : \/ e.what = "gone" /\ e.id = m.consumers[t]
                           \/ e.what = "closed" /\ e.try.track = t
                           \/ e.what = "resume" /\ e.id = m.consumers[t] /\ ~e.ok
    \/ \E e \in Range(m.asks) : e.what = "resume" /\ e.id = m.consumers[t]

Agree(m, l, s) ==
    m.channel = "ready" =>
        \A t \in Tracks : m.consumers[t] # Absent =>
            s.consumers[m.consumers[t]] = t \/ WillHear(m, l, t)

RoomKnown(m, l, s) ==
    m.channel = "ready" =>
        \A t \in Tracks :
            t \in s.onAir <=> /\ t \in m.announced \/ ~Lacks(l, AnnouncedOf(t))
                              /\ Lacks(l, ClosedOf(t))

News(m, l, s) ==
    /\ \A t \in Tracks : ~Lacks(l, AnnouncedOf(t)) =>
           t \notin m.announced /\ ~Under(m, Way(m, l), t)
    /\ \A t \in Tracks : Once(l, AnnouncedOf(t))
    /\ \A t \in Tracks : Ordered(l, ClosedOf(t), AnnouncedOf(t))
    /\ \A t \in Tracks : Under(m, Way(m, l), t) => t \in m.announced \/ t \notin s.onAir

\* What the page knows of and does not hear has a chance, or had its last, but while a
\* session is being reconciled.
CoveredAt(m, t) == m.consumers[t] # Absent \/ t \in m.consuming \cup m.retries \cup m.gaveUp
Reconciled(m) == m.recv # Absent /\ m.resting["reconcile"] = 0
Covered(m) == Reconciled(m) => \A t \in m.announced : CoveredAt(m, t)

Shaped(m, l, s) == m \in Connections /\ l \in Seq(Messages) /\ s \in Servers /\ WellFormed(m, l)

\* All but Covered, which is restored at the end of a method.
Subs(f, m, l, s) ==
    /\ Shaped(m, l, s)
    /\ Booked(m, Way(m, l)) /\ Counted(m, Way(m, l)) /\ Released(m)
    /\ Held(m) /\ Awaited(m, Way(m, l)) /\ Tagged(f, m, l, s)
    /\ Resumable(m, l, s) /\ Agree(m, l, s)
    /\ RoomKnown(m, l, s) /\ News(m, l, s)

SubsInv == Covered(conn) /\ \E f \in [Consumers -> Tracks \cup {Absent}] : Subs(f, conn, line, srv)

-----------------------------------------------------------------------------

\* Nothing of v was not in w, nor in another order.
Thinner(w, v) ==
    /\ Range(v) \subseteq Range(w)
    /\ \A K : (Once(w, K) => Once(v, K)) /\ (Lacks(w, K) => Lacks(v, K))
    /\ \A A, B : Ordered(w, A, B) => Ordered(v, A, B)

LEMMA TailIsThinner ==
    ASSUME NEW S, NEW w \in Seq(S), w # <<>>
    PROVE  Thinner(w, Tail(w))
  <1>1. Range(Tail(w)) \subseteq Range(w)
    BY RangeOfTail
  <1>2. ASSUME NEW K PROVE (Once(w, K) => Once(Tail(w), K)) /\ (Lacks(w, K) => Lacks(Tail(w), K))
    BY TailOfSuch
  <1>3. ASSUME NEW A, NEW B, Ordered(w, A, B) PROVE Ordered(Tail(w), A, B)
    BY <1>3, TailOrdered
  <1> QED
    BY <1>1, <1>2, <1>3 DEF Thinner

LEMMA NothingIsThinner == ASSUME NEW w PROVE Thinner(w, <<>>)
  <1> DEFINE v == <<>>
  <1>1. \A i \in DOMAIN v : FALSE
    OBVIOUS
  <1>2. Range(v) = {}
    BY EmptyRange
  <1> HIDE DEF v
  <1>3. Thinner(w, v)
    BY <1>1, <1>2 DEF Thinner, Once, Lacks, Ordered
  <1> QED
    BY <1>3 DEF v

LEMMA LacksTail ==
    ASSUME NEW S, NEW w \in Seq(S), w # <<>>, NEW K
    PROVE  Lacks(w, K) <=> Lacks(Tail(w), K) /\ Head(w) \notin K
  <1>1. Range(w) = {Head(w)} \cup Range(Tail(w))
    BY RangeOfTail
  <1>2. (Lacks(w, K) <=> Range(w) \cap K = {}) /\ (Lacks(Tail(w), K) <=> Range(Tail(w)) \cap K = {})
    BY LacksIsRange
  <1> QED
    BY <1>1, <1>2

LEMMA LacksAppend ==
    ASSUME NEW S, NEW w \in Seq(S), NEW e \in S, NEW K
    PROVE  Lacks(Append(w, e), K) <=> Lacks(w, K) /\ e \notin K
  <1>1. Range(Append(w, e)) = Range(w) \cup {e}
    BY RangeOfAppend
  <1>2. (Lacks(w, K) <=> Range(w) \cap K = {}) /\ (Lacks(Append(w, e), K) <=> Range(Append(w, e)) \cap K = {})
    BY LacksIsRange
  <1> QED
    BY <1>1, <1>2

LEMMA LacksConcat ==
    ASSUME NEW S, NEW w \in Seq(S), NEW q \in Seq(S), NEW K
    PROVE  Lacks(w \o q, K) <=> Lacks(w, K) /\ Lacks(q, K)
  <1>1. Range(w \o q) = Range(w) \cup Range(q)
    BY RangeOfConcat
  <1>2. (Lacks(w, K) <=> Range(w) \cap K = {}) /\ (Lacks(q, K) <=> Range(q) \cap K = {})
        /\ (Lacks(w \o q, K) <=> Range(w \o q) \cap K = {})
    BY LacksIsRange
  <1> QED
    BY <1>1, <1>2

LEMMA TailOfConcat ==
    ASSUME NEW S, NEW l \in Seq(S), NEW a \in Seq(S), l # <<>>
    PROVE  l \o a # <<>> /\ Tail(l \o a) = Tail(l) \o a /\ Head(l \o a) = Head(l)
  <1>1. l \o a \in Seq(S) /\ Len(l \o a) = Len(l) + Len(a) /\ Len(l) \in Nat /\ Len(a) \in Nat /\ Len(l) > 0
    OBVIOUS
  <1>2. l \o a # <<>>
    BY <1>1
  <1>3. Head(l \o a) = Head(l)
    BY <1>1
  <1>4. Tail(l \o a) = Tail(l) \o a
    BY <1>1
  <1> QED
    BY <1>2, <1>3, <1>4

\* The first of a becomes e at the end of l.
LEMMA Answered ==
    ASSUME NEW S, NEW l \in Seq(S), NEW a \in Seq(S), a # <<>>, NEW e \in S
    PROVE  LET w == l \o a
               v == Append(l, e) \o Tail(a)
           IN  /\ v \in Seq(S) /\ w \in Seq(S) /\ DOMAIN w = DOMAIN v
               /\ \A i \in DOMAIN w : v[i] = w[i] \/ (w[i] = Head(a) /\ v[i] = e)
  <1>1. /\ Len(l) \in Nat /\ Len(a) \in Nat /\ Len(a) >= 1 /\ Tail(a) \in Seq(S) /\ Len(Tail(a)) = Len(a) - 1
        /\ Append(l, e) \in Seq(S) /\ Len(Append(l, e)) = Len(l) + 1 /\ Head(a) = a[1]
        /\ \A i \in 1 .. Len(a) - 1 : Tail(a)[i] = a[i + 1]
    OBVIOUS
  <1> DEFINE b == Append(l, e)
             t == Tail(a)
             w == l \o a
             v == b \o t
  <1>2. v \in Seq(S) /\ w \in Seq(S) /\ DOMAIN w = 1 .. Len(l) + Len(a) /\ DOMAIN v = 1 .. Len(b) + Len(t)
    BY <1>1
  <1>3. DOMAIN w = DOMAIN v
    BY <1>1, <1>2
  <1>4. ASSUME NEW i \in DOMAIN w, i <= Len(l) PROVE v[i] = w[i]
    BY <1>1, <1>2, <1>4
  <1>5. ASSUME NEW i \in DOMAIN w, i = Len(l) + 1 PROVE w[i] = Head(a) /\ v[i] = e
    BY <1>1, <1>2, <1>5
  <1>6. ASSUME NEW i \in DOMAIN w, i > Len(l) + 1 PROVE v[i] = w[i]
    <2>1. i - Len(b) \in 1 .. Len(t) /\ v[i] = t[i - Len(b)]
      BY <1>1, <1>2, <1>6
    <2>2. w[i] = a[i - Len(l)]
      BY <1>1, <1>2, <1>6
    <2>3. i - Len(b) = i - Len(l) - 1
      BY <1>1, <1>2
    <2>4. t[i - Len(b)] = a[i - Len(b) + 1]
      BY <1>1, <2>1
    <2> QED
      BY <1>1, <1>2, <2>1, <2>2, <2>3, <2>4
  <1> QED
    BY SMTT(30), <1>2, <1>3, <1>4, <1>5, <1>6, <1>1

LEMMA AnsweredKeeps ==
    ASSUME NEW S, NEW l \in Seq(S), NEW a \in Seq(S), a # <<>>, NEW e \in S
    PROVE  LET w == l \o a
               v == Append(l, e) \o Tail(a)
           IN  /\ \A K : (e \in K <=> Head(a) \in K) => (Once(w, K) => Once(v, K)) /\ (Lacks(w, K) <=> Lacks(v, K))
               /\ \A A, B : /\ e \in A <=> Head(a) \in A
                            /\ e \in B <=> Head(a) \in B
                            /\ Ordered(w, A, B)
                            => Ordered(v, A, B)
  <1> DEFINE w == l \o a
             v == Append(l, e) \o Tail(a)
  <1>1. DOMAIN w = DOMAIN v /\ \A i \in DOMAIN w : v[i] = w[i] \/ (w[i] = Head(a) /\ v[i] = e)
    BY Answered
  <1> HIDE DEF w, v
  <1>2. ASSUME NEW K, e \in K <=> Head(a) \in K
        PROVE  (Once(w, K) => Once(v, K)) /\ (Lacks(w, K) <=> Lacks(v, K))
    <2>1. \A i \in DOMAIN w : w[i] \in K <=> v[i] \in K
      BY <1>1, <1>2
    <2> QED
      BY <1>1, <2>1 DEF Once, Lacks
  <1>3. ASSUME NEW A, NEW B, e \in A <=> Head(a) \in A, e \in B <=> Head(a) \in B, Ordered(w, A, B)
        PROVE  Ordered(v, A, B)
    <2>1. \A i \in DOMAIN w : (w[i] \in A <=> v[i] \in A) /\ (w[i] \in B <=> v[i] \in B)
      BY <1>1, <1>3
    <2> QED
      BY <1>1, <1>3, <2>1 DEF Ordered
  <1> QED
    BY <1>2, <1>3 DEF w, v

\* A message comes between those on their way and the requests.
LEMMA Told ==
    ASSUME NEW S, NEW l \in Seq(S), NEW a \in Seq(S), NEW e \in S
    PROVE  LET w == l \o a
               v == Append(l, e) \o a
           IN  /\ Range(v) = Range(w) \cup {e}
               /\ \A K : e \notin K => (Once(w, K) => Once(v, K)) /\ (Lacks(w, K) <=> Lacks(v, K))
               /\ \A A, B : e \notin A \cup B /\ Ordered(w, A, B) => Ordered(v, A, B)
  <1> DEFINE b == Append(l, e)
             w == l \o a
             v == b \o a
  <1>1. /\ Len(l) \in Nat /\ Len(a) \in Nat
        /\ b \in Seq(S) /\ Len(b) = Len(l) + 1 /\ b[Len(b)] = e
        /\ \A i \in 1 .. Len(l) : b[i] = l[i]
    OBVIOUS
  <1>2. v \in Seq(S) /\ w \in Seq(S) /\ DOMAIN w = 1 .. Len(l) + Len(a) /\ DOMAIN v = 1 .. Len(b) + Len(a)
    BY <1>1
  <1>3. Range(v) = Range(w) \cup {e}
    <2>1. Range(b) = Range(l) \cup {e} /\ Range(w) = Range(l) \cup Range(a)
      BY RangeOfAppend, RangeOfConcat
    <2>2. Range(v) = Range(b) \cup Range(a)
      BY ZenonT(60), <1>1, RangeOfConcat
    <2> QED
      BY <2>1, <2>2
  <1> DEFINE Was(i) == IF i <= Len(l) THEN i ELSE i - 1
  <1>4. ASSUME NEW i \in DOMAIN v
        PROVE  \/ i = Len(l) + 1 /\ v[i] = e
               \/ i # Len(l) + 1 /\ Was(i) \in DOMAIN w /\ v[i] = w[Was(i)]
    <2>1. CASE i <= Len(l)
      BY <1>1, <1>2, <2>1
    <2>2. CASE i = Len(l) + 1
      BY <1>1, <1>2, <2>2
    <2>3. CASE i > Len(l) + 1
      <3>1. v[i] = a[i - Len(b)] /\ i - 1 \in DOMAIN w
        BY <1>1, <1>2, <2>3
      <3>2. w[i - 1] = a[i - 1 - Len(l)]
        BY <1>1, <1>2, <2>3
      <3>3. i - Len(b) = i - 1 - Len(l) /\ Was(i) = i - 1 /\ i # Len(l) + 1
        BY <1>1, <1>2, <2>3
      <3> QED
        BY <3>1, <3>2, <3>3
    <2> QED
      BY <1>1, <1>2, <2>1, <2>2, <2>3
  <1>5. \A i, j \in DOMAIN v : i \in Nat /\ j \in Nat
    BY <1>1, <1>2
  <1>6. \A i, j \in DOMAIN v : i # Len(l) + 1 /\ j # Len(l) + 1 =>
            /\ Was(i) = Was(j) => i = j
            /\ i < j => Was(i) < Was(j)
    BY <1>1, <1>5
  <1> HIDE DEF w, v, b, Was
  <1>7. ASSUME NEW K, e \notin K
        PROVE  (Once(w, K) => Once(v, K)) /\ (Lacks(w, K) <=> Lacks(v, K))
    <2>1. Once(w, K) => Once(v, K)
      BY <1>4, <1>6, <1>7 DEF Once
    <2>2. Lacks(w, K) <=> Lacks(v, K)
      <3>1. (Lacks(w, K) <=> Range(w) \cap K = {}) /\ (Lacks(v, K) <=> Range(v) \cap K = {})
        BY LacksIsRange
      <3> QED
        BY <3>1, <1>3, <1>7
    <2> QED
      BY <2>1, <2>2
  <1>8. ASSUME NEW A, NEW B, e \notin A \cup B, Ordered(w, A, B)
        PROVE  Ordered(v, A, B)
    BY <1>4, <1>6, <1>8 DEF Ordered
  <1> QED
    BY <1>3, <1>7, <1>8 DEF w, v, b

LEMMA WayIs ==
    ASSUME NEW m \in Connections, NEW l \in Seq(Messages)
    PROVE  /\ l \in Seq(Entry) /\ m.asks \in Seq(Entry) /\ m.asks \in Seq(Requested)
           /\ Way(m, l) \in Seq(Entry)
           /\ Range(Way(m, l)) = Range(l) \cup Range(m.asks)
           /\ Range(l) \subseteq Messages /\ Range(m.asks) \subseteq Requested
           /\ \A K : Lacks(Way(m, l), K) <=> Lacks(l, K) /\ Lacks(m.asks, K)
  <1>1. m.asks \in Seq(Requested)
    BY AsksAreSeq
  <1> DEFINE a == m.asks
  <1> HIDE DEF a
  <1>2. a \in Seq(Requested)
    BY <1>1 DEF a
  <1>3. l \in Seq(Entry) /\ a \in Seq(Entry)
    BY <1>2 DEF Entry
  <1>4. Range(l) \subseteq Messages /\ Range(a) \subseteq Requested
    BY <1>2 DEF Range
  <1>5. Way(m, l) = l \o a
    BY DEF Way, a
  <1>6. l \o a \in Seq(Entry) /\ Range(l \o a) = Range(l) \cup Range(a)
    BY <1>3, RangeOfConcat
  <1>7. \A K : Lacks(l \o a, K) <=> Lacks(l, K) /\ Lacks(a, K)
    BY <1>3, LacksConcat
  <1> QED
    BY <1>2, <1>3, <1>4, <1>5, <1>6, <1>7 DEF a

\* Lacks, by what is there.
LEMMA LacksIs ==
    ASSUME NEW w, Range(w) \subseteq Entry
    PROVE  /\ \A t : Lacks(w, AttemptOf(t)) <=> \A e \in Range(w) : ~(IsAttempt(e) /\ e.try.track = t)
           /\ Lacks(w, Attempts) <=> \A e \in Range(w) : ~IsAttempt(e)
  <1>1. \A K : Lacks(w, K) <=> Range(w) \cap K = {}
    BY LacksIsRange
  <1> QED
    BY <1>1 DEF AttemptOf, Attempts

\* There is less on its way, less being made, and fewer consumers held.
Less(m, l, k, g) ==
    /\ k \in Connections /\ g \in Seq(Messages)
    /\ Thinner(Way(m, l), Way(k, g)) /\ Thinner(l, g)
    /\ Range(k.asks) \subseteq Range(m.asks)
    /\ k.making \subseteq m.making
    /\ \A t \in Tracks : k.consumers[t] \in {m.consumers[t], Absent}

LEMMA LessKeeps ==
    ASSUME NEW f, NEW m, NEW l, NEW k, NEW g, NEW s, Subs(f, m, l, s), Less(m, l, k, g)
    PROVE  /\ Shaped(k, g, s)
           /\ Booked(k, Way(k, g)) /\ Awaited(k, Way(k, g)) /\ Tagged(f, k, g, s)
  <1> DEFINE w == Way(m, l)
             v == Way(k, g)
  <1>1. /\ k \in Connections /\ g \in Seq(Messages) /\ s \in Servers
        /\ Thinner(w, v) /\ Thinner(l, g) /\ Range(v) \subseteq Range(w) /\ Range(g) \subseteq Range(l)
        /\ Range(k.asks) \subseteq Range(m.asks) /\ k.making \subseteq m.making
        /\ \A t \in Tracks : k.consumers[t] \in {m.consumers[t], Absent}
    BY DEF Less, Thinner, Subs, Shaped
  <1>2. WellFormed(k, g)
    BY <1>1 DEF Subs, Shaped, WellFormed
  <1>3. /\ WellFormed(m, l) /\ m \in Connections /\ l \in Seq(Messages)
        /\ Booked(m, w) /\ Awaited(m, w) /\ Tagged(f, m, l, s)
    BY DEF Subs, Shaped
  <1>4. /\ \A e \in Range(w) : IsAttempt(e) => e.try.track \in Tracks
        /\ \A y \in m.making : y.try.track \in Tracks
    <2>1. Range(w) = Range(l) \cup Range(m.asks)
      BY <1>3, WayIs
    <2>2. \A e \in Range(w) : IsAttempt(e) => e.try \in Tries
      BY <1>3, <2>1 DEF WellFormed, Formed, IsAttempt
    <2>3. \A y \in m.making : y.try \in Tries
      BY <1>3 DEF Connections
    <2> QED
      BY <2>2, <2>3 DEF Tries
  <1> HIDE DEF w, v
  <1>5. Booked(k, v)
    <2>1. /\ \A t \in Tracks : Once(v, AttemptOf(t))
          /\ \A t \in Tracks : Makes(k, t) => Lacks(v, AttemptOf(t))
      BY <1>1, <1>3 DEF Booked, Makes, Thinner
    <2>2. /\ \A y, z \in k.making : y.try.track = z.try.track => y = z
          /\ \A e \in Range(v) : IsAttempt(e) => e.try.via # Absent
      BY <1>1, <1>3 DEF Booked
    <2>3. Ordered(v, PathRequests, Attempts)
      BY <1>1, <1>3 DEF Booked, Thinner
    <2> QED
      BY <2>1, <2>2, <2>3 DEF Booked
  <1>6. Awaited(k, v)
    <2>1. \A e \in Range(v) : e.what \in {"consume", "resume"} => e.try.track \in Tracks
      BY <1>1, <1>4 DEF IsAttempt
    <2>2. \A y \in k.making : k.consumers[y.try.track] = Absent
      BY <1>1, <1>3, <1>4 DEF Awaited
    <2> QED
      BY <1>1, <1>3, <2>1, <2>2 DEF Awaited
  <1>7. Tagged(f, k, g, s)
    <2>1. \A t \in Tracks : k.consumers[t] # Absent => k.consumers[t] = m.consumers[t]
      BY <1>1
    <2> QED
      BY <1>1, <1>3, <2>1 DEF Tagged
  <1> QED
    BY <1>1, <1>2, <1>5, <1>6, <1>7 DEF v, Shaped

LEMMA UntouchedIsThinner == ASSUME NEW w PROVE Thinner(w, w)
  BY DEF Thinner

\* What subscriptions are made of, but for the second chances.
SameSubs(m, n) ==
    /\ n.recv = m.recv /\ n.announced = m.announced /\ n.consumers = m.consumers
    /\ n.consuming = m.consuming /\ n.making = m.making /\ n.open = m.open
    /\ n.shown = m.shown

SameMedia(m, n) ==
    SameSubs(m, n) /\ n.retries = m.retries /\ n.gaveUp = m.gaveUp /\ n.resting = m.resting

LEMMA FrameOfSubs ==
    ASSUME NEW f, NEW m, NEW n, NEW l, NEW s, Subs(f, m, l, s), n \in Connections,
           SameSubs(m, n), n.asks = m.asks, n.channel = "ready" => m.channel = "ready",
           m.recv = Absent => n.retries = {}
    PROVE  Subs(f, n, l, s)
  <1> DEFINE w == Way(m, l)
  <1>1. Way(n, l) = w
    BY DEF Way
  <1>2. Shaped(n, l, s)
    BY DEF Subs, Shaped, WellFormed
  <1>3. Booked(n, w) /\ Counted(n, w) /\ Released(n) /\ Held(n) /\ Awaited(n, w)
    BY DEF SameSubs, Subs, Booked, Counted, Released, Held, Awaited, Makes, Under
  <1>4. Tagged(f, n, l, s) /\ Resumable(n, l, s)
    BY DEF SameSubs, Subs, Tagged, Resumable
  <1>5. Agree(n, l, s) /\ RoomKnown(n, l, s)
    BY DEF SameSubs, Subs, Agree, RoomKnown, WillHear
  <1>6. News(n, l, s)
    BY <1>1 DEF SameSubs, Subs, News, Under, Makes
  <1> QED
    BY <1>1, <1>2, <1>3, <1>4, <1>5, <1>6 DEF Subs

LEMMA FrameKeeps ==
    ASSUME NEW f, NEW m, NEW n, NEW l, NEW s, Subs(f, m, l, s), n \in Connections,
           SameMedia(m, n), n.asks = m.asks, n.channel = "ready" => m.channel = "ready"
    PROVE  Subs(f, n, l, s) /\ (Covered(m) => Covered(n))
  <1>1. SameSubs(m, n) /\ (m.recv = Absent => n.retries = {})
    BY DEF SameMedia, Subs, Released
  <1>2. Subs(f, n, l, s)
    BY <1>1, FrameOfSubs
  <1>3. Covered(m) => Covered(n)
    BY DEF SameMedia, SameSubs, Covered, Reconciled, CoveredAt
  <1> QED
    BY <1>2, <1>3

\* A request that is not about a subscription is added.
LEMMA AskKeeps ==
    ASSUME NEW f, NEW m, NEW n, NEW l, NEW s, Subs(f, m, l, s), n \in Connections,
           SameMedia(m, n), n.channel = "ready" => m.channel = "ready",
           NEW e \in Requested, Formed(e), ~IsAttempt(e), n.asks = Append(m.asks, e)
    PROVE  Subs(f, n, l, s) /\ (Covered(m) => Covered(n))
  <1> DEFINE a == m.asks
             w == Way(m, l)
             v == Way(n, l)
  <1>1. /\ m \in Connections /\ l \in Seq(Messages) /\ s \in Servers /\ WellFormed(m, l)
    BY DEF Subs, Shaped
  <1>2. /\ a \in Seq(Requested) /\ l \in Seq(Entry) /\ a \in Seq(Entry) /\ w \in Seq(Entry) /\ w = l \o a
        /\ Range(w) = Range(l) \cup Range(a) /\ e \in Entry
    BY <1>1, WayIs DEF Entry, Way
  <1> HIDE DEF a, w
  <1>3. v = Append(w, e)
    <2>1. v = l \o Append(a, e)
      BY DEF Way, a
    <2>2. l \o Append(a, e) = Append(l \o a, e)
      BY <1>2
    <2> QED
      BY <2>1, <2>2, <1>2
  <1>4. Range(n.asks) = Range(m.asks) \cup {e} /\ Range(v) = Range(w) \cup {e}
    <2>1. Range(Append(a, e)) = Range(a) \cup {e}
      BY <1>2, RangeOfAppend
    <2>2. Range(Append(w, e)) = Range(w) \cup {e}
      <3>1. w \in Seq(Entry) /\ e \in Entry
        BY <1>2
      <3> QED
        BY ONLY <3>1, RangeOfAppend
    <2> QED
      BY <2>1, <2>2, <1>3 DEF a
  <1>5. e \notin Attempts /\ \A t : e \notin AttemptOf(t)
    BY DEF Attempts, AttemptOf
  <1>6. \A t : /\ Once(w, AttemptOf(t)) => Once(v, AttemptOf(t))
               /\ Lacks(v, AttemptOf(t)) <=> Lacks(w, AttemptOf(t))
    <2> TAKE t
    <2> DEFINE K == AttemptOf(t)
    <2> HIDE DEF K
    <2>1. e \notin K
      BY <1>5 DEF K
    <2>2. Once(w, K) => Once(Append(w, e), K)
      BY <1>2, <2>1, AppendOfSuch
    <2>3. Lacks(Append(w, e), K) <=> Lacks(w, K)
      BY <1>2, <2>1, LacksAppend
    <2> QED
      BY <1>3, <2>2, <2>3 DEF K
  <1> HIDE DEF v
  <1>7. Shaped(n, l, s)
    BY <1>1, <1>4 DEF Shaped, WellFormed
  <1>8. Booked(n, v)
    <2>1. Booked(m, w)
      BY DEF Subs, w
    <2>2. Ordered(v, PathRequests, Attempts)
      BY <2>1, <1>2, <1>3, <1>5, AppendOrdered DEF Booked
    <2> QED
      BY <2>1, <2>2, <1>4, <1>6 DEF Booked, SameMedia, SameSubs, Makes
  <1>9. Counted(n, v) /\ Awaited(n, v)
    <2>1. Counted(m, w) /\ Awaited(m, w)
      BY DEF Subs, w
    <2>2. \A t : Under(n, v, t) <=> Under(m, w, t)
      BY <1>6 DEF Under, Makes, SameMedia, SameSubs
    <2> QED
      BY <2>1, <2>2, <1>4 DEF Counted, Awaited, SameMedia, SameSubs, IsAttempt
  <1>10. Released(n) /\ Held(n)
    BY DEF SameMedia, SameSubs, Subs, Released, Held
  <1>11. Tagged(f, n, l, s) /\ Resumable(n, l, s)
    BY <1>4 DEF SameMedia, SameSubs, Subs, Tagged, Resumable, IsAttempt
  <1>12. Agree(n, l, s) /\ RoomKnown(n, l, s)
    BY <1>4 DEF SameMedia, SameSubs, Subs, Agree, RoomKnown, WillHear
  <1>13. News(n, l, s)
    <2>1. News(m, l, s)
      BY DEF Subs
    <2>2. \A t : Under(n, Way(n, l), t) <=> Under(m, Way(m, l), t)
      BY <1>6 DEF Under, Makes, SameMedia, SameSubs, v, w
    <2> QED
      BY <2>1, <2>2 DEF News, SameMedia, SameSubs
  <1>14. Covered(m) => Covered(n)
    BY DEF SameMedia, SameSubs, Covered, Reconciled, CoveredAt
  <1> QED
    BY <1>7, <1>8, <1>9, <1>10, <1>11, <1>12, <1>13, <1>14 DEF Subs, v

\* A message is taken.
LEMMA TailIs ==
    ASSUME NEW f, NEW m, NEW l, NEW s, Subs(f, m, l, s), l # <<>>
    PROVE  LET w == Way(m, l)
               v == Way(m, Tail(l))
           IN  /\ Less(m, l, m, Tail(l))
               /\ v = Tail(w) /\ Head(w) = Head(l) /\ w # <<>>
               /\ w \in Seq(Entry) /\ v \in Seq(Entry) /\ Tail(l) \in Seq(Messages)
               /\ Range(w) = {Head(l)} \cup Range(v)
               /\ Range(l) = {Head(l)} \cup Range(Tail(l))
               /\ Head(l) \in Messages /\ Formed(Head(l)) /\ AnswerFormed(Head(l))
               /\ \A K : Lacks(w, K) <=> Lacks(v, K) /\ Head(l) \notin K
               /\ \A K : Lacks(l, K) <=> Lacks(Tail(l), K) /\ Head(l) \notin K
               /\ \A K : Head(l) \in K /\ Once(w, K) => Lacks(v, K)
               /\ \A K : Head(l) \in K /\ Once(l, K) => Lacks(Tail(l), K)
               /\ \A A, B : Head(l) \in A /\ Ordered(w, A, B) => Lacks(v, B)
               /\ \A A, B : Head(l) \in A /\ Ordered(l, A, B) => Lacks(Tail(l), B)
  <1> DEFINE w == Way(m, l)
             a == m.asks
             g == Tail(l)
             v == Way(m, g)
  <1>1. /\ m \in Connections /\ l \in Seq(Messages) /\ s \in Servers /\ WellFormed(m, l)
    BY DEF Subs, Shaped
  <1>2. /\ a \in Seq(Entry) /\ l \in Seq(Entry) /\ w \in Seq(Entry) /\ w = l \o a /\ v = g \o a
    BY <1>1, WayIs DEF Way
  <1>3. g \in Seq(Messages) /\ Range(l) = {Head(l)} \cup Range(g) /\ Head(l) \in Messages /\ Head(l) \in Range(l)
    BY <1>1, RangeOfTail
  <1>4. v \in Seq(Entry) /\ Head(l) \in Entry
    BY <1>1, <1>3, WayIs DEF Entry
  <1>5. Formed(Head(l)) /\ AnswerFormed(Head(l))
    BY <1>1, <1>3 DEF WellFormed
  <1> HIDE DEF a
  <1>6. w # <<>> /\ v = Tail(w) /\ Head(w) = Head(l)
    <2>1. l \o a # <<>> /\ Tail(l \o a) = Tail(l) \o a /\ Head(l \o a) = Head(l)
      BY <1>2, TailOfConcat
    <2> QED
      BY <2>1, <1>2
  <1> HIDE DEF w, v
  <1>7. Thinner(w, v) /\ Thinner(l, g)
    BY <1>1, <1>2, <1>6, TailIsThinner
  <1>8. Range(w) = {Head(w)} \cup Range(v)
    BY <1>2, <1>6, RangeOfTail
  <1>9. /\ \A K : Lacks(w, K) <=> Lacks(v, K) /\ Head(w) \notin K
        /\ \A K : Lacks(l, K) <=> Lacks(g, K) /\ Head(l) \notin K
    BY <1>1, <1>2, <1>6, LacksTail
  <1>10. /\ \A K : Head(w) \in K /\ Once(w, K) => Lacks(v, K)
         /\ \A K : Head(l) \in K /\ Once(l, K) => Lacks(g, K)
    BY <1>1, <1>2, <1>6, TailOfSuch
  <1>11. \A A, B : Head(w) \in A /\ Ordered(w, A, B) => Lacks(v, B)
    <2> TAKE A, B
    <2> HAVE Head(w) \in A /\ Ordered(w, A, B)
    <2> QED
      BY <1>2, <1>6, TailOrdered
  <1>12. \A A, B : Head(l) \in A /\ Ordered(l, A, B) => Lacks(g, B)
    <2> TAKE A, B
    <2> HAVE Head(l) \in A /\ Ordered(l, A, B)
    <2> QED
      BY <1>1, TailOrdered
  <1>13. Less(m, l, m, g)
    BY <1>1, <1>3, <1>7 DEF Less, w, v
  <1> QED
    BY <1>2, <1>3, <1>4, <1>5, <1>6, <1>8, <1>9, <1>10, <1>11, <1>12, <1>13 DEF w, v


\* An answer about the session or the path is taken.
LEMMA PathTaken ==
    ASSUME NEW f, NEW m, NEW l, NEW s, Subs(f, m, l, s), l # <<>>,
           Head(l).what \in {"caps", "transport"} \cup Directions
    PROVE  Subs(f, m, Tail(l), s)
  <1> DEFINE w == Way(m, l)
             g == Tail(l)
             v == Way(m, g)
             h == Head(l)
  <1>1. /\ Less(m, l, m, g)
        /\ Range(w) = {h} \cup Range(v) /\ Range(l) = {h} \cup Range(g)
        /\ \A K : Lacks(w, K) <=> Lacks(v, K) /\ h \notin K
        /\ \A K : Lacks(l, K) <=> Lacks(g, K) /\ h \notin K
    BY TailIs
  <1>2. h.what \in {"caps", "transport", "send", "recv"}
    BY DEF Directions
  <1> HIDE DEF g, h
  <1>3. Shaped(m, g, s) /\ Booked(m, v) /\ Awaited(m, v) /\ Tagged(f, m, g, s)
    BY <1>1, LessKeeps
  <1>4. Thinner(l, g)
    BY <1>1 DEF Less
  <1> HIDE DEF w, v
  <1>5. /\ \A t : Lacks(v, AttemptOf(t)) <=> Lacks(w, AttemptOf(t))
        /\ \A t : Lacks(g, AnnouncedOf(t)) <=> Lacks(l, AnnouncedOf(t))
        /\ \A t : Lacks(g, ClosedOf(t)) <=> Lacks(l, ClosedOf(t))
    <2>1. \A t : h \notin AttemptOf(t) /\ h \notin AnnouncedOf(t) /\ h \notin ClosedOf(t)
      BY <1>2 DEF AttemptOf, Attempts, IsAttempt, AnnouncedOf, ClosedOf
    <2> QED
      BY <1>1, <2>1
  <1>6. \A t : Under(m, v, t) <=> Under(m, w, t)
    BY <1>5 DEF Under
  <1>7. Counted(m, v)
    <2>1. Counted(m, w)
      BY DEF Subs, w
    <2> QED
      BY <2>1, <1>1, <1>6 DEF Counted
  <1>8. Resumable(m, g, s)
    <2>1. Resumable(m, l, s)
      BY DEF Subs
    <2>2. \A c \in Consumers : Ordered(g, GoneOf(c), ResumedOf(c))
      BY <2>1, <1>4 DEF Resumable, Thinner
    <2> QED
      BY <2>1, <2>2, <1>1 DEF Resumable
  <1>9. Agree(m, g, s)
    <2>1. Agree(m, l, s)
      BY DEF Subs
    <2>2. \A t : WillHear(m, l, t) => WillHear(m, g, t)
      BY <1>1, <1>2 DEF WillHear
    <2> QED
      BY <2>1, <2>2 DEF Agree
  <1>10. RoomKnown(m, g, s)
    BY <1>5 DEF Subs, RoomKnown
  <1>11. News(m, g, s)
    <2>1. News(m, l, s)
      BY DEF Subs
    <2>2. \A t \in Tracks : Once(g, AnnouncedOf(t)) /\ Ordered(g, ClosedOf(t), AnnouncedOf(t))
      BY <2>1, <1>4 DEF News, Thinner
    <2>3. \A t : Under(m, Way(m, g), t) <=> Under(m, Way(m, l), t)
      BY <1>6 DEF v, w
    <2> QED
      BY <2>1, <2>2, <2>3, <1>5 DEF News
  <1> QED
    BY <1>3, <1>7, <1>8, <1>9, <1>10, <1>11 DEF Subs, v, g


\* The server takes the first request, and answers it with e.
LEMMA ServedKeepsSubs ==
    ASSUME NEW f, NEW m, NEW n, NEW l, NEW s, Subs(f, m, l, s), n \in Connections,
           SameMedia(m, n), n.channel = "ready" => m.channel = "ready",
           m.asks # <<>>, n.asks = Tail(m.asks),
           NEW e \in Messages, Formed(e), AnswerFormed(e),
           e.what = Head(m.asks).what, e.try = Head(m.asks).try,
           e.what = "resume" => e.id = Head(m.asks).id /\ (e.ok <=> s.consumers[e.id] # Absent),
           e.what = "consume" /\ e.ok => f[e.id] = e.try.track
    PROVE  Subs(f, n, Append(l, e), s) /\ (Covered(m) => Covered(n))
  <1> DEFINE a == m.asks
             h == Head(a)
             w == Way(m, l)
             g == Append(l, e)
             v == Way(n, g)
  <1>1. /\ m \in Connections /\ l \in Seq(Messages) /\ s \in Servers /\ WellFormed(m, l)
    BY DEF Subs, Shaped
  <1>2. /\ a \in Seq(Requested) /\ l \in Seq(Entry) /\ a \in Seq(Entry) /\ w = l \o a
        /\ Range(w) = Range(l) \cup Range(a) /\ e \in Entry /\ a # <<>>
        /\ v = g \o n.asks /\ n.asks = Tail(a)
        /\ e.what = h.what /\ e.try = h.try
        /\ e.what = "resume" => e.id = h.id /\ (e.ok <=> s.consumers[e.id] # Absent)
    BY <1>1, WayIs DEF Entry, Way
  <1>3. g \in Seq(Messages) /\ Range(g) = Range(l) \cup {e}
    BY <1>1, RangeOfAppend
  <1>4. Range(v) = Range(g) \cup Range(n.asks)
    BY <1>3, WayIs
  <1> HIDE DEF a
  <1>5. Range(a) = {h} \cup Range(n.asks) /\ h \in Requested /\ h \in Range(a)
    <2>1. a \in Seq(Requested) /\ a # <<>>
      BY <1>2
    <2>2. Range(a) = {h} \cup Range(Tail(a)) /\ h \in Requested /\ h \in Range(a)
      BY ONLY <2>1, RangeOfTail
    <2> QED
      BY <2>2, <1>2
  <1>6. Formed(h) /\ h \in Entry
    BY <1>1, <1>5 DEF WellFormed, a, Entry
  <1>7. /\ \A K : (e \in K <=> h \in K) => (Once(w, K) => Once(v, K)) /\ (Lacks(w, K) <=> Lacks(v, K))
        /\ \A A, B : /\ e \in A <=> h \in A
                     /\ e \in B <=> h \in B
                     /\ Ordered(w, A, B)
                     => Ordered(v, A, B)
    <2> DEFINE u == l \o a
               z == Append(l, e) \o Tail(a)
    <2>1. /\ \A K : (e \in K <=> h \in K) => (Once(u, K) => Once(z, K)) /\ (Lacks(u, K) <=> Lacks(z, K))
          /\ \A A, B : /\ e \in A <=> h \in A
                       /\ e \in B <=> h \in B
                       /\ Ordered(u, A, B)
                       => Ordered(z, A, B)
      BY <1>2, AnsweredKeeps
    <2>2. w = u /\ v = z
      BY <1>2
    <2> HIDE DEF u, z, w, v
    <2> QED
      BY <2>1, <2>2
  <1>8. /\ \A t : e \in AttemptOf(t) <=> h \in AttemptOf(t)
        /\ e \in Attempts <=> h \in Attempts
        /\ e \in PathRequests <=> h \in PathRequests
        /\ IsAttempt(e) <=> IsAttempt(h)
    <2>1. IsAttempt(e) <=> IsAttempt(h)
      BY <1>2 DEF IsAttempt
    <2>2. (e \in Attempts <=> h \in Attempts) /\ (e \in PathRequests <=> h \in PathRequests)
      BY <1>2, <1>6, <2>1 DEF Attempts, PathRequests
    <2>3. e.try = h.try
      BY <1>2
    <2> QED
      BY <2>1, <2>2, <2>3 DEF AttemptOf
  <1>9. e.what \notin {"gone", "announced", "closed"}
    BY <1>2, <1>5 DEF Requested, Directions
  <1>10. /\ \A t : Lacks(v, AttemptOf(t)) <=> Lacks(w, AttemptOf(t))
         /\ \A t : Once(w, AttemptOf(t)) => Once(v, AttemptOf(t))
         /\ Ordered(w, PathRequests, Attempts) => Ordered(v, PathRequests, Attempts)
    BY <1>7, <1>8
  <1>11. \A t : e \notin AnnouncedOf(t) /\ e \notin ClosedOf(t)
    BY <1>9 DEF AnnouncedOf, ClosedOf
  <1>12. /\ \A t : Lacks(g, AnnouncedOf(t)) <=> Lacks(l, AnnouncedOf(t))
         /\ \A t : Lacks(g, ClosedOf(t)) <=> Lacks(l, ClosedOf(t))
         /\ \A t : Once(l, AnnouncedOf(t)) => Once(g, AnnouncedOf(t))
         /\ \A t : Ordered(l, ClosedOf(t), AnnouncedOf(t)) => Ordered(g, ClosedOf(t), AnnouncedOf(t))
    BY <1>1, <1>11, LacksAppend, AppendOfSuch, AppendOrdered
  <1> HIDE DEF h, g, w, v
  <1>13. Shaped(n, g, s)
    BY <1>1, <1>3, <1>5 DEF Shaped, WellFormed, a
  <1>25. \A x \in Range(v) : IsAttempt(x) => \E y \in Range(w) : IsAttempt(y) /\ y.try = x.try
    <2>1. \A x \in Range(v) : x \in Range(w) \/ x = e
      BY <1>2, <1>3, <1>4, <1>5
    <2>2. h \in Range(w) /\ h.try = e.try
      BY <1>2, <1>5
    <2> QED
      BY <2>1, <2>2, <1>8
  <1>14. Booked(n, v)
    <2>1. Booked(m, w)
      BY DEF Subs, w
    <2>2. \A x \in Range(v) : IsAttempt(x) => x.try.via # Absent
      BY <2>1, <1>25 DEF Booked
    <2> QED
      BY <2>1, <2>2, <1>10 DEF Booked, SameMedia, SameSubs, Makes
  <1>15. \A t : Under(n, v, t) <=> Under(m, w, t)
    BY <1>10 DEF Under, Makes, SameMedia, SameSubs
  <1>16. Counted(n, v)
    <2>1. Counted(m, w)
      BY DEF Subs, w
    <2>2. m.recv # Absent => \A x \in Range(v) : IsAttempt(x) => x.try.via = m.recv
      BY <2>1, <1>25 DEF Counted
    <2> QED
      BY <2>1, <2>2, <1>15 DEF Counted, SameMedia, SameSubs
  <1>17. Awaited(n, v)
    <2>1. Awaited(m, w)
      BY DEF Subs, w
    <2>2. \A x \in Range(v) : x \in Range(w) \/ x = e
      BY <1>2, <1>3, <1>4, <1>5
    <2>3. h \in Range(w)
      BY <1>2, <1>5
    <2>4. \A x \in Range(v) : x.what = "consume" => m.consumers[x.try.track] = Absent
      BY <2>1, <2>2, <2>3, <1>2 DEF Awaited
    <2>5. \A x \in Range(v) : x.what = "resume" => m.consumers[x.try.track] \in {Absent, x.id}
      BY <2>1, <2>2, <2>3, <1>2 DEF Awaited
    <2> QED
      BY <2>1, <2>4, <2>5 DEF Awaited, SameMedia, SameSubs
  <1>18. Released(n) /\ Held(n)
    BY DEF SameMedia, SameSubs, Subs, Released, Held
  <1>19. Tagged(f, n, g, s)
    <2>1. Tagged(f, m, l, s)
      BY DEF Subs
    <2>2. e.what = "resume" => f[e.id] = e.try.track
      BY <2>1, <1>2, <1>5 DEF Tagged, a
    <2>3. \A x \in Range(g) : (x.what = "consume" /\ x.ok) \/ x.what \in {"resume", "gone"} =>
           f[x.id] = x.try.track
      BY <2>1, <2>2, <1>3, <1>9 DEF Tagged
    <2>4. \A x \in Range(n.asks) : x.what = "resume" => f[x.id] = x.try.track
      BY <2>1, <1>5 DEF Tagged, a
    <2> QED
      BY <2>1, <2>3, <2>4 DEF Tagged, SameMedia, SameSubs
  <1>20. Resumable(n, g, s)
    <2>1. Resumable(m, l, s)
      BY DEF Subs
    <2>2. /\ \A x \in Range(n.asks) : x \in Range(m.asks)
          /\ h \in Range(m.asks)
      BY <1>5 DEF a
    <2>3. \A x \in Range(g) : x.what = "resume" /\ x.ok /\ m.recv # Absent =>
           m.consumers[x.try.track] = x.id \/ x.try.track \notin m.announced
      BY <2>1, <2>2, <1>2, <1>3 DEF Resumable
    <2>4. \A x \in Range(g) : x.what = "gone" => s.consumers[x.id] = Absent
      BY <2>1, <1>3, <1>9 DEF Resumable
    <2>5. ASSUME NEW c \in Consumers PROVE Ordered(g, GoneOf(c), ResumedOf(c))
      <3>1. CASE e \in ResumedOf(c)
        <4>1. s.consumers[c] # Absent
          BY <3>1, <1>2 DEF ResumedOf
        <4>2. Range(l) \cap GoneOf(c) = {}
          BY <4>1, <2>1 DEF Resumable, GoneOf
        <4>3. Lacks(l, GoneOf(c))
          BY <4>2, LacksIsRange
        <4> QED
          BY <4>3, <2>1, <1>1, AppendOrdered DEF Resumable, g
      <3>2. CASE e \notin ResumedOf(c)
        BY <3>2, <2>1, <1>1, AppendOrdered DEF Resumable, g
      <3> QED
        BY <3>1, <3>2
    <2> QED
      BY <2>1, <2>2, <2>3, <2>4, <2>5 DEF Resumable, SameMedia, SameSubs
  <1>21. Agree(n, g, s)
    <2>1. Agree(m, l, s) /\ Tagged(f, m, l, s)
      BY DEF Subs
    <2> SUFFICES ASSUME n.channel = "ready", NEW t \in Tracks, n.consumers[t] # Absent,
                        s.consumers[n.consumers[t]] # t
                 PROVE  WillHear(n, g, t)
      BY DEF Agree
    <2>2. m.consumers[t] = n.consumers[t] /\ WillHear(m, l, t) /\ f[m.consumers[t]] = t
      BY <2>1 DEF Agree, SameMedia, SameSubs, Tagged
    <2>3. CASE h.what = "resume" /\ h.id = m.consumers[t]
      <3>1. m.consumers[t] \in Consumers
        BY <1>1, <2>2 DEF Connections, SameMedia, SameSubs
      <3>2. s.consumers[m.consumers[t]] = Absent
        BY <2>1, <2>2, <3>1 DEF Tagged
      <3>3. ~e.ok /\ e.id = m.consumers[t] /\ e.what = "resume" /\ e \in Range(g)
        BY <2>3, <3>2, <1>2, <1>3
      <3> QED
        BY <3>3, <2>2 DEF WillHear
    <2>4. CASE ~(h.what = "resume" /\ h.id = m.consumers[t])
      <3>1. \A x \in Range(m.asks) : x \in Range(n.asks) \/ x = h
        BY <1>5 DEF a
      <3> QED
        BY <2>2, <2>4, <3>1, <1>3 DEF WillHear
    <2> QED
      BY <2>3, <2>4
  <1>22. RoomKnown(n, g, s)
    BY <1>12 DEF Subs, RoomKnown, SameMedia, SameSubs
  <1>23. News(n, g, s)
    <2>1. News(m, l, s)
      BY DEF Subs
    <2>2. \A t : Under(n, Way(n, g), t) <=> Under(m, Way(m, l), t)
      BY <1>15 DEF v, w
    <2> QED
      BY <2>1, <2>2, <1>12 DEF News, SameMedia, SameSubs
  <1>24. Covered(m) => Covered(n)
    BY DEF SameMedia, SameSubs, Covered, Reconciled, CoveredAt
  <1> QED
    BY <1>13, <1>14, <1>16, <1>17, <1>18, <1>19, <1>20, <1>21, <1>22, <1>23, <1>24 DEF Subs, v, g


-----------------------------------------------------------------------------
(* MediaSubscribing: the room, and what the page is told of it.               *)

\* What an event that is told, or is not since there is no channel, leaves alone.
Hears(m, l, g, s, e) ==
    /\ Shaped(m, g, s)
    /\ Booked(m, Way(m, g)) /\ Counted(m, Way(m, g)) /\ Awaited(m, Way(m, g))
    /\ \A t : Under(m, Way(m, g), t) <=> Under(m, Way(m, l), t)
    /\ Range(g) \subseteq Range(l) \cup {e} /\ Range(l) \subseteq Range(g)
    /\ g = Append(l, e) => e \in Range(g)
    /\ \A K : e \notin K => (Once(l, K) => Once(g, K)) /\ (Lacks(g, K) <=> Lacks(l, K))
    /\ \A K : Lacks(l, K) => Once(g, K)
    /\ \A A, B : Ordered(l, A, B) /\ (e \notin B \/ Lacks(l, A)) => Ordered(g, A, B)

LEMMA Heard ==
    ASSUME NEW f, NEW m, NEW l, NEW s, Subs(f, m, l, s),
           NEW e \in Messages, Formed(e), AnswerFormed(e), e.what \in {"announced", "closed", "gone"},
           NEW g \in {l, Append(l, e)}
    PROVE  Hears(m, l, g, s, e)
  <1> DEFINE a == m.asks
             w == Way(m, l)
             v == Way(m, g)
  <1>1. /\ m \in Connections /\ l \in Seq(Messages) /\ s \in Servers /\ WellFormed(m, l)
        /\ Booked(m, w) /\ Counted(m, w) /\ Awaited(m, w)
    BY DEF Subs, Shaped
  <1>2. /\ a \in Seq(Entry) /\ l \in Seq(Entry) /\ w = l \o a /\ v = g \o a /\ e \in Entry
    BY <1>1, WayIs DEF Way, Entry
  <1> HIDE DEF a
  <1>3. e \notin Attempts /\ e \notin PathRequests /\ ~IsAttempt(e) /\ \A t : e \notin AttemptOf(t)
    BY DEF Attempts, AttemptOf, IsAttempt, PathRequests
  <1>4. /\ Range(v) \subseteq Range(w) \cup {e}
        /\ \A K : e \notin K => (Once(w, K) => Once(v, K)) /\ (Lacks(v, K) <=> Lacks(w, K))
        /\ \A A, B : e \notin A \cup B /\ Ordered(w, A, B) => Ordered(v, A, B)
    <2>1. CASE g = l
      BY <2>1
    <2>2. CASE g = Append(l, e)
      <3> DEFINE u == l \o a
                 z == Append(l, e) \o a
      <3>1. /\ Range(z) = Range(u) \cup {e}
            /\ \A K : e \notin K => (Once(u, K) => Once(z, K)) /\ (Lacks(u, K) <=> Lacks(z, K))
            /\ \A A, B : e \notin A \cup B /\ Ordered(u, A, B) => Ordered(z, A, B)
        BY <1>2, Told
      <3>2. w = u /\ v = z
        BY <1>2, <2>2
      <3> HIDE DEF u, z, w, v
      <3> QED
        BY <3>1, <3>2
    <2> QED
      BY <2>1, <2>2
  <1>5. /\ Range(g) \subseteq Range(l) \cup {e} /\ Range(l) \subseteq Range(g) /\ g \in Seq(Messages)
        /\ g = Append(l, e) => e \in Range(g)
    <2>1. Append(l, e) \in Seq(Messages) /\ Range(Append(l, e)) = Range(l) \cup {e}
      BY <1>1, RangeOfAppend
    <2> QED
      BY <1>1, <2>1
  <1>6. \A K : e \notin K => (Once(l, K) => Once(g, K)) /\ (Lacks(g, K) <=> Lacks(l, K))
    <2> TAKE K
    <2> HAVE e \notin K
    <2>1. (Once(l, K) => Once(Append(l, e), K)) /\ (Lacks(Append(l, e), K) <=> Lacks(l, K))
      BY <1>1, LacksAppend, AppendOfSuch
    <2> QED
      BY <2>1
  <1>7. \A K : Lacks(l, K) => Once(g, K)
    BY <1>1, AppendOfSuch, LacksMeansOnce
  <1>8. \A A, B : Ordered(l, A, B) /\ (e \notin B \/ Lacks(l, A)) => Ordered(g, A, B)
    BY <1>1, AppendOrdered
  <1> HIDE DEF w, v
  <1>9. Shaped(m, g, s)
    BY <1>1, <1>5 DEF Shaped, WellFormed
  <1>10. Booked(m, v) /\ Awaited(m, v)
    BY <1>1, <1>3, <1>4 DEF Booked, Awaited, IsAttempt
  <1>11. \A t : Under(m, v, t) <=> Under(m, w, t)
    BY <1>3, <1>4 DEF Under
  <1>12. Counted(m, v)
    BY <1>1, <1>3, <1>4, <1>11 DEF Counted
  <1> QED
    BY <1>5, <1>6, <1>7, <1>8, <1>9, <1>10, <1>11, <1>12 DEF v, w, Hears

\* Who is not pending is not on the way to being heard.
LEMMA NewTrackIs ==
    ASSUME NEW f, Subs(f, conn, line, srv), NEW t \in Tracks, NewTrack(t)
    PROVE  /\ t \notin srv.onAir /\ t \notin conn.announced /\ t \notin conn.retries
           /\ ~Under(conn, Way(conn, line), t)
           /\ Lacks(line, AnnouncedOf(t)) /\ Lacks(line, ClosedOf(t))
           /\ conn.consumers[t] = Absent
  <1> DEFINE w == Way(conn, line)
  <1>1. /\ conn \in Connections /\ line \in Seq(Messages) /\ WellFormed(conn, line)
    BY DEF Subs, Shaped
  <1>2. /\ Range(w) = Range(line) \cup Range(conn.asks) /\ Range(w) \subseteq Entry
        /\ Range(line) \subseteq Messages
    BY <1>1, WayIs DEF Entry
  <1> HIDE DEF w
  <1>3. Absent \notin Tries
    BY SubscribingAssumption
  <1>4. \A e \in Range(w) : e.what \in {"consume", "resume", "announced", "closed"} => e.try.track # t
    <2> TAKE e \in Range(w)
    <2> HAVE e.what \in {"consume", "resume", "announced", "closed"}
    <2>1. e.try \in Tries
      BY <1>1, <1>2 DEF WellFormed, Formed
    <2> QED
      BY <2>1, <1>2, <1>3 DEF NewTrack, Pending
  <1>5. \A y \in conn.making : y.try.track # t
    <2> TAKE y \in conn.making
    <2>1. y.try \in Tries
      BY <1>1 DEF Connections
    <2> QED
      BY <2>1, <1>3 DEF NewTrack, Pending
  <1>6. ~Under(conn, w, t)
    BY <1>2, <1>4, <1>5, LacksIs DEF Under, Makes, IsAttempt
  <1>7. Range(line) \cap AnnouncedOf(t) = {} /\ Range(line) \cap ClosedOf(t) = {}
    BY <1>2, <1>4 DEF AnnouncedOf, ClosedOf
  <1>8. Lacks(line, AnnouncedOf(t)) /\ Lacks(line, ClosedOf(t))
    BY <1>7, LacksIsRange
  <1>9. t \notin srv.onAir /\ t \notin conn.announced /\ t \notin conn.retries
    BY DEF NewTrack
  <1>10. conn.consumers[t] = Absent
    BY <1>9 DEF Subs, Held
  <1> QED
    BY <1>6, <1>8, <1>9, <1>10 DEF w

LEMMA OnAirKeeps ==
    ASSUME NEW f, Subs(f, conn, line, srv), Covered(conn), NEW t \in Tracks, TrackGoesOnAir(t), srv' \in Servers
    PROVE  Subs(f, conn', line', srv') /\ Covered(conn')
  <1> DEFINE e == Event("announced", t, Absent)
             m == conn
             l == line
             g == line'
             s == srv
             r == srv'
  <1>1. /\ conn' = m /\ g = IF m.channel = "ready" THEN Append(l, e) ELSE l
        /\ NewTrack(t) /\ r = [s EXCEPT !.onAir = @ \cup {t}]
    BY DEF TrackGoesOnAir, Tell, ChannelReady
  <1>2. e \in Messages /\ Formed(e) /\ e.what = "announced" /\ e.try.track = t
    BY EventIs
  <1>3. AnswerFormed(e)
    BY <1>2 DEF AnswerFormed
  <1>4. /\ t \notin s.onAir /\ t \notin m.announced
        /\ ~Under(m, Way(m, l), t)
        /\ Lacks(l, AnnouncedOf(t)) /\ Lacks(l, ClosedOf(t))
    BY <1>1, NewTrackIs
  <1>5. s \in Servers /\ r.onAir = s.onAir \cup {t} /\ r.consumers = s.consumers /\ r.transport = s.transport
    BY <1>1 DEF Subs, Shaped, Servers
  <1>6. Subs(f, m, l, s) /\ g \in {l, Append(l, e)} /\ r \in Servers /\ conn' = m
    BY <1>1
  <1> HIDE DEF e, m, l, g, s, r
  <1>7. /\ Shaped(m, g, s)
        /\ Booked(m, Way(m, g)) /\ Counted(m, Way(m, g)) /\ Awaited(m, Way(m, g))
        /\ \A u : Under(m, Way(m, g), u) <=> Under(m, Way(m, l), u)
        /\ Range(g) \subseteq Range(l) \cup {e} /\ Range(l) \subseteq Range(g)
        /\ g = Append(l, e) => e \in Range(g)
        /\ \A K : e \notin K => (Once(l, K) => Once(g, K)) /\ (Lacks(g, K) <=> Lacks(l, K))
        /\ \A K : Lacks(l, K) => Once(g, K)
        /\ \A A, B : Ordered(l, A, B) /\ (e \notin B \/ Lacks(l, A)) => Ordered(g, A, B)
    <2>1. Hears(m, l, g, s, e)
      BY <1>2, <1>3, <1>6, Heard
    <2> QED
      BY <2>1 DEF Hears
  <1>8. Shaped(m, g, r)
    BY <1>6, <1>7 DEF Shaped
  <1>9. Released(m) /\ Held(m)
    BY <1>6 DEF Subs
  <1>10. Tagged(f, m, g, r)
    BY <1>2, <1>5, <1>6, <1>7 DEF Subs, Tagged
  <1>11. e \in AnnouncedOf(t) /\ \A u : e \notin ClosedOf(u) /\ (u # t => e \notin AnnouncedOf(u))
    BY <1>2 DEF AnnouncedOf, ClosedOf
  <1>12. \A c : e \notin ResumedOf(c)
    BY <1>2 DEF ResumedOf
  <1>13. Resumable(m, g, r)
    <2>1. Resumable(m, l, s)
      BY <1>6 DEF Subs
    <2>2. \A c \in Consumers : Ordered(g, GoneOf(c), ResumedOf(c))
      BY <2>1, <1>7, <1>12 DEF Resumable
    <2> QED
      BY <2>1, <2>2, <1>2, <1>5, <1>7 DEF Resumable
  <1>14. Agree(m, g, r)
    <2>1. Agree(m, l, s)
      BY <1>6 DEF Subs
    <2>2. \A u : WillHear(m, l, u) => WillHear(m, g, u)
      BY <1>7 DEF WillHear
    <2> QED
      BY <2>1, <2>2, <1>5 DEF Agree
  <1>15. RoomKnown(m, g, r)
    <2> SUFFICES ASSUME m.channel = "ready", NEW u \in Tracks
                 PROVE  u \in r.onAir <=> /\ u \in m.announced \/ ~Lacks(g, AnnouncedOf(u))
                                         /\ Lacks(g, ClosedOf(u))
      BY DEF RoomKnown
    <2>1. u \in s.onAir <=> /\ u \in m.announced \/ ~Lacks(l, AnnouncedOf(u))
                            /\ Lacks(l, ClosedOf(u))
      BY <1>6 DEF Subs, RoomKnown
    <2>2. g = Append(l, e)
      BY <1>1 DEF m, l, g
    <2>3. CASE u = t
      <3>1. ~Lacks(g, AnnouncedOf(t))
        BY <2>2, <1>7, <1>11, LacksIsRange
      <3>2. Lacks(g, ClosedOf(t))
        BY <1>4, <1>7, <1>11
      <3> QED
        BY <2>3, <3>1, <3>2, <1>5
    <2>4. CASE u # t
      BY <2>1, <2>4, <1>5, <1>7, <1>11
    <2> QED
      BY <2>3, <2>4
  <1>16. News(m, g, r)
    <2>1. News(m, l, s)
      BY <1>6 DEF Subs
    <2>2. \A u \in Tracks : Once(g, AnnouncedOf(u))
      BY <2>1, <1>4, <1>7, <1>11 DEF News
    <2>3. \A u \in Tracks : Ordered(g, ClosedOf(u), AnnouncedOf(u))
      BY <2>1, <1>4, <1>7, <1>11 DEF News
    <2>4. \A u \in Tracks : ~Lacks(g, AnnouncedOf(u)) => u \notin m.announced /\ ~Under(m, Way(m, g), u)
      BY <2>1, <1>4, <1>7, <1>11 DEF News
    <2>5. \A u \in Tracks : Under(m, Way(m, g), u) => u \in m.announced \/ u \notin r.onAir
      BY <2>1, <1>4, <1>5, <1>7 DEF News
    <2> QED
      BY <2>2, <2>3, <2>4, <2>5 DEF News
  <1>17. Subs(f, m, g, r)
    BY <1>7, <1>8, <1>9, <1>10, <1>13, <1>14, <1>15, <1>16 DEF Subs
  <1> QED
    BY <1>6, <1>17 DEF m, g, r


LEMMA OffAirKeeps ==
    ASSUME NEW f, Subs(f, conn, line, srv), Covered(conn), NEW t \in Tracks, TrackGoesOffAir(t), srv' \in Servers
    PROVE  Subs(f, conn', line', srv') /\ Covered(conn')
  <1> DEFINE e == Event("closed", t, Absent)
             m == conn
             l == line
             g == line'
             s == srv
             r == srv'
  <1>1. /\ conn' = m /\ g = IF m.channel = "ready" THEN Append(l, e) ELSE l
        /\ r = [s EXCEPT !.onAir = @ \ {t},
                         !.consumers = [c \in Consumers |-> IF @[c] = t THEN Absent ELSE @[c]]]
    BY DEF TrackGoesOffAir, Tell, ChannelReady
  <1>2. e \in Messages /\ Formed(e) /\ e.what = "closed" /\ e.try.track = t
    BY EventIs
  <1>3. AnswerFormed(e)
    BY <1>2 DEF AnswerFormed
  <1>4. Absent \notin Tracks
    BY SubscribingAssumption
  <1>5. /\ s \in Servers /\ r.onAir = s.onAir \ {t}
        /\ \A c \in Consumers : r.consumers[c] = IF s.consumers[c] = t THEN Absent ELSE s.consumers[c]
    BY <1>1 DEF Subs, Shaped, Servers
  <1>6. Subs(f, m, l, s) /\ g \in {l, Append(l, e)} /\ r \in Servers /\ conn' = m
    BY <1>1
  <1> HIDE DEF e, m, l, g, s, r
  <1>7. Hears(m, l, g, s, e)
    BY <1>2, <1>3, <1>6, Heard
  <1>8. Shaped(m, g, r)
    BY <1>6, <1>7 DEF Shaped, Hears
  <1>9. Released(m) /\ Held(m)
    BY <1>6 DEF Subs
  <1>20. /\ m \in Connections /\ WellFormed(m, l) /\ WellFormed(m, g)
    BY <1>6, <1>7 DEF Subs, Shaped, Hears
  <1>10. Tagged(f, m, g, r)
    <2>1. Tagged(f, m, l, s)
      BY <1>6 DEF Subs
    <2>2. \A x \in Range(g) : x \in Range(l) \/ x = e
      BY <1>7 DEF Hears
    <2>3. \A c \in Consumers : r.consumers[c] # Absent => f[c] = r.consumers[c]
      BY <2>1, <1>5 DEF Tagged
    <2> QED
      BY <2>1, <2>2, <2>3, <1>2 DEF Tagged
  <1>11. e \in ClosedOf(t) /\ \A u : e \notin AnnouncedOf(u) /\ (u # t => e \notin ClosedOf(u))
    BY <1>2 DEF AnnouncedOf, ClosedOf
  <1>12. \A c : e \notin ResumedOf(c)
    BY <1>2 DEF ResumedOf
  <1>13. Resumable(m, g, r)
    <2>1. Resumable(m, l, s)
      BY <1>6 DEF Subs
    <2>2. \A c \in Consumers : Ordered(g, GoneOf(c), ResumedOf(c))
      BY <2>1, <1>7, <1>12 DEF Resumable, Hears
    <2>3. \A x \in Range(m.asks) : x.what = "resume" => x.id \in Consumers
      BY <1>20 DEF WellFormed, Formed
    <2>4. \A x \in Range(g) : x.what = "gone" => x.id \in Consumers
      BY <1>20 DEF WellFormed, Formed
    <2>5. \A x \in Range(g) : x \in Range(l) \/ x = e
      BY <1>7 DEF Hears
    <2>6. \A x \in Range(g) : x.what = "gone" => r.consumers[x.id] = Absent
      BY <2>1, <2>4, <2>5, <1>2, <1>5 DEF Resumable
    <2>7. \A x \in Range(m.asks) : x.what = "resume" /\ m.recv # Absent =>
           \/ m.consumers[x.try.track] = x.id
           \/ x.try.track \notin m.announced
           \/ r.consumers[x.id] = Absent
      BY <2>1, <2>3, <1>5 DEF Resumable
    <2> QED
      BY <2>1, <2>2, <2>5, <2>6, <2>7, <1>2 DEF Resumable
  <1>14. Agree(m, g, r)
    <2>1. Agree(m, l, s)
      BY <1>6 DEF Subs
    <2> SUFFICES ASSUME m.channel = "ready", NEW u \in Tracks, m.consumers[u] # Absent,
                        r.consumers[m.consumers[u]] # u
                 PROVE  WillHear(m, g, u)
      BY DEF Agree
    <2>2. m.consumers[u] \in Consumers
      BY <1>20 DEF Connections
    <2>3. CASE u = t
      <3>1. g = Append(l, e)
        BY <1>1 DEF m, l, g
      <3>2. e \in Range(g)
        BY <3>1, <1>7 DEF Hears
      <3> QED
        BY <2>3, <3>2, <1>2 DEF WillHear
    <2>4. CASE u # t
      <3>1. s.consumers[m.consumers[u]] # u
        BY <2>2, <2>4, <1>5
      <3>2. WillHear(m, l, u)
        BY <2>1, <3>1 DEF Agree
      <3> QED
        BY <3>2, <1>7 DEF WillHear, Hears
    <2> QED
      BY <2>3, <2>4
  <1>15. RoomKnown(m, g, r)
    <2> SUFFICES ASSUME m.channel = "ready", NEW u \in Tracks
                 PROVE  u \in r.onAir <=> /\ u \in m.announced \/ ~Lacks(g, AnnouncedOf(u))
                                         /\ Lacks(g, ClosedOf(u))
      BY DEF RoomKnown
    <2>1. u \in s.onAir <=> /\ u \in m.announced \/ ~Lacks(l, AnnouncedOf(u))
                            /\ Lacks(l, ClosedOf(u))
      BY <1>6 DEF Subs, RoomKnown
    <2>2. g = Append(l, e)
      BY <1>1 DEF m, l, g
    <2>3. CASE u = t
      <3>1. ~Lacks(g, ClosedOf(t))
        BY <2>2, <1>7, <1>11, LacksIsRange DEF Hears
      <3> QED
        BY <2>3, <3>1, <1>5
    <2>4. CASE u # t
      BY <2>1, <2>4, <1>5, <1>7, <1>11 DEF Hears
    <2> QED
      BY <2>3, <2>4
  <1>16. News(m, g, r)
    <2>1. News(m, l, s)
      BY <1>6 DEF Subs
    <2>2. /\ \A u \in Tracks : Once(g, AnnouncedOf(u))
          /\ \A u \in Tracks : Ordered(g, ClosedOf(u), AnnouncedOf(u))
          /\ \A u \in Tracks : ~Lacks(g, AnnouncedOf(u)) => u \notin m.announced /\ ~Under(m, Way(m, g), u)
      BY <2>1, <1>7, <1>11 DEF News, Hears
    <2>5. \A u \in Tracks : Under(m, Way(m, g), u) => u \in m.announced \/ u \notin r.onAir
      BY <2>1, <1>5, <1>7 DEF News, Hears
    <2> QED
      BY <2>2, <2>5 DEF News
  <1>17. Subs(f, m, g, r)
    BY <1>7, <1>8, <1>9, <1>10, <1>13, <1>14, <1>15, <1>16 DEF Subs, Hears
  <1> QED
    BY <1>6, <1>17 DEF m, g, r

LEMMA BridgeFallKeeps ==
    ASSUME NEW f, Subs(f, conn, line, srv), Covered(conn), NEW c \in Consumers, BridgeFalls(c), srv' \in Servers
    PROVE  Subs(f, conn', line', srv') /\ Covered(conn')
  <1> DEFINE t == srv.consumers[c]
             e == Event("gone", t, c)
             m == conn
             l == line
             g == line'
             s == srv
             r == srv'
  <1>1. /\ conn' = m /\ g = IF m.channel = "ready" THEN Append(l, e) ELSE l
        /\ r = [s EXCEPT !.consumers[c] = Absent]
        /\ s.consumers[c] # Absent
    BY DEF BridgeFalls, Tell, ChannelReady
  <1>5. /\ s \in Servers /\ r.onAir = s.onAir /\ t \in Tracks /\ s.consumers[c] = t
        /\ \A d \in Consumers : r.consumers[d] = IF d = c THEN Absent ELSE s.consumers[d]
    BY <1>1 DEF Subs, Shaped, Servers
  <1> HIDE DEF t
  <1>2. e \in Messages /\ Formed(e) /\ e.what = "gone" /\ e.try.track = t /\ e.id = c
    BY <1>5, EventIs
  <1>3. AnswerFormed(e)
    BY <1>2 DEF AnswerFormed
  <1>6. Subs(f, m, l, s) /\ g \in {l, Append(l, e)} /\ r \in Servers /\ conn' = m
    BY <1>1
  <1> HIDE DEF e, m, l, g, s, r
  <1>7. Hears(m, l, g, s, e)
    BY <1>2, <1>3, <1>6, Heard
  <1>8. Shaped(m, g, r)
    BY <1>6, <1>7 DEF Shaped, Hears
  <1>9. Released(m) /\ Held(m)
    BY <1>6 DEF Subs
  <1>20. /\ m \in Connections /\ WellFormed(m, l) /\ WellFormed(m, g)
    BY <1>6, <1>7 DEF Subs, Shaped, Hears
  <1>21. \A x \in Range(g) : x \in Range(l) \/ x = e
    BY <1>7 DEF Hears
  <1>10. Tagged(f, m, g, r)
    <2>1. Tagged(f, m, l, s) /\ f[c] = t
      BY <1>1, <1>5, <1>6 DEF Subs, Tagged
    <2>3. \A d \in Consumers : r.consumers[d] # Absent => f[d] = r.consumers[d]
      BY <2>1, <1>5 DEF Tagged
    <2> QED
      BY <2>1, <2>3, <1>2, <1>21 DEF Tagged
  <1>11. \A u : e \notin AnnouncedOf(u) /\ e \notin ClosedOf(u)
    BY <1>2 DEF AnnouncedOf, ClosedOf
  <1>12. \A d : e \notin ResumedOf(d)
    BY <1>2 DEF ResumedOf
  <1>13. Resumable(m, g, r)
    <2>1. Resumable(m, l, s)
      BY <1>6 DEF Subs
    <2>2. \A d \in Consumers : Ordered(g, GoneOf(d), ResumedOf(d))
      BY <2>1, <1>7, <1>12 DEF Resumable, Hears
    <2>3. \A x \in Range(m.asks) : x.what = "resume" => x.id \in Consumers
      BY <1>20 DEF WellFormed, Formed
    <2>4. \A x \in Range(g) : x.what = "gone" => x.id \in Consumers
      BY <1>20 DEF WellFormed, Formed
    <2>6. \A x \in Range(g) : x.what = "gone" => r.consumers[x.id] = Absent
      BY <2>1, <2>4, <1>21, <1>2, <1>5 DEF Resumable
    <2>7. \A x \in Range(m.asks) : x.what = "resume" /\ m.recv # Absent =>
           \/ m.consumers[x.try.track] = x.id
           \/ x.try.track \notin m.announced
           \/ r.consumers[x.id] = Absent
      BY <2>1, <2>3, <1>5 DEF Resumable
    <2> QED
      BY <2>1, <2>2, <1>21, <2>6, <2>7, <1>2 DEF Resumable
  <1>14. Agree(m, g, r)
    <2>1. Agree(m, l, s)
      BY <1>6 DEF Subs
    <2> SUFFICES ASSUME m.channel = "ready", NEW u \in Tracks, m.consumers[u] # Absent,
                        r.consumers[m.consumers[u]] # u
                 PROVE  WillHear(m, g, u)
      BY DEF Agree
    <2>2. m.consumers[u] \in Consumers
      BY <1>20 DEF Connections
    <2>3. CASE m.consumers[u] = c
      <3>1. g = Append(l, e)
        BY <1>1 DEF m, l, g
      <3>2. e \in Range(g)
        BY <3>1, <1>7 DEF Hears
      <3> QED
        BY <2>3, <3>2, <1>2 DEF WillHear
    <2>4. CASE m.consumers[u] # c
      <3>1. s.consumers[m.consumers[u]] # u
        BY <2>2, <2>4, <1>5
      <3>2. WillHear(m, l, u)
        BY <2>1, <3>1 DEF Agree
      <3> QED
        BY <3>2, <1>7 DEF WillHear, Hears
    <2> QED
      BY <2>3, <2>4
  <1>15. RoomKnown(m, g, r)
    BY <1>5, <1>6, <1>7, <1>11 DEF Subs, RoomKnown, Hears
  <1>16. News(m, g, r)
    <2>1. News(m, l, s)
      BY <1>6 DEF Subs
    <2> QED
      BY <2>1, <1>5, <1>7, <1>11 DEF News, Hears
  <1>17. Subs(f, m, g, r)
    BY <1>7, <1>8, <1>9, <1>10, <1>13, <1>14, <1>15, <1>16 DEF Subs, Hears
  <1> QED
    BY <1>6, <1>17 DEF m, g, r


-----------------------------------------------------------------------------
(* MediaSubscribing: the server.                                              *)

\* The server has no consumer of this peer any more.
LEMMA SilenceKeeps ==
    ASSUME NEW f, NEW m, NEW l, NEW s, NEW r \in Servers, Subs(f, m, l, s),
           r.consumers = Silence, r.onAir = s.onAir,
           m.channel # "ready" \/ \A t \in Tracks : m.consumers[t] = Absent
    PROVE  Subs(f, m, l, r)
  <1>1. \A c \in Consumers : r.consumers[c] = Absent
    BY DEF Silence
  <1>2. WellFormed(m, l) /\ m \in Connections /\ l \in Seq(Messages)
    BY DEF Subs, Shaped
  <1>3. Shaped(m, l, r)
    BY DEF Subs, Shaped
  <1>4. Tagged(f, m, l, r)
    BY <1>1 DEF Subs, Tagged
  <1>5. Resumable(m, l, r)
    BY <1>1, <1>2 DEF Subs, Resumable, WellFormed, Formed
  <1>6. Agree(m, l, r)
    BY DEF Agree
  <1>7. RoomKnown(m, l, r) /\ News(m, l, r)
    BY DEF Subs, RoomKnown, News
  <1> QED
    BY <1>3, <1>4, <1>5, <1>6, <1>7 DEF Subs

\* The server has a new consumer, and the page does not know it yet.
LEMMA ConsumerKeeps ==
    ASSUME NEW f, Subs(f, conn, line, srv), NEW c \in Consumers, NewConsumer(c), NEW t \in Tracks
    PROVE  Subs([f EXCEPT ![c] = t], conn, line, [srv EXCEPT !.consumers[c] = t])
  <1> DEFINE m == conn
             l == line
             s == srv
             g == [f EXCEPT ![c] = t]
             r == [srv EXCEPT !.consumers[c] = t]
  <1>1. /\ Subs(f, m, l, s) /\ s \in Servers /\ m \in Connections /\ l \in Seq(Messages) /\ WellFormed(m, l)
        /\ f \in [Consumers -> Tracks \cup {Absent}]
    BY DEF Subs, Shaped, Tagged
  <1>2. /\ r \in Servers /\ r.onAir = s.onAir
        /\ \A d \in Consumers : r.consumers[d] = IF d = c THEN t ELSE s.consumers[d]
        /\ g \in [Consumers -> Tracks \cup {Absent}]
        /\ \A d \in Consumers : g[d] = IF d = c THEN t ELSE f[d]
    BY <1>1 DEF Servers
  <1>3. /\ \A e \in Range(l) \cup Range(m.asks) \cup m.making : e.id # c
        /\ c \notin m.open
    BY DEF NewConsumer, Pending
  <1> HIDE DEF m, l, s, g, r
  <1>4. \A u \in Tracks : m.consumers[u] # Absent => m.consumers[u] # c /\ m.consumers[u] \in Consumers
    BY <1>1, <1>3 DEF Subs, Held, Connections
  <1>5. /\ \A e \in Range(l) : (e.what = "consume" /\ e.ok) \/ e.what \in {"resume", "gone"} => e.id \in Consumers
        /\ \A e \in Range(m.asks) : e.what = "resume" => e.id \in Consumers
        /\ \A y \in m.making : y.id \in Consumers
    BY <1>1 DEF WellFormed, Formed, AnswerFormed, Connections
  <1>6. Shaped(m, l, r)
    BY <1>1, <1>2 DEF Shaped
  <1>7. Tagged(g, m, l, r)
    <2>1. Tagged(f, m, l, s)
      BY <1>1 DEF Subs
    <2>2. \A d \in Consumers : r.consumers[d] # Absent => g[d] = r.consumers[d]
      BY <2>1, <1>2 DEF Tagged
    <2>3. \A u \in Tracks : m.consumers[u] # Absent => g[m.consumers[u]] = u
      BY <2>1, <1>2, <1>4 DEF Tagged
    <2>4. \A e \in Range(l) : (e.what = "consume" /\ e.ok) \/ e.what \in {"resume", "gone"} => g[e.id] = e.try.track
      BY <2>1, <1>2, <1>3, <1>5 DEF Tagged
    <2>5. /\ \A e \in Range(m.asks) : e.what = "resume" => g[e.id] = e.try.track
          /\ \A y \in m.making : g[y.id] = y.try.track
      BY <2>1, <1>2, <1>3, <1>5 DEF Tagged
    <2> QED
      BY <2>2, <2>3, <2>4, <2>5, <1>2 DEF Tagged
  <1>8. Resumable(m, l, r)
    <2>1. Resumable(m, l, s)
      BY <1>1 DEF Subs
    <2> QED
      BY <2>1, <1>2, <1>3, <1>5 DEF Resumable
  <1>9. Agree(m, l, r)
    <2>1. Agree(m, l, s)
      BY <1>1 DEF Subs
    <2> QED
      BY <2>1, <1>2, <1>4 DEF Agree
  <1>10. RoomKnown(m, l, r) /\ News(m, l, r)
    BY <1>1, <1>2 DEF Subs, RoomKnown, News
  <1>11. Subs(g, m, l, r)
    BY <1>1, <1>6, <1>7, <1>8, <1>9, <1>10 DEF Subs
  <1> QED
    BY <1>11 DEF m, l, g, r

\* The invariant of the next state.
SubsNext ==
    /\ Covered(conn')
    /\ \E f \in [Consumers -> Tracks \cup {Absent}] : Subs(f, conn', line', srv')

\* Some answer to the first request is on its way.
LEMMA AnswerKeepsSubs ==
    ASSUME NEW f, Subs(f, conn, line, srv'), Covered(conn), NEW what, Serves(what),
           NEW ok \in BOOLEAN, NEW id \in Ids, Answer(ok, id),
           what = "resume" => id = Head(conn.asks).id /\ (ok <=> srv'.consumers[id] # Absent),
           what \in Directions => id = Head(conn.asks).id,
           what = "consume" /\ ok => id \in Consumers /\ f[id] = Head(conn.asks).try.track,
           what = "transport" /\ ok => id \in Transports
    PROVE  SubsNext
  <1> DEFINE m == conn
             n == conn'
             h == Head(m.asks)
             e == Says(h.what, ok, h.try, id)
             s == srv'
  <1>1. /\ m \in Connections /\ WellFormed(m, line) /\ m.asks # <<>> /\ n = [m EXCEPT !.asks = Tail(@)]
        /\ h.what = what /\ line' = Append(line, e)
    BY DEF Subs, Shaped, Serves, Answer
  <1>2. h \in Requested /\ Tail(m.asks) \in Seq(Requested) /\ Formed(h)
    <2>1. m.asks \in Seq(Requested)
      BY <1>1, AsksAreSeq
    <2>2. h \in Range(m.asks) /\ h \in Requested /\ Tail(m.asks) \in Seq(Requested)
      BY <1>1, <2>1, RangeOfTail
    <2> QED
      BY <2>2, <1>1 DEF WellFormed
  <1>3. n \in Connections /\ SameMedia(m, n) /\ n.channel = m.channel /\ n.resting = m.resting /\ n.asks = Tail(m.asks)
    BY <1>1, <1>2 DEF Connections, SameMedia, SameSubs
  <1>4. e.what = h.what /\ e.ok = ok /\ e.try = h.try /\ e.id = id
    BY DEF Says
  <1>5. e \in Messages
    BY <1>2 DEF Says, Messages, Requested
  <1> HIDE DEF e, n, s, h
  <1>6. Formed(e) /\ AnswerFormed(e)
    <2>1. h.what = what
      BY <1>1
    <2>2. what = "resume" => id = h.id
      BY DEF h, m
    <2>3. what \in Directions => id = h.id
      BY DEF h, m
    <2> QED
      BY <1>2, <1>4, <2>1, <2>2, <2>3 DEF Formed, AnswerFormed, Requested
  <1>7. /\ e.what = "resume" => e.id = h.id /\ (e.ok <=> s.consumers[e.id] # Absent)
        /\ e.what = "consume" /\ e.ok => f[e.id] = e.try.track
    BY <1>1, <1>4 DEF h, m, s
  <1>8. Subs(f, m, line, s)
    BY DEF s
  <1> HIDE DEF m
  <1>9. Subs(f, n, Append(line, e), s) /\ (Covered(m) => Covered(n))
    <2>1. /\ e.what = Head(m.asks).what /\ e.try = Head(m.asks).try
          /\ e.what = "resume" => e.id = Head(m.asks).id /\ (e.ok <=> s.consumers[e.id] # Absent)
          /\ e.what = "consume" /\ e.ok => f[e.id] = e.try.track
      BY <1>4, <1>7 DEF h
    <2>2. n.channel = "ready" => m.channel = "ready"
      BY <1>3
    <2>3. n \in Connections /\ SameMedia(m, n) /\ m.asks # <<>> /\ n.asks = Tail(m.asks)
      BY <1>1, <1>3
    <2> QED
      BY ONLY <2>1, <2>2, <2>3, <1>5, <1>6, <1>8, ServedKeepsSubs
  <1>10. f \in [Consumers -> Tracks \cup {Absent}]
    BY <1>8 DEF Subs, Tagged
  <1> QED
    BY <1>1, <1>9, <1>10 DEF SubsNext, n, s, m


\* Nothing is left of the consumers while there is no transport.
LEMMA NoConsumers ==
    ASSUME NEW f, NEW m, NEW l, NEW s, Subs(f, m, l, s), m.recv = Absent
    PROVE  \A t \in Tracks : m.consumers[t] = Absent
  BY DEF Subs, Released

LEMMA ServerKeepsSubs ==
    ASSUME NEW f, Subs(f, conn, line, srv), Covered(conn), BasicInv, Server, srv' \in Servers
    PROVE  SubsNext
  <1>0. /\ conn \in Connections /\ srv \in Servers /\ WellFormed(conn, line)
        /\ f \in [Consumers -> Tracks \cup {Absent}]
    BY DEF Tagged, Subs, Shaped
  <1>8. Absent \in Ids /\ Transports \subseteq Ids /\ Consumers \subseteq Ids
    BY DEF Ids
  <1>1. ASSUME NEW what, Serves(what)
        PROVE  /\ Head(conn.asks) \in Requested /\ Formed(Head(conn.asks)) /\ Head(conn.asks).what = what
               /\ Head(conn.asks) \in Range(conn.asks) /\ conn.channel = "ready"
               /\ Head(conn.asks).id \in Ids
    <2>1. conn.asks \in Seq(Requested) /\ conn.asks # <<>>
      BY <1>0, <1>1, AsksAreSeq DEF Serves
    <2>2. Head(conn.asks) \in Range(conn.asks) /\ Head(conn.asks) \in Requested
      BY <2>1, RangeOfTail
    <2> QED
      BY <1>0, <1>1, <2>2 DEF WellFormed, Serves, Requested, ChannelReady
  <1>2. CASE ServesCaps
    <2>1. Serves("caps") /\ Answer(TRUE, Absent) /\ srv' = srv
      BY <1>2 DEF ServesCaps
    <2>2. Subs(f, conn, line, srv')
      BY <2>1
    <2>3. PICK b \in BOOLEAN : b = TRUE
      OBVIOUS
    <2>4. Answer(b, Absent)
      BY <2>1, <2>3
    <2> QED
      BY <2>1, <2>2, <2>4, AnswerKeepsSubs, <1>8 DEF Directions
  <1>3. ASSUME NEW t \in Transports, ServesTransport(t) PROVE SubsNext
    <2>1. /\ Serves("transport") /\ Answer(TRUE, t)
          /\ srv' = [srv EXCEPT !.transport = t, !.consumers = Silence]
      BY <1>3 DEF ServesTransport
    <2>2. srv'.consumers = Silence /\ srv'.onAir = srv.onAir
      BY <1>0, <2>1 DEF Servers
    <2>3. Head(conn.asks) \in Builds /\ Head(conn.asks) \in Range(conn.asks)
      BY <1>1, <2>1 DEF Builds
    <2>4. ~Lacks(conn.asks, Builds)
      BY <2>3, LacksIsRange
    <2>5. conn.recv = Absent
      BY <2>4 DEF BasicInv, PathInv, Steady, Framed, OneSession
    <2>6. \A u \in Tracks : conn.consumers[u] = Absent
      BY <2>5, NoConsumers
    <2>7. Subs(f, conn, line, srv')
      BY <2>2, <2>6, SilenceKeeps
    <2>8. PICK b \in BOOLEAN : b = TRUE
      OBVIOUS
    <2>9. Answer(b, t)
      BY <2>1, <2>8
    <2> QED
      BY <2>1, <2>7, <2>9, AnswerKeepsSubs, <1>8 DEF Directions
  <1>4. ASSUME NEW c \in Consumers, ServesConsume(c) PROVE SubsNext
    <2> DEFINE try == Head(conn.asks).try
               ok == try.via = srv.transport /\ try.track \in srv.onAir
    <2>1. /\ Serves("consume") /\ NewConsumer(c)
          /\ srv' = IF ok THEN [srv EXCEPT !.consumers[c] = try.track] ELSE srv
          /\ Answer(ok, IF ok THEN c ELSE Absent)
      BY <1>4 DEF ServesConsume
    <2>2. try \in Tries
      BY <1>1, <2>1 DEF Formed
    <2>3. try.track \in Tracks
      BY <2>2 DEF Tries
    <2>4. PICK b \in BOOLEAN : b = ok
      OBVIOUS
    <2>5. CASE ok
      <3> DEFINE g == [f EXCEPT ![c] = try.track]
                 r == [srv EXCEPT !.consumers[c] = try.track]
      <3>1. Subs(g, conn, line, r)
        BY <2>1, <2>3, ConsumerKeeps
      <3>2. g[c] = try.track
        BY <1>0
      <3> HIDE DEF g, r
      <3>3. srv' = r
        BY <2>1, <2>5 DEF r
      <3>4. Answer(b, c) /\ b = TRUE
        BY <2>1, <2>4, <2>5
      <3>5. Subs(g, conn, line, srv') /\ g[c] = Head(conn.asks).try.track
        BY <3>1, <3>2, <3>3
      <3> HIDE DEF ok, try
      <3> QED
        BY <2>1, <3>4, <3>5, AnswerKeepsSubs, <1>8 DEF Directions
    <2>6. CASE ~ok
      <3>1. srv' = srv /\ Answer(b, Absent) /\ b = FALSE
        BY <2>1, <2>4, <2>6
      <3> HIDE DEF ok, try
      <3> QED
        BY <2>1, <3>1, AnswerKeepsSubs, <1>8 DEF Directions
    <2> QED
      BY <2>5, <2>6
  <1>5. CASE RefusesConsume
    <2>1. Serves("consume") /\ Answer(FALSE, Absent) /\ srv' = srv
      BY <1>5 DEF RefusesConsume
    <2>2. Subs(f, conn, line, srv')
      BY <2>1
    <2>3. PICK b \in BOOLEAN : b = FALSE
      OBVIOUS
    <2>4. Answer(b, Absent) /\ ~b
      BY <2>1, <2>3
    <2> QED
      BY <2>1, <2>2, <2>4, AnswerKeepsSubs, <1>8 DEF Directions
  <1>6. CASE ServesResume
    <2> DEFINE c == Head(conn.asks).id
    <2>1. Serves("resume") /\ Answer(srv.consumers[c] # Absent, c) /\ srv' = srv
      BY <1>6 DEF ServesResume
    <2>2. c \in Ids
      BY <1>1, <2>1
    <2>3. PICK b \in BOOLEAN : b = (srv.consumers[c] # Absent)
      OBVIOUS
    <2>4. Answer(b, c) /\ (b <=> srv'.consumers[c] # Absent)
      BY <2>1, <2>3
    <2> QED
      BY <2>1, <2>2, <2>4, AnswerKeepsSubs DEF Directions
  <1>7. ASSUME NEW d \in Directions, ServesIce(d) PROVE SubsNext
    <2> DEFINE t == Head(conn.asks).id
    <2>1. Serves(d) /\ Answer(t = srv.transport, t) /\ srv' = srv
      BY <1>7 DEF ServesIce
    <2>2. t \in Ids
      BY <1>1, <2>1
    <2>3. PICK b \in BOOLEAN : b = (t = srv.transport)
      OBVIOUS
    <2>4. Answer(b, t)
      BY <2>1, <2>3
    <2>5. d # "resume" /\ d # "consume" /\ d # "transport"
      BY <1>7 DEF Directions
    <2>6. Subs(f, conn, line, srv')
      BY <2>1
    <2> QED
      BY <2>1, <2>2, <2>4, <2>5, <2>6, AnswerKeepsSubs
  <1>9. CASE ServerHearsOfClose
    <2>1. /\ conn.recv = Absent /\ conn' = conn /\ line' = line
          /\ srv' = [srv EXCEPT !.transport = Absent, !.consumers = Silence]
      BY <1>9 DEF ServerHearsOfClose
    <2>2. srv'.consumers = Silence /\ srv'.onAir = srv.onAir
      BY <1>0, <2>1 DEF Servers
    <2>3. \A u \in Tracks : conn.consumers[u] = Absent
      BY <2>1, NoConsumers
    <2>4. Subs(f, conn, line, srv')
      BY <2>2, <2>3, SilenceKeeps
    <2> QED
      BY <1>0, <2>1, <2>4 DEF SubsNext
  <1> QED
    BY <1>2, <1>3, <1>4, <1>5, <1>6, <1>7, <1>9 DEF Server


-----------------------------------------------------------------------------
(* MediaSubscribing: a subscription begins.                                   *)

\* v is w and q.
Grown(w, q, v) ==
    /\ Range(v) = Range(w) \cup Range(q)
    /\ \A K : Lacks(v, K) <=> Lacks(w, K) /\ Lacks(q, K)
    /\ \A K : Once(w, K) /\ Once(q, K) /\ (Lacks(w, K) \/ Lacks(q, K)) => Once(v, K)

LEMMA GrownEitherWay ==
    ASSUME NEW S, NEW w \in Seq(S), NEW q \in Seq(S)
    PROVE  Grown(w, q, w \o q) /\ Grown(w, q, q \o w)
  <1>1. /\ Range(w \o q) = Range(w) \cup Range(q) /\ Range(q \o w) = Range(q) \cup Range(w)
    BY RangeOfConcat
  <1>2. /\ \A K : Lacks(w \o q, K) <=> Lacks(w, K) /\ Lacks(q, K)
        /\ \A K : Lacks(q \o w, K) <=> Lacks(q, K) /\ Lacks(w, K)
    BY LacksConcat
  <1>3. /\ \A K : Once(w, K) /\ Once(q, K) /\ (Lacks(w, K) \/ Lacks(q, K)) => Once(w \o q, K)
        /\ \A K : Once(q, K) /\ Once(w, K) /\ (Lacks(q, K) \/ Lacks(w, K)) => Once(q \o w, K)
    BY ConcatOfSuch
  <1> DEFINE a == w \o q
             b == q \o w
  <1> HIDE DEF a, b
  <1>4. Grown(w, q, a)
    BY <1>1, <1>2, <1>3 DEF Grown, a
  <1>5. Grown(w, q, b)
    BY <1>1, <1>2, <1>3 DEF Grown, b
  <1> QED
    BY <1>4, <1>5 DEF a, b

\* Subscriptions to ts have begun, by the requests q.
Subscribed(m, n, l, ts, q, retry) ==
    /\ n \in Connections
    /\ n.channel = m.channel /\ n.resting = m.resting /\ n.recv = m.recv /\ n.announced = m.announced
    /\ n.consumers = m.consumers /\ n.making = m.making /\ n.open = m.open
    /\ n.retries = m.retries /\ n.shown = m.shown
    /\ n.consuming = m.consuming \cup ts /\ n.gaveUp = m.gaveUp \ ts
    /\ q \in Seq(Requested) /\ Range(q) = AttemptsAt(ts, m.recv, retry)
    /\ \A i, j \in DOMAIN q : q[i] = q[j] => i = j
    /\ Range(n.asks) = Range(m.asks) \cup Range(q)
    /\ Grown(Way(m, l), q, Way(n, l))

LEMMA SubscribedKeeps ==
    ASSUME NEW f, NEW m, NEW n, NEW l, NEW s, NEW ts \in SUBSET m.announced, NEW q, NEW retry \in BOOLEAN,
           Subs(f, m, l, s), Subscribed(m, n, l, ts, q, retry), m.recv # Absent,
           Lacks(Way(m, l), PathRequests),
           \A t \in ts : m.consumers[t] = Absent /\ t \notin m.consuming
    PROVE  /\ Subs(f, n, l, s)
           /\ \A t \in ts : CoveredAt(n, t)
           /\ \A t : CoveredAt(m, t) => CoveredAt(n, t)
  <1> DEFINE w == Way(m, l)
             v == Way(n, l)
             a == m.asks
             b == n.asks
  <1>1. /\ m \in Connections /\ l \in Seq(Messages) /\ s \in Servers /\ WellFormed(m, l)
    BY DEF Subs, Shaped
  <1>2. /\ n \in Connections
        /\ n.channel = m.channel /\ n.resting = m.resting /\ n.recv = m.recv /\ n.announced = m.announced
        /\ n.consumers = m.consumers /\ n.making = m.making /\ n.open = m.open
        /\ n.retries = m.retries /\ n.shown = m.shown
        /\ n.consuming = m.consuming \cup ts /\ n.gaveUp = m.gaveUp \ ts
        /\ Range(b) = Range(a) \cup Range(q)
        /\ Range(v) = Range(w) \cup Range(q)
    BY DEF Subscribed, Grown
  <1>3. /\ \A K : Lacks(v, K) <=> Lacks(w, K) /\ Lacks(q, K)
        /\ \A K : Once(w, K) /\ Once(q, K) /\ (Lacks(w, K) \/ Lacks(q, K)) => Once(v, K)
    BY DEF Subscribed, Grown
  <1>4. ts \subseteq Tracks /\ m.recv \in Transports
    BY <1>1 DEF Connections
  <1>5. \A x \in Range(q) : /\ x \in Requested /\ Formed(x) /\ IsAttempt(x) /\ x.what = "consume"
                            /\ x.try.track \in ts /\ x.try.via = m.recv
    <2> TAKE x \in Range(q)
    <2>1. PICK t \in ts : x = Attempt(t, m.recv, retry)
      BY DEF Subscribed, AttemptsAt
    <2>2. x \in Requested /\ Formed(x)
      BY <2>1, <1>4, AttemptTyped
    <2>3. x.what = "consume" /\ x.try.track = t /\ x.try.via = m.recv
      BY <2>1 DEF Attempt
    <2> QED
      BY <2>2, <2>3 DEF IsAttempt
  <1>6. \A t : Lacks(q, AttemptOf(t)) <=> t \notin ts
    <2> TAKE t
    <2>1. Range(q) \subseteq Entry
      BY <1>5 DEF Entry
    <2>2. t \in ts => \E x \in Range(q) : IsAttempt(x) /\ x.try.track = t
      <3> HAVE t \in ts
      <3>1. Attempt(t, m.recv, retry) \in Range(q)
        BY DEF Subscribed, AttemptsAt
      <3>2. Attempt(t, m.recv, retry).try.track = t
        BY DEF Attempt
      <3> QED
        BY <3>1, <3>2, <1>5
    <2> QED
      BY <2>1, <2>2, <1>5, LacksIs
  <1>7. \A t \in Tracks : Once(q, AttemptOf(t))
    <2> TAKE t \in Tracks
    <2> SUFFICES ASSUME NEW i \in DOMAIN q, NEW j \in DOMAIN q, q[i] \in AttemptOf(t), q[j] \in AttemptOf(t)
                 PROVE  i = j
      BY DEF Once
    <2>1. q[i] \in AttemptsAt(ts, m.recv, retry) /\ q[j] \in AttemptsAt(ts, m.recv, retry)
      BY DEF Subscribed, Range
    <2>2. \A x \in AttemptsAt(ts, m.recv, retry) : x.try.track = t => x = Attempt(t, m.recv, retry)
      BY DEF AttemptsAt, Attempt
    <2>3. q[i] = q[j]
      BY <2>1, <2>2 DEF AttemptOf
    <2> QED
      BY <2>3 DEF Subscribed
  <1>8. Lacks(v, PathRequests)
    <2>1. Range(q) \cap PathRequests = {}
      BY <1>5 DEF PathRequests
    <2>2. Lacks(q, PathRequests)
      BY <2>1, LacksIsRange
    <2> QED
      BY <2>2, <1>3
  <1>9. \A t : Makes(n, t) <=> Makes(m, t)
    BY <1>2 DEF Makes
  <1>10. Booked(m, w) /\ Counted(m, w) /\ Awaited(m, w)
    BY DEF Subs
  <1> HIDE DEF w, v, a, b
  <1>11. \A t \in ts : ~Under(m, w, t)
    BY <1>4, <1>10 DEF Counted
  <1>12. \A t : Under(n, v, t) <=> Under(m, w, t) \/ t \in ts
    BY <1>3, <1>6, <1>9 DEF Under
  <1>13. Shaped(n, l, s)
    BY <1>1, <1>2, <1>5 DEF Shaped, WellFormed, a, b
  <1>14. Booked(n, v)
    <2>1. \A t \in Tracks : Once(v, AttemptOf(t))
      <3> TAKE t \in Tracks
      <3>1. Once(w, AttemptOf(t)) /\ Once(q, AttemptOf(t))
        BY <1>7, <1>10 DEF Booked
      <3>2. Lacks(w, AttemptOf(t)) \/ Lacks(q, AttemptOf(t))
        BY <1>6, <1>11 DEF Under
      <3> QED
        BY <3>1, <3>2, <1>3
    <2>2. \A t \in Tracks : Makes(n, t) => Lacks(v, AttemptOf(t))
      BY <1>3, <1>6, <1>9, <1>10, <1>11 DEF Booked, Under
    <2>3. Ordered(v, PathRequests, Attempts)
      BY <1>8 DEF Lacks, Ordered
    <2>4. \A e \in Range(v) : IsAttempt(e) => e.try.via # Absent
      BY <1>2, <1>5, <1>10 DEF Booked
    <2> QED
      BY <2>1, <2>2, <2>3, <2>4, <1>2, <1>10 DEF Booked
  <1>15. Counted(n, v)
    BY <1>2, <1>5, <1>10, <1>12 DEF Counted
  <1>16. Awaited(n, v)
    BY <1>2, <1>5, <1>10 DEF Awaited
  <1>17. Released(n) /\ Held(n)
    BY <1>2 DEF Subs, Released, Held
  <1>18. Tagged(f, n, l, s)
    BY <1>2, <1>5 DEF Subs, Tagged, a, b
  <1>19. Resumable(n, l, s)
    BY <1>2, <1>5 DEF Subs, Resumable, a, b
  <1>20. Agree(n, l, s)
    <2>1. \A t : WillHear(m, l, t) => WillHear(n, l, t)
      BY <1>2 DEF WillHear, a, b
    <2> QED
      BY <2>1, <1>2 DEF Subs, Agree
  <1>21. RoomKnown(n, l, s)
    BY <1>2 DEF Subs, RoomKnown
  <1>22. News(n, l, s)
    <2>1. News(m, l, s)
      BY DEF Subs
    <2>2. \A t : Under(n, Way(n, l), t) <=> Under(m, Way(m, l), t) \/ t \in ts
      BY <1>12 DEF v, w
    <2> QED
      BY <2>1, <2>2, <1>2 DEF News
  <1>23. /\ \A t \in ts : CoveredAt(n, t)
         /\ \A t : CoveredAt(m, t) => CoveredAt(n, t)
    BY <1>2 DEF CoveredAt
  <1>24. Subs(f, n, l, s)
    BY <1>13, <1>14, <1>15, <1>16, <1>17, <1>18, <1>19, <1>20, <1>21, <1>22 DEF Subs, v
  <1> QED
    BY <1>23, <1>24


LEMMA SubscribeIs ==
    ASSUME NEW m \in Connections, NEW l \in Seq(Messages), NEW ts \in SUBSET Tracks, NEW retry \in BOOLEAN
    PROVE  Subscribed(m, Subscribe(m, ts, retry), l, ts, NewAttempts(m, ts, retry), retry)
  <1> DEFINE n == Subscribe(m, ts, retry)
             q == NewAttempts(m, ts, retry)
             a == m.asks
             w == Way(m, l)
  <1>1. n \in Connections /\ SamePath(m, n) /\ n.asks = a \o q
    BY SubscribeTyped
  <1>2. /\ q \in Seq(Requested)
        /\ Range(q) = AttemptsAt(ts, m.recv, retry)
        /\ \A i, j \in DOMAIN q : q[i] = q[j] => i = j
    BY NewAttemptsAre
  <1>3. /\ n.announced = m.announced
        /\ n.consumers = m.consumers /\ n.making = m.making /\ n.open = m.open
        /\ n.retries = m.retries /\ n.shown = m.shown
        /\ n.consuming = m.consuming \cup ts /\ n.gaveUp = m.gaveUp \ ts
    BY DEF Subscribe, Connections
  <1>4. /\ l \in Seq(Entry) /\ a \in Seq(Entry) /\ a \in Seq(Requested) /\ w = l \o a /\ w \in Seq(Entry)
        /\ Way(n, l) = l \o n.asks
    BY WayIs DEF Way
  <1> HIDE DEF n, q, a, w
  <1>5. q \in Seq(Entry)
    BY <1>2 DEF Entry
  <1>6. Range(n.asks) = Range(m.asks) \cup Range(q)
    <2>1. Range(a \o q) = Range(a) \cup Range(q)
      BY <1>2, <1>4, RangeOfConcat
    <2> QED
      BY <2>1, <1>1 DEF a
  <1>7. Way(n, l) = w \o q
    <2>1. (l \o a) \o q = l \o (a \o q)
      BY <1>4, <1>5, ConcatAgain
    <2> QED
      BY <2>1, <1>1, <1>4
  <1>8. Grown(w, q, w \o q)
    BY <1>4, <1>5, GrownEitherWay
  <1>9. Grown(Way(m, l), q, Way(n, l))
    BY <1>7, <1>8 DEF w
  <1> QED
    BY <1>1, <1>2, <1>3, <1>6, <1>9 DEF Subscribed, SamePath, n, q

\* n is m with what is missing of ts subscribed to.
Ensured(f, m, n, l, s, ts) ==
    /\ Subs(f, n, l, s)
    /\ m.recv # Absent => \A t \in ts : CoveredAt(n, t)
    /\ \A t : CoveredAt(m, t) => CoveredAt(n, t)
    /\ n.recv = m.recv /\ n.announced = m.announced /\ n.resting = m.resting

LEMMA EnsureKeepsSubs ==
    ASSUME NEW f, NEW m, NEW l, NEW s, Subs(f, m, l, s), NEW ts \in SUBSET m.announced, NEW retry \in BOOLEAN,
           m.recv # Absent => Lacks(Way(m, l), PathRequests)
    PROVE  Ensured(f, m, EnsureConsumed(m, ts, retry), l, s, ts)
  <1> DEFINE us == Missing(m, ts)
             n == Subscribe(m, us, retry)
             q == NewAttempts(m, us, retry)
  <1>1. EnsureConsumed(m, ts, retry) = n
    BY DEF EnsureConsumed
  <1>2. m \in Connections /\ l \in Seq(Messages) /\ m.announced \subseteq Tracks /\ us \in SUBSET Tracks
        /\ us \subseteq m.announced
    BY DEF Subs, Shaped, Connections, Missing
  <1>3. Subscribed(m, n, l, us, q, retry)
    BY <1>2, SubscribeIs
  <1>4. n.recv = m.recv /\ n.announced = m.announced /\ n.resting = m.resting
    BY <1>3 DEF Subscribed
  <1>5. CASE m.recv # Absent
    <2>1. us = {t \in ts : m.consumers[t] = Absent /\ t \notin m.consuming}
      BY <1>5 DEF Missing
    <2> HIDE DEF us, n, q
    <2>2. /\ Subs(f, n, l, s)
          /\ \A t \in us : CoveredAt(n, t)
          /\ \A t : CoveredAt(m, t) => CoveredAt(n, t)
      <3>1. \A t \in us : m.consumers[t] = Absent /\ t \notin m.consuming
        BY <2>1
      <3>2. us \in SUBSET m.announced
        BY <1>2
      <3> QED
        BY <1>3, <1>5, <3>1, <3>2, SubscribedKeeps
    <2>3. \A t \in ts \ us : CoveredAt(m, t)
      BY <2>1 DEF CoveredAt
    <2> QED
      BY <1>1, <1>4, <2>2, <2>3 DEF Ensured
  <1>6. CASE m.recv = Absent
    <2>1. us = {}
      BY <1>6 DEF Missing
    <2> HIDE DEF us, n, q
    <2>2. q = <<>>
      <3>1. q \in Seq(Requested) /\ Range(q) = {}
        BY <1>3, <2>1 DEF Subscribed, AttemptsAt
      <3> QED
        BY <3>1, RangeOfTail
    <2>3. n.asks = m.asks \o q /\ m.asks \in Seq(Requested)
      BY <1>2, SubscribeTyped, AsksAreSeq DEF n, q
    <2>4. n.asks = m.asks
      <3> DEFINE a == m.asks
      <3> HIDE DEF a
      <3>1. a \in Seq(Requested) /\ n.asks = a \o <<>>
        BY <2>2, <2>3 DEF a
      <3>2. a \o <<>> = a
        BY <3>1
      <3> QED
        BY <3>1, <3>2 DEF a
    <2>5. SameMedia(m, n) /\ n \in Connections /\ n.channel = m.channel /\ n.resting = m.resting
      BY <1>3, <2>1 DEF SameMedia, SameSubs, Subscribed
    <2>6. Subs(f, n, l, s)
      BY <2>4, <2>5, FrameKeeps
    <2>7. \A t : CoveredAt(m, t) => CoveredAt(n, t)
      BY <2>5 DEF CoveredAt, SameMedia, SameSubs
    <2> QED
      BY <1>1, <1>4, <1>6, <2>6, <2>7 DEF Ensured
  <1> QED
    BY <1>5, <1>6


-----------------------------------------------------------------------------
(* MediaSubscribing: a subscription ends without its track.                   *)

\* What DropThose leaves.
ThoseDropped(m, n, ts) ==
    /\ n \in Connections
    /\ n.channel = m.channel /\ n.resting = m.resting /\ n.asks = m.asks /\ n.recv = m.recv /\ n.announced = m.announced
    /\ n.consuming = m.consuming /\ n.making = m.making
    /\ n.retries = m.retries /\ n.gaveUp = m.gaveUp
    /\ \A t \in Tracks : n.consumers[t] = IF t \in ts THEN Absent ELSE m.consumers[t]
    /\ n.open = {n.consumers[t] : t \in Tracks} \ {Absent}
    /\ n.shown \subseteq n.open
    /\ \A t \in Tracks \ ts : m.consumers[t] \in m.shown => m.consumers[t] \in n.shown

LEMMA DropThoseIs ==
    ASSUME NEW f, NEW m \in Connections, NEW ts \in SUBSET Tracks,
           m.open = {m.consumers[t] : t \in Tracks} \ {Absent}, m.shown \subseteq m.open,
           \A t \in Tracks : m.consumers[t] # Absent => f[m.consumers[t]] = t
    PROVE  ThoseDropped(m, DropThose(m, ts), ts)
  <1> DEFINE gone == {m.consumers[t] : t \in ts}
             held == [t \in Tracks |-> IF t \in ts THEN Absent ELSE m.consumers[t]]
             n == DropThose(m, ts)
  <1>1. n = [m EXCEPT !.consumers = held, !.open = @ \ gone, !.shown = @ \ gone]
    BY DEF DropThose, Connections
  <1>2. n \in Connections
    BY DropThoseTyped
  <1>3. /\ n.channel = m.channel /\ n.resting = m.resting /\ n.asks = m.asks /\ n.recv = m.recv /\ n.announced = m.announced
        /\ n.consuming = m.consuming /\ n.making = m.making
        /\ n.retries = m.retries /\ n.gaveUp = m.gaveUp
        /\ n.consumers = held /\ n.open = m.open \ gone /\ n.shown = m.shown \ gone
    BY <1>1 DEF Connections
  <1>4. \A t \in Tracks : held[t] = IF t \in ts THEN Absent ELSE m.consumers[t]
    OBVIOUS
  <1> HIDE DEF n, held
  <1>5. \A t \in Tracks \ ts : m.consumers[t] # Absent => m.consumers[t] \notin gone
    <2> TAKE t \in Tracks \ ts
    <2> HAVE m.consumers[t] # Absent
    <2> SUFFICES ASSUME NEW u \in ts, m.consumers[t] = m.consumers[u] PROVE FALSE
      OBVIOUS
    <2>1. f[m.consumers[t]] = t /\ f[m.consumers[u]] = u
      OBVIOUS
    <2> QED
      BY <2>1
  <1>6. \A t \in ts : m.consumers[t] \in gone
    OBVIOUS
  <1> HIDE DEF gone
  <1>7. m.open \ gone = {held[t] : t \in Tracks} \ {Absent}
    BY <1>4, <1>5, <1>6
  <1>8. \A t \in Tracks \ ts : m.consumers[t] \in m.shown => m.consumers[t] \in n.shown
    BY <1>3, <1>5
  <1> QED
    BY <1>2, <1>3, <1>4, <1>7, <1>8 DEF ThoseDropped, n

\* The subscriptions to ts are over, and their consumers are dropped.
Withdrew(m, l, k, g, ts) ==
    /\ Less(m, l, k, g)
    /\ k.recv = m.recv /\ k.announced = m.announced
    /\ k.channel = "ready" => m.channel = "ready"
    /\ k.consuming = m.consuming \ ts
    /\ m.retries \subseteq k.retries /\ m.gaveUp \subseteq k.gaveUp
    /\ k.resting = m.resting /\ (m.recv = Absent => k.retries = m.retries)
    /\ m.recv # Absent => ts \cap m.announced \subseteq k.retries \cup k.gaveUp
    /\ \A t \in Tracks : Under(k, Way(k, g), t) <=> Under(m, Way(m, l), t) /\ t \notin ts
    /\ \A t \in Tracks : k.consumers[t] = IF t \in ts THEN Absent ELSE m.consumers[t]
    /\ k.open = {k.consumers[t] : t \in Tracks} \ {Absent}
    /\ k.shown \subseteq k.open
    /\ \A t \in Tracks \ ts : m.consumers[t] \in m.shown => m.consumers[t] \in k.shown
    /\ \A e \in Range(m.asks) : e \in Range(k.asks) \/ (IsAttempt(e) => e.try.track \in ts)
    /\ k.channel = "ready" =>
           \A e \in Range(l) : e \in Range(g) \/ (IsAnswer(e) /\ (IsAttempt(e) => e.try.track \in ts))

LEMMA WithdrewKeeps ==
    ASSUME NEW f, NEW m, NEW l, NEW k, NEW g, NEW s, NEW ts, Subs(f, m, l, s), Withdrew(m, l, k, g, ts)
    PROVE  Subs(f, k, g, s) /\ (Covered(m) => Covered(k))
  <1> DEFINE w == Way(m, l)
             v == Way(k, g)
  <1>1. /\ m \in Connections /\ l \in Seq(Messages) /\ s \in Servers /\ WellFormed(m, l)
    BY DEF Subs, Shaped
  <1>2. Less(m, l, k, g)
    BY DEF Withdrew
  <1>3. /\ Shaped(k, g, s)
        /\ Booked(k, v) /\ Awaited(k, v) /\ Tagged(f, k, g, s)
    BY <1>2, LessKeeps
  <1>4. /\ k \in Connections /\ g \in Seq(Messages)
        /\ Thinner(w, v) /\ Thinner(l, g) /\ Range(v) \subseteq Range(w) /\ Range(g) \subseteq Range(l)
        /\ Range(k.asks) \subseteq Range(m.asks) /\ k.making \subseteq m.making
        /\ \A t \in Tracks : k.consumers[t] = IF t \in ts THEN Absent ELSE m.consumers[t]
    BY <1>2 DEF Less, Thinner, Withdrew
  <1>5. /\ k.recv = m.recv /\ k.announced = m.announced
        /\ k.channel = "ready" => m.channel = "ready"
        /\ k.consuming = m.consuming \ ts
        /\ k.resting = m.resting /\ (m.recv = Absent => k.retries = m.retries)
        /\ \A t \in Tracks : Under(k, v, t) <=> Under(m, w, t) /\ t \notin ts
        /\ k.open = {k.consumers[t] : t \in Tracks} \ {Absent}
        /\ k.shown \subseteq k.open
        /\ \A t \in Tracks \ ts : m.consumers[t] \in m.shown => m.consumers[t] \in k.shown
    BY DEF Withdrew
  <1>6. Range(v) = Range(g) \cup Range(k.asks) /\ Range(v) \subseteq Entry
    BY <1>4, WayIs DEF Entry
  <1> HIDE DEF w, v
  <1>7. Counted(k, v)
    <2>1. Counted(m, w)
      BY DEF Subs, w
    <2> QED
      BY <2>1, <1>4, <1>5 DEF Counted
  <1>8. Released(k)
    <2>1. Released(m)
      BY DEF Subs
    <2> QED
      BY <2>1, <1>4, <1>5 DEF Released
  <1>9. Held(k)
    <2>1. Held(m)
      BY DEF Subs
    <2> QED
      BY <2>1, <1>4, <1>5 DEF Held
  <1>10. \A e \in Range(v) : IsAttempt(e) => e.try.track \in Tracks /\ e.try.track \notin ts
    <2> TAKE e \in Range(v)
    <2> HAVE IsAttempt(e)
    <2>1. e.try.track \in Tracks
      BY <1>3, <1>6 DEF Shaped, WellFormed, Formed, IsAttempt, Tries
    <2>2. ~Lacks(v, AttemptOf(e.try.track))
      BY <1>6, LacksIs
    <2> QED
      BY <2>1, <2>2, <1>5 DEF Under
  <1>11. Resumable(k, g, s)
    <2>1. Resumable(m, l, s)
      BY DEF Subs
    <2>2. \A c \in Consumers : Ordered(g, GoneOf(c), ResumedOf(c))
      BY <2>1, <1>4 DEF Resumable, Thinner
    <2>3. \A e \in Range(v) : e.what = "resume" => k.consumers[e.try.track] = m.consumers[e.try.track]
      BY <1>4, <1>10 DEF IsAttempt
    <2> QED
      BY <2>1, <2>2, <2>3, <1>4, <1>5, <1>6 DEF Resumable
  <1>12. Agree(k, g, s)
    <2>1. Agree(m, l, s) /\ Tagged(f, m, l, s)
      BY DEF Subs
    <2> SUFFICES ASSUME k.channel = "ready", NEW t \in Tracks, k.consumers[t] # Absent,
                        s.consumers[k.consumers[t]] # t
                 PROVE  WillHear(k, g, t)
      BY DEF Agree
    <2>2. t \notin ts /\ k.consumers[t] = m.consumers[t]
      BY <1>4
    <2>3. WillHear(m, l, t) /\ f[m.consumers[t]] = t
      BY <2>1, <2>2, <1>5 DEF Agree, Tagged
    <2>4. \A e \in Range(l) : e.what = "resume" /\ e.id = m.consumers[t] => e.try.track = t
      BY <2>1, <2>3 DEF Tagged
    <2>5. \A e \in Range(m.asks) : e.what = "resume" /\ e.id = m.consumers[t] => e.try.track = t
      BY <2>1, <2>3 DEF Tagged
    <2>6. \A e \in Range(l) : e \in Range(g) \/ (IsAnswer(e) /\ (IsAttempt(e) => e.try.track \in ts))
      BY DEF Withdrew
    <2>7. \A e \in Range(m.asks) : e \in Range(k.asks) \/ (IsAttempt(e) => e.try.track \in ts)
      BY DEF Withdrew
    <2> QED
      BY <2>2, <2>3, <2>4, <2>5, <2>6, <2>7 DEF WillHear, IsAnswer, IsAttempt, Directions
  <1>13. ASSUME k.channel = "ready", NEW t
         PROVE  /\ Lacks(g, AnnouncedOf(t)) <=> Lacks(l, AnnouncedOf(t))
                /\ Lacks(g, ClosedOf(t)) <=> Lacks(l, ClosedOf(t))
    <2>1. \A e \in Range(l) : e \in Range(g) \/ IsAnswer(e)
      BY <1>13 DEF Withdrew
    <2>2. \A K : (Lacks(g, K) <=> Range(g) \cap K = {}) /\ (Lacks(l, K) <=> Range(l) \cap K = {})
      BY LacksIsRange
    <2> QED
      BY <2>1, <2>2, <1>4 DEF AnnouncedOf, ClosedOf, IsAnswer, Directions
  <1>14. RoomKnown(k, g, s)
    BY <1>5, <1>13 DEF Subs, RoomKnown
  <1>15. News(k, g, s)
    <2>1. News(m, l, s)
      BY DEF Subs
    <2>2. \A t \in Tracks : Once(g, AnnouncedOf(t)) /\ Ordered(g, ClosedOf(t), AnnouncedOf(t))
      BY <2>1, <1>4 DEF News, Thinner
    <2>3. \A t \in Tracks : Under(k, Way(k, g), t) <=> Under(m, Way(m, l), t) /\ t \notin ts
      BY <1>5 DEF v, w
    <2>4. \A t : Lacks(l, AnnouncedOf(t)) => Lacks(g, AnnouncedOf(t))
      BY <1>4 DEF Thinner
    <2> QED
      BY <2>1, <2>2, <2>3, <2>4, <1>5 DEF News
  <1>16. ASSUME Covered(m) PROVE Covered(k)
    <2> SUFFICES ASSUME Reconciled(k), NEW t \in k.announced PROVE CoveredAt(k, t)
      BY DEF Covered, Reconciled
    <2>1. t \in Tracks /\ t \in m.announced /\ Reconciled(m) /\ m.recv # Absent
      BY <1>1, <1>5 DEF Connections, Reconciled, Withdrew
    <2>2. CoveredAt(m, t)
      BY <2>1, <1>16 DEF Covered, Reconciled
    <2>3. CASE t \in ts
      BY <2>1, <2>3 DEF Withdrew, CoveredAt
    <2>4. CASE t \notin ts
      BY <2>1, <2>2, <2>4, <1>4, <1>5 DEF Withdrew, CoveredAt
    <2> QED
      BY <2>3, <2>4
  <1> QED
    BY <1>3, <1>7, <1>8, <1>9, <1>11, <1>12, <1>14, <1>15, <1>16 DEF Subs, v

\* The attempts es are out of the way, and the rest is as it was.
Cut(m, l, k, g, es) ==
    /\ Less(m, l, k, g) /\ SameMedia(m, k)
    /\ k.channel = "ready" => m.channel = "ready"
    /\ Entries(es) /\ es \subseteq Range(Way(m, l))
    /\ \A e \in es : IsAttempt(e) => Lacks(Way(k, g), AttemptOf(e.try.track))
    /\ \A e \in Range(Way(m, l)) : IsAttempt(e) => e \in Range(Way(k, g)) \/ e \in es
    /\ \A e \in Range(m.asks) : e \in Range(k.asks) \/ e \in es \/ ~IsAttempt(e)
    /\ k.channel = "ready" => \A e \in Range(l) : e \in Range(g) \/ (e \in es /\ IsAnswer(e))

LEMMA WithdrawnKeeps ==
    ASSUME NEW f, NEW m, NEW l, NEW k, NEW g, NEW s, NEW es, Subs(f, m, l, s), Cut(m, l, k, g, es)
    PROVE  /\ Subs(f, Withdrawn(k, es), g, s)
           /\ Covered(m) => Covered(Withdrawn(k, es))
  <1> DEFINE w == Way(m, l)
             v == Way(k, g)
             ts == {t \in Tracks : \E e \in es : IsAttempt(e) /\ e.try.track = t}
             dropped == {t \in Tracks :
                      \E e \in LostOf(es, {"resume"}) : e.try.track = t /\ k.consumers[t] = e.id}
             tries == {e.try : e \in LostOf(es, {"consume", "resume"})}
             d == DropThose(k, dropped)
             n == Withdrawn(k, es)
  <1>1. /\ m \in Connections /\ l \in Seq(Messages) /\ s \in Servers /\ WellFormed(m, l)
        /\ Booked(m, w) /\ Counted(m, w) /\ Awaited(m, w) /\ Held(m) /\ Tagged(f, m, l, s)
    BY DEF Subs, Shaped
  <1>2. /\ Less(m, l, k, g) /\ k \in Connections
        /\ SameMedia(m, k) /\ Entries(es) /\ es \subseteq Range(w)
        /\ k.channel = "ready" => m.channel = "ready"
    BY DEF Cut, Less
  <1>3. n = ConsumeFailed(d, tries)
    BY DEF Withdrawn
  <1>4. n \in Connections /\ n.channel = k.channel /\ n.resting = k.resting /\ n.recv = k.recv /\ n.asks = k.asks
    BY <1>2, WithdrawnTyped DEF SamePath
  <1>5. \A t \in Tracks : k.consumers[t] # Absent => f[k.consumers[t]] = t
    BY <1>1, <1>2 DEF Tagged, SameMedia, SameSubs
  <1>6. ThoseDropped(k, d, dropped)
    <2> HIDE DEF d
    <2>1. k.open = {k.consumers[t] : t \in Tracks} \ {Absent} /\ k.shown \subseteq k.open
      BY <1>1, <1>2 DEF Held, SameMedia, SameSubs
    <2>2. dropped \in SUBSET Tracks
      OBVIOUS
    <2> HIDE DEF dropped
    <2> QED
      BY <1>2, <1>5, <2>1, <2>2, DropThoseIs DEF d
  <1>7. tries \in SUBSET Tries
    BY <1>2 DEF Entries, LostOf, Formed
  <1>8. \A e \in es : IsAttempt(e) => e \in Range(w) /\ e.try \in Tries /\ e.try.track \in Tracks /\ e.try \in tries
    BY <1>2, <1>7 DEF IsAttempt, LostOf, Tries
  <1>9. \A y \in tries : y.track \in ts /\ y.via # Absent /\ (m.recv # Absent => y.via = m.recv)
    <2> TAKE y \in tries
    <2>1. PICK e \in es : IsAttempt(e) /\ e.try = y
      BY DEF LostOf, IsAttempt
    <2> HIDE DEF tries, ts
    <2>2. e.try.track \in Tracks /\ e \in Range(w)
      BY <1>8, <2>1
    <2>3. y.track \in ts
      BY <2>1, <2>2 DEF ts
    <2> QED
      BY <1>1, <2>1, <2>2, <2>3 DEF Booked, Counted
  <1>10. \A t \in ts : \E y \in tries : y.track = t
    BY <1>8
  <1>11. TracksOf(tries) = ts
    BY <1>8, <1>9, <1>10 DEF TracksOf
  <1>12. dropped \subseteq ts /\ \A t \in ts \ dropped : k.consumers[t] = Absent
    <2>1. dropped \subseteq ts
      BY DEF LostOf, IsAttempt
    <2>2. ASSUME NEW t \in ts \ dropped PROVE k.consumers[t] = Absent
      <3>1. PICK e \in es : IsAttempt(e) /\ e.try.track = t
        OBVIOUS
      <3>2. e \in Range(w)
        BY <1>8, <3>1
      <3>3. CASE e.what = "consume"
        BY <1>1, <1>2, <3>1, <3>2, <3>3 DEF Awaited, SameMedia, SameSubs
      <3>4. CASE e.what = "resume"
        <4>1. m.consumers[t] \in {Absent, e.id}
          BY <1>1, <3>1, <3>2, <3>4 DEF Awaited
        <4>2. k.consumers[t] # e.id
          BY <2>2, <3>1, <3>4 DEF LostOf
        <4> QED
          BY <1>2, <4>1, <4>2 DEF SameMedia, SameSubs
      <3> QED
        BY <3>1, <3>3, <3>4 DEF IsAttempt
    <2> QED
      BY <2>1, <2>2
  <1> HIDE DEF tries, dropped, d, n
  <1>13. /\ n.announced = k.announced /\ n.making = k.making
         /\ n.consumers = d.consumers /\ n.open = d.open /\ n.shown = d.shown
         /\ n.consuming = d.consuming \ TracksOf(tries)
         /\ k.retries \subseteq n.retries /\ k.gaveUp \subseteq n.gaveUp
         /\ n.resting = k.resting /\ (m.recv = Absent => n.retries = k.retries)
         /\ m.recv # Absent => TracksOf(tries) \subseteq n.retries \cup n.gaveUp
    <2> DEFINE now == {y \in tries : y.via = d.recv}
    <2>1. n = [d EXCEPT !.consuming = @ \ TracksOf(tries),
                  !.gaveUp = @ \cup TracksOf({y \in now : y.retry}),
                  !.retries = @ \cup TracksOf({y \in now : ~y.retry})]
      BY <1>3 DEF ConsumeFailed
    <2>2. /\ n.announced = d.announced /\ n.making = d.making
          /\ n.consumers = d.consumers /\ n.open = d.open /\ n.shown = d.shown
          /\ n.consuming = d.consuming \ TracksOf(tries) /\ n.resting = d.resting
          /\ n.retries = d.retries \cup TracksOf({y \in now : ~y.retry})
          /\ n.gaveUp = d.gaveUp \cup TracksOf({y \in now : y.retry})
      BY <2>1, <1>6 DEF ThoseDropped, Connections
    <2>3. d.recv = m.recv
      BY <1>2, <1>6 DEF ThoseDropped, SameMedia, SameSubs
    <2>4. m.recv = Absent => TracksOf({y \in now : ~y.retry}) = {}
      BY <1>9, <2>3 DEF TracksOf
    <2>5. m.recv # Absent => TracksOf(tries) \subseteq n.retries \cup n.gaveUp
      <3> HAVE m.recv # Absent
      <3>1. now = tries
        BY <1>9, <2>3
      <3> QED
        BY <2>2, <3>1 DEF TracksOf
    <2> HIDE DEF now
    <2> QED
      BY <2>2, <2>4, <2>5, <1>6 DEF ThoseDropped
  <1>14. Way(n, g) = v
    BY <1>4 DEF Way
  <1>15. \A t \in Tracks : Under(n, v, t) <=> Under(m, w, t) /\ t \notin ts
    <2> TAKE t \in Tracks
    <2> HIDE DEF w, v
    <2>1. Makes(n, t) <=> Makes(m, t)
      BY <1>2, <1>13 DEF Makes, SameMedia, SameSubs
    <2>2. Range(w) \subseteq Entry /\ Range(v) \subseteq Range(w)
      BY <1>1, <1>2, WayIs DEF Entry, Less, Thinner, v, w
    <2>3. /\ Lacks(w, AttemptOf(t)) <=> \A e \in Range(w) : ~(IsAttempt(e) /\ e.try.track = t)
          /\ Lacks(v, AttemptOf(t)) <=> \A e \in Range(v) : ~(IsAttempt(e) /\ e.try.track = t)
      BY <2>2, LacksIs
    <2>4. CASE t \in ts
      <3>1. PICK e \in es : IsAttempt(e) /\ e.try.track = t
        BY <2>4
      <3>2. Lacks(v, AttemptOf(t))
        BY <3>1 DEF Cut, v
      <3>3. ~Lacks(w, AttemptOf(t))
        BY <1>8, <2>3, <3>1
      <3>4. ~Makes(m, t)
        BY <1>1, <3>3 DEF Booked
      <3> QED
        BY <2>1, <2>4, <3>2, <3>4 DEF Under
    <2>5. CASE t \notin ts
      <3>1. \A e \in Range(w) : IsAttempt(e) /\ e.try.track = t => e \in Range(v)
        BY <2>5 DEF Cut, v, w
      <3> QED
        BY <2>1, <2>2, <2>3, <2>5, <3>1 DEF Under
    <2> QED
      BY <2>4, <2>5
  <1>16. \A t \in Tracks : n.consumers[t] = IF t \in ts THEN Absent ELSE m.consumers[t]
    BY <1>2, <1>6, <1>12, <1>13 DEF ThoseDropped, SameMedia, SameSubs
  <1>17. /\ \A e \in Range(m.asks) : e \in Range(n.asks) \/ (IsAttempt(e) => e.try.track \in ts)
         /\ n.channel = "ready" =>
              \A e \in Range(l) : e \in Range(g) \/ (IsAnswer(e) /\ (IsAttempt(e) => e.try.track \in ts))
    <2>1. \A e \in es : IsAttempt(e) => e.try.track \in ts
      BY <1>8
    <2> HIDE DEF ts
    <2> QED
      BY <1>4, <2>1 DEF Cut
  <1> HIDE DEF ts, w, v
  <1>18. Less(m, l, n, g)
    <2>1. /\ g \in Seq(Messages) /\ Thinner(w, v) /\ Thinner(l, g)
          /\ Range(k.asks) \subseteq Range(m.asks) /\ k.making \subseteq m.making
      BY <1>2 DEF Less, w, v
    <2> QED
      BY <2>1, <1>4, <1>13, <1>14, <1>16 DEF Less, w
  <1>19. /\ n.recv = m.recv /\ n.announced = m.announced
         /\ n.channel = "ready" => m.channel = "ready"
         /\ n.consuming = m.consuming \ ts
         /\ m.retries \subseteq n.retries /\ m.gaveUp \subseteq n.gaveUp
         /\ n.resting = m.resting /\ (m.recv = Absent => n.retries = m.retries)
         /\ m.recv # Absent => ts \cap m.announced \subseteq n.retries \cup n.gaveUp
    BY <1>2, <1>4, <1>6, <1>11, <1>13 DEF ThoseDropped, SameMedia, SameSubs
  <1>20. /\ n.open = {n.consumers[t] : t \in Tracks} \ {Absent}
         /\ n.shown \subseteq n.open
         /\ \A t \in Tracks \ ts : m.consumers[t] \in m.shown => m.consumers[t] \in n.shown
    BY <1>2, <1>6, <1>12, <1>13 DEF ThoseDropped, SameMedia, SameSubs
  <1>21. Withdrew(m, l, n, g, ts)
    BY <1>14, <1>15, <1>16, <1>17, <1>18, <1>19, <1>20 DEF Withdrew, w
  <1> QED
    BY <1>21, WithdrewKeeps DEF n

\* Subscriptions are left alone.
Frame(m, n) ==
    /\ n \in Connections /\ SameMedia(m, n) /\ n.asks = m.asks
    /\ n.channel = "ready" => m.channel = "ready"

LEMMA FramedKeeps ==
    ASSUME NEW f, NEW m, NEW n, NEW l, NEW s, Subs(f, m, l, s), Frame(m, n)
    PROVE  Subs(f, n, l, s) /\ (Covered(m) => Covered(n))
  BY FrameKeeps DEF Frame

LEMMA FrameAgain ==
    ASSUME NEW m, NEW n, NEW k, Frame(m, n), Frame(n, k)
    PROVE  Frame(m, k)
  BY DEF Frame, SameMedia, SameSubs

LEMMA RenegotiatedIsFrame ==
    ASSUME NEW m \in Connections, NEW ds, NEW t
    PROVE  Frame(m, IceRenegotiated(m, ds, t))
  <1> DEFINE n == IceRenegotiated(m, ds, t)
             p == [d \in Directions |-> IF d \in ds THEN Recovering(m.ice[d]) ELSE m.ice[d]]
             k == [m EXCEPT !.ice = p]
  <1>1. n \in Connections /\ n.channel = m.channel /\ n.asks = m.asks
    BY RenegotiatedTyped DEF Rerouted
  <1>2. SameMedia(m, n)
    <2>1. n = m \/ n = k
      BY DEF IceRenegotiated
    <2> HIDE DEF p
    <2>2. SameMedia(m, k)
      BY DEF Connections, SameMedia, SameSubs
    <2>3. SameMedia(m, m)
      BY DEF SameMedia, SameSubs
    <2> HIDE DEF n, k
    <2> QED
      BY <2>1, <2>2, <2>3
  <1> QED
    BY <1>1, <1>2 DEF Frame

LEMMA BrokenIsFrame ==
    ASSUME NEW m \in Connections
    PROVE  Frame(m, Broken(m))
  <1> DEFINE n == [m EXCEPT !.build = FALSE, !.first = FALSE, !.state = "failed"]
             k == [m EXCEPT !.build = FALSE, !.rebuild = TRUE]
  <1>1. Broken(m) \in Connections /\ Broken(m).asks = m.asks /\ Broken(m).channel = m.channel
    BY BrokenTyped DEF Rerouted
  <1>2. SameMedia(m, n)
    BY DEF Connections, SameMedia, SameSubs
  <1>3. SameMedia(m, k)
    BY DEF Connections, SameMedia, SameSubs
  <1>4. Broken(m) = n \/ Broken(m) = k
    BY DEF Broken
  <1> HIDE DEF n, k
  <1> QED
    BY <1>1, <1>2, <1>3, <1>4 DEF Frame

LEMMA StateIsFrame ==
    ASSUME NEW m \in Connections, NEW s \in States
    PROVE  Frame(m, [m EXCEPT !.state = s])
  <1> DEFINE n == [m EXCEPT !.state = s]
  <1>1. n \in Connections /\ n.asks = m.asks /\ n.channel = m.channel
    BY StateIs DEF Rerouted
  <1>2. SameMedia(m, n)
    BY DEF Connections, SameMedia, SameSubs
  <1> HIDE DEF n
  <1> QED
    BY <1>1, <1>2 DEF Frame, n

LEMMA OnePathIsFrame ==
    ASSUME NEW m \in Connections, NEW d \in Directions, NEW i \in Paths
    PROVE  Frame(m, [m EXCEPT !.ice[d] = i])
  <1> DEFINE p == [m.ice EXCEPT ![d] = i]
             n == [m EXCEPT !.ice = p]
  <1>1. [m EXCEPT !.ice[d] = i] = n
    OBVIOUS
  <1>2. n \in Connections /\ n.asks = m.asks /\ n.channel = m.channel
    BY <1>1, OnePathIs DEF Rerouted
  <1> HIDE DEF p
  <1>3. SameMedia(m, n)
    BY DEF Connections, SameMedia, SameSubs
  <1> HIDE DEF n
  <1> QED
    BY <1>1, <1>2, <1>3 DEF Frame

LEMMA RecoveredIsFrame ==
    ASSUME NEW m \in Connections
    PROVE  Frame(m, Recovered(m))
  <1> DEFINE n == [m EXCEPT !.state = "connected"]
  <1>1. Frame(m, n)
    BY DEF Connections, Frame, SameMedia, SameSubs
  <1>2. Frame(m, m)
    BY DEF Frame, SameMedia, SameSubs
  <1>3. Recovered(m) = n \/ Recovered(m) = m
    BY DEF Recovered
  <1> HIDE DEF n
  <1> QED
    BY <1>1, <1>2, <1>3

LEMMA AsksFailedKeepsSubs ==
    ASSUME NEW f, NEW m, NEW l, NEW k, NEW g, NEW s, NEW es, Subs(f, m, l, s), Cut(m, l, k, g, es)
    PROVE  /\ Subs(f, AsksFailed(k, es), g, s)
           /\ Covered(m) => Covered(AsksFailed(k, es))
  <1> DEFINE n == Withdrawn(k, es)
             r == Redone(k, es)
             b == AsksFailed(k, es)
  <1>1. Subs(f, n, g, s) /\ (Covered(m) => Covered(n))
    BY WithdrawnKeeps
  <1>2. n \in Connections
    BY <1>1 DEF Subs, Shaped
  <1>3. r = IceRenegotiated(n, RenegotiatedBy(k, es), k.recv)
    BY DEF Redone
  <1>4. b = r \/ b = Broken(r)
    BY AsksFailedIs DEF Cut, Less
  <1> HIDE DEF n, r, b
  <1>6. Frame(n, r)
    BY <1>2, <1>3, RenegotiatedIsFrame
  <1>7. Frame(n, b)
    <2>1. r \in Connections
      BY <1>6 DEF Frame
    <2> QED
      BY <1>4, <1>6, <2>1, BrokenIsFrame, FrameAgain
  <1> QED
    BY <1>1, <1>7, FramedKeeps DEF b, n

\* The first message is an answer, and failed.
LEMMA FirstIsCut ==
    ASSUME NEW f, NEW m, NEW l, NEW s, Subs(f, m, l, s), l # <<>>, IsAnswer(Head(l))
    PROVE  Cut(m, l, m, Tail(l), {Head(l)})
  <1> DEFINE w == Way(m, l)
             g == Tail(l)
             v == Way(m, g)
             h == Head(l)
  <1>1. /\ Less(m, l, m, g)
        /\ Range(w) = {h} \cup Range(v) /\ Range(l) = {h} \cup Range(g)
        /\ h \in Messages /\ Formed(h) /\ v \in Seq(Entry)
        /\ \A K : h \in K /\ Once(w, K) => Lacks(v, K)
    BY TailIs
  <1>2. SameMedia(m, m)
    BY DEF SameMedia, SameSubs
  <1>3. IsAnswer(h)
    OBVIOUS
  <1>4. \A t \in Tracks : Once(w, AttemptOf(t))
    BY DEF Subs, Booked
  <1> HIDE DEF w, v, g, h
  <1>5. IsAttempt(h) => Lacks(v, AttemptOf(h.try.track))
    <2> HAVE IsAttempt(h)
    <2>1. h \in AttemptOf(h.try.track) /\ h.try.track \in Tracks
      BY <1>1 DEF AttemptOf, Attempts, Entry, Formed, IsAttempt, Tries
    <2> QED
      BY <2>1, <1>1, <1>4
  <1>6. Entries({h})
    BY <1>1 DEF Entries
  <1>7. Cut(m, l, m, g, {h})
    BY <1>1, <1>2, <1>3, <1>5, <1>6 DEF Cut, w, v
  <1> QED
    BY <1>7 DEF g, h

\* The first request failed while there was no channel.
LEMMA FirstAskIsCut ==
    ASSUME NEW f, NEW m, NEW l, NEW s, Subs(f, m, l, s), l = <<>>, m.asks # <<>>, m.channel # "ready"
    PROVE  Cut(m, l, [m EXCEPT !.asks = Tail(@)], l, {Head(m.asks)})
  <1> DEFINE a == m.asks
             t == Tail(a)
             h == Head(a)
             k == [m EXCEPT !.asks = t]
             w == Way(m, l)
             v == Way(k, l)
  <1>1. /\ m \in Connections /\ l \in Seq(Messages) /\ WellFormed(m, l) /\ Booked(m, w)
    BY DEF Subs, Shaped
  <1>2. a \in Seq(Requested) /\ a # <<>> /\ a \in Seq(Entry) /\ w = l \o a
    BY <1>1, WayIs DEF Way
  <1> HIDE DEF a
  <1>3. t \in Seq(Requested) /\ h \in Requested /\ Range(a) = {h} \cup Range(t)
    BY <1>2, RangeOfTail
  <1> HIDE DEF t
  <1>4. k \in Connections /\ SameMedia(m, k) /\ k.asks = t /\ k.channel = m.channel /\ k.resting = m.resting
    BY <1>1, <1>3 DEF Connections, SameMedia, SameSubs
  <1> HIDE DEF k
  <1>5. w = a /\ v = t
    <2>1. l \o a = a /\ l \o t = t
      <3>1. <<>> \o a = a /\ <<>> \o t = t
        BY <1>2, <1>3
      <3> QED
        BY <3>1
    <2> QED
      BY <1>2, <1>4, <2>1 DEF Way
  <1>6. a \in Seq(Entry) /\ a # <<>> /\ t = Tail(a)
    BY <1>2 DEF t
  <1>7. Thinner(a, t)
    BY <1>6, TailIsThinner
  <1>8. \A K : h \in K /\ Once(a, K) => Lacks(t, K)
    BY <1>6, TailOfSuch
  <1>9. Formed(h)
    BY <1>1, <1>3 DEF WellFormed, a
  <1>10. Entries({h})
    BY <1>3, <1>9 DEF Entries
  <1>11. \A u \in Tracks : Once(a, AttemptOf(u))
    BY <1>1, <1>5 DEF Booked
  <1>12. IsAttempt(h) => Lacks(t, AttemptOf(h.try.track))
    <2> HAVE IsAttempt(h)
    <2>1. h \in AttemptOf(h.try.track) /\ h.try.track \in Tracks
      BY <1>3, <1>9 DEF AttemptOf, Attempts, Entry, Formed, IsAttempt, Tries
    <2> QED
      BY <2>1, <1>8, <1>11
  <1>13. Thinner(l, l)
    BY UntouchedIsThinner
  <1> HIDE DEF h, w, v
  <1>14. Less(m, l, k, l)
    BY <1>1, <1>3, <1>4, <1>5, <1>7, <1>13 DEF Less, w, v, a, SameMedia, SameSubs
  <1>15. Cut(m, l, k, l, {h})
    BY <1>3, <1>4, <1>5, <1>10, <1>12, <1>14 DEF Cut, w, v, a
  <1> QED
    BY <1>15 DEF k, h, t, a

\* The channel fell, and the requests and what was on its way with it.
LEMMA FallingIsCut ==
    ASSUME NEW f, NEW m, NEW s, Subs(f, m, line, s)
    PROVE  Cut(m, line, FallingOf(m), <<>>, InFlight(m))
  <1> DEFINE none == <<>>
             k == FallingOf(m)
             es == InFlight(m)
             w == Way(m, line)
             v == Way(k, none)
  <1>1. /\ m \in Connections /\ line \in Seq(Messages) /\ WellFormed(m, line)
    BY DEF Subs, Shaped
  <1>2. /\ k \in Connections /\ k.asks = none /\ k.channel = "reconnecting"
    BY <1>1, FallingIs
  <1>3. none \in Seq(Messages) /\ none \in Seq(Requested) /\ Range(none) = {} /\ \A K : Lacks(none, K)
    BY EmptySeqs, EmptyLacks
  <1>4. none \o none = none
    OBVIOUS
  <1>5. v = none
    BY <1>2, <1>4 DEF Way
  <1>6. Thinner(w, none) /\ Thinner(line, none)
    BY NothingIsThinner
  <1>7. SameMedia(m, k)
    <2> HIDE DEF none
    <2>1. k = [m EXCEPT !.channel = "reconnecting", !.state = "reconnecting", !.asks = none]
      BY DEF FallingOf, none
    <2> QED
      BY <1>1, <2>1 DEF SameMedia, SameSubs, Connections
  <1>8. Range(w) = Range(line) \cup Range(m.asks) /\ Range(line) \subseteq Messages /\ Range(m.asks) \subseteq Requested
    BY <1>1, WayIs
  <1> HIDE DEF none, k, w, v
  <1>9. Entries(es) /\ es \subseteq Range(w) /\ \A e \in Range(w) : IsAttempt(e) => e \in es
    BY <1>1, <1>8 DEF Entries, InFlight, WellFormed, IsAttempt, IsAnswer
  <1>10. Range(m.asks) \subseteq es
    BY DEF InFlight
  <1> HIDE DEF es
  <1>11. Less(m, line, k, none)
    BY <1>2, <1>3, <1>5, <1>6, <1>7 DEF Less, w, v, SameMedia, SameSubs
  <1>12. Cut(m, line, k, none, es)
    BY <1>2, <1>3, <1>5, <1>7, <1>9, <1>10, <1>11 DEF Cut, w, v
  <1> QED
    BY <1>12 DEF k, es, none

-----------------------------------------------------------------------------
(* MediaSubscribing: the steps that fail, and those that only move the path.  *)

Kept(f) == Subs(f, conn', line', srv') /\ Covered(conn')

LEMMA FirstFailsKeepsSubs ==
    ASSUME NEW f, Subs(f, conn, line, srv), Covered(conn), line # <<>>, IsAnswer(First),
           conn' = AsksFailed(conn, {First}), line' = Tail(line), srv' = srv
    PROVE  Kept(f)
  <1>1. Cut(conn, line, conn, Tail(line), {First})
    BY FirstIsCut DEF First
  <1> QED
    BY <1>1, AsksFailedKeepsSubs DEF Kept

LEMMA InVainKeepsSubs ==
    ASSUME NEW f, Subs(f, conn, line, srv), Covered(conn), BasicInv, WaitedInVain
    PROVE  Kept(f)
  <1> DEFINE k == [conn EXCEPT !.asks = Tail(@)]
             es == {Head(conn.asks)}
  <1>1. /\ conn.asks # <<>> /\ conn.channel # "ready"
        /\ conn' = AsksFailed(k, es) /\ line' = line /\ srv' = srv
    BY DEF WaitedInVain, Becomes
  <1>2. line = <<>>
    BY <1>1 DEF BasicInv, PathInv, Steady, Framed, ChannelSound
  <1>3. Cut(conn, line, k, line, es)
    BY <1>1, <1>2, FirstAskIsCut
  <1> HIDE DEF k, es
  <1> QED
    BY <1>1, <1>3, AsksFailedKeepsSubs DEF Kept

LEMMA FallenKeepsSubs ==
    ASSUME NEW f, NEW m, NEW s, Subs(f, m, line, s)
    PROVE  Subs(f, Fallen(m), <<>>, s) /\ (Covered(m) => Covered(Fallen(m)))
  <1>1. Cut(m, line, FallingOf(m), <<>>, InFlight(m))
    BY FallingIsCut
  <1>2. Fallen(m) = AsksFailed(FallingOf(m), InFlight(m))
    BY DEF Fallen, FallingOf, InFlight
  <1> DEFINE none == <<>>
             k == FallingOf(m)
             es == InFlight(m)
  <1>3. Cut(m, line, k, none, es)
    BY <1>1
  <1> HIDE DEF none, k, es
  <1>4. Subs(f, AsksFailed(k, es), none, s) /\ (Covered(m) => Covered(AsksFailed(k, es)))
    BY <1>3, AsksFailedKeepsSubs
  <1> QED
    BY <1>2, <1>4 DEF none, k, es

LEMMA ForcedKeepsSubs ==
    ASSUME NEW f, NEW m, NEW s, Subs(f, m, line, s), m.channel # "ready" => line = <<>>
    PROVE  Subs(f, ForceRebuild(m), <<>>, s) /\ (Covered(m) => Covered(ForceRebuild(m)))
  <1> DEFINE k == IF m.channel = "ready" THEN Fallen(m) ELSE m
             n == [k EXCEPT !.sid = FALSE]
             none == <<>>
  <1>1. ForceRebuild(m) = n
    BY DEF ForceRebuild
  <1>2. Subs(f, k, none, s) /\ (Covered(m) => Covered(k))
    BY FallenKeepsSubs
  <1> HIDE DEF k, none
  <1>3. k \in Connections
    BY <1>2 DEF Subs, Shaped
  <1>4. Frame(k, n)
    BY <1>3 DEF Connections, Frame, SameMedia, SameSubs
  <1> HIDE DEF n
  <1>5. Subs(f, n, none, s) /\ (Covered(k) => Covered(n))
    BY <1>2, <1>4, FramedKeeps
  <1> QED
    BY <1>1, <1>2, <1>5 DEF none

LEMMA FallsKeepsSubs ==
    ASSUME NEW f, Subs(f, conn, line, srv), Covered(conn), ChannelFalls
    PROVE  Kept(f)
  BY FallenKeepsSubs DEF ChannelFalls, Kept

\* No message waits where there is no channel.
LEMMA NoLine ==
    ASSUME BasicInv
    PROVE  conn.channel # "ready" => line = <<>>
  BY DEF BasicInv, PathInv, Steady, Framed, ChannelSound

LEMMA RebuildKeepsSubs ==
    ASSUME NEW f, Subs(f, conn, line, srv), Covered(conn), BasicInv, RebuildTimeout
    PROVE  Kept(f)
  <1> DEFINE n == [conn EXCEPT !.rebuild = FALSE]
             none == <<>>
  <1>1. conn' = ForceRebuild(n) /\ line' = none /\ srv' = srv
    BY LineIsCut DEF RebuildTimeout
  <1>2. conn \in Connections
    BY BasicIsTyped
  <1>3. Frame(conn, n) /\ n.channel = conn.channel
    BY <1>2 DEF Connections, Frame, SameMedia, SameSubs
  <1> HIDE DEF n
  <1>4. Subs(f, n, line, srv) /\ Covered(n)
    BY <1>3, FramedKeeps
  <1>5. n.channel # "ready" => line = <<>>
    BY <1>3, NoLine
  <1> QED
    BY <1>1, <1>4, <1>5, ForcedKeepsSubs DEF Kept

\* A timeout of a path has fired.
LEMMA FiredIsFrame ==
    ASSUME BasicInv, NEW d \in Directions, NEW kind \in {"restart", "recovery"}, NEW stray \in BOOLEAN,
           Pends(conn.ice[d], kind, stray)
    PROVE  LET n == [conn EXCEPT !.ice[d] = Fired(@, kind, stray)] IN
           Frame(conn, n) /\ n.channel = conn.channel
  <1> DEFINE n == [conn EXCEPT !.ice[d] = Fired(@, kind, stray)]
             p == [conn.ice EXCEPT ![d] = Fired(@, kind, stray)]
             k == [conn EXCEPT !.ice = p]
  <1>1. n \in Connections /\ n.asks = conn.asks /\ n.channel = conn.channel
    BY FiredIs DEF Rerouted
  <1>2. n = k
    OBVIOUS
  <1> HIDE DEF p
  <1>3. SameMedia(conn, k)
    BY BasicIsTyped DEF SameMedia, SameSubs, Connections
  <1> HIDE DEF n, k
  <1> QED
    BY <1>1, <1>2, <1>3 DEF Frame, n

LEMMA RecoveryTimeoutKeepsSubs ==
    ASSUME NEW f, Subs(f, conn, line, srv), Covered(conn), BasicInv,
           NEW d \in Directions, NEW stray \in BOOLEAN, IceRecoveryTimeout(d, stray)
    PROVE  Kept(f)
  <1> DEFINE n == [conn EXCEPT !.ice[d] = Fired(@, "recovery", stray)]
             none == <<>>
  <1>1. \/ conn' = n /\ line' = line /\ srv' = srv
        \/ conn' = ForceRebuild(n) /\ line' = none /\ srv' = srv
    BY LineIsCut DEF IceRecoveryTimeout, Becomes
  <1>2. Frame(conn, n) /\ n.channel = conn.channel
    BY FiredIsFrame DEF IceRecoveryTimeout
  <1> HIDE DEF n
  <1>3. Subs(f, n, line, srv) /\ Covered(n)
    BY <1>2, FramedKeeps
  <1>4. n.channel # "ready" => line = <<>>
    BY <1>2, NoLine
  <1>5. CASE conn' = n /\ line' = line /\ srv' = srv
    BY <1>3, <1>5 DEF Kept
  <1>6. CASE conn' = ForceRebuild(n) /\ line' = none /\ srv' = srv
    BY <1>3, <1>4, <1>6, ForcedKeepsSubs DEF Kept
  <1> QED
    BY <1>1, <1>5, <1>6

LEMMA RestartTimeoutKeepsSubs ==
    ASSUME NEW f, Subs(f, conn, line, srv), Covered(conn), BasicInv,
           NEW d \in Directions, NEW stray \in BOOLEAN, IceRestartTimeout(d, stray)
    PROVE  Kept(f)
  <1> DEFINE n == [conn EXCEPT !.ice[d] = Fired(@, "restart", stray)]
             e == [what |-> d, try |-> Absent, id |-> conn.recv]
             k == Ask(n, d, Absent, conn.recv)
  <1>1. /\ line' = line /\ srv' = srv /\ conn' \in {n, k}
        /\ Pends(conn.ice[d], "restart", stray)
    BY DEF IceRestartTimeout, Becomes
  <1>2. Frame(conn, n) /\ n.channel = conn.channel
    BY <1>1, FiredIsFrame
  <1>3. conn.recv # Absent /\ conn \in Connections
    BY <1>1, FiredIs, BasicIsTyped
  <1>4. e \in Requested /\ Formed(e) /\ ~IsAttempt(e)
    BY <1>3 DEF Connections, Requested, Ids, Formed, IsAttempt, Directions
  <1>5. Subs(f, n, line, srv) /\ Covered(n)
    BY <1>2, FramedKeeps
  <1>6. n \in Connections
    BY <1>2 DEF Frame
  <1> HIDE DEF n
  <1>7. k \in Connections /\ SamePath(n, k) /\ k.asks = Append(n.asks, e)
    BY <1>4, <1>6, AskIs
  <1>8. SameMedia(n, k)
    BY <1>6 DEF Ask, Connections, SameMedia, SameSubs
  <1> HIDE DEF k, e
  <1>9. n.channel = k.channel
    BY <1>7 DEF SamePath
  <1>10. Subs(f, k, line, srv) /\ Covered(k)
    BY <1>4, <1>5, <1>7, <1>8, <1>9, AskKeeps
  <1> QED
    BY <1>1, <1>5, <1>10 DEF Kept

LEMMA IceConnectsKeepsSubs ==
    ASSUME NEW f, Subs(f, conn, line, srv), Covered(conn), BasicInv, NEW d \in Directions, IceConnects(d)
    PROVE  Kept(f)
  <1> DEFINE i == [CancelIceRestart(conn.ice[d]) EXCEPT !.state = "connected", !.loss = "none"]
             v == [conn EXCEPT !.ever = TRUE]
             n == [v EXCEPT !.ice[d] = i]
             x == Recovered(n)
  <1>1. /\ conn \in Connections /\ conn.ice[d] \in Paths
        /\ conn' = PathConnected(conn, d) /\ line' = line /\ srv' = srv
    BY BasicIsTyped, APath DEF IceConnects, Becomes
  <1>2. i \in Paths
    BY <1>1 DEF CancelIceRestart, Paths
  <1>3. conn' \in {x, n}
    <2>1. [conn EXCEPT !.ever = TRUE, !.ice[d] = i] = n
      BY <1>1 DEF Connections
    <2> QED
      BY <1>1, <2>1 DEF PathConnected
  <1> HIDE DEF i
  <1>4. v \in Connections /\ v.asks = conn.asks /\ v.channel = conn.channel
    BY <1>1, EverIs
  <1>5. SameMedia(conn, v)
    BY <1>1 DEF Connections, SameMedia, SameSubs
  <1> HIDE DEF v
  <1>6. Frame(conn, v)
    BY <1>4, <1>5 DEF Frame
  <1>7. Frame(v, n)
    BY <1>2, <1>4, OnePathIsFrame
  <1>8. n \in Connections
    BY <1>7 DEF Frame
  <1> HIDE DEF n
  <1>9. Frame(n, x)
    BY <1>8, RecoveredIsFrame
  <1> HIDE DEF x
  <1>10. Frame(conn, conn')
    BY <1>3, <1>6, <1>7, <1>9, FrameAgain
  <1> QED
    BY <1>1, <1>10, FramedKeeps DEF Kept

LEMMA IceFallsKeepsSubs ==
    ASSUME NEW f, Subs(f, conn, line, srv), Covered(conn), BasicInv, NEW d \in Directions, IceFalls(d)
    PROVE  Kept(f)
  <1> DEFINE i == [ScheduleIceRestart(conn.ice[d]) EXCEPT !.state = "lost", !.loss = "late"]
             j == [conn.ice[d] EXCEPT !.state = "lost", !.loss = "early"]
             s == IF conn.ever THEN "reconnecting" ELSE IF d = "send" THEN "blocked" ELSE conn.state
             h == IF conn.ever THEN i ELSE j
             v == [conn EXCEPT !.state = s]
             n == [v EXCEPT !.ice[d] = h]
  <1>1. /\ conn \in Connections /\ conn.ice[d] \in Paths
        /\ conn' = (IF conn.ever THEN PathLost(conn, d) ELSE PathBlocked(conn, d))
        /\ line' = line /\ srv' = srv
    BY BasicIsTyped, APath DEF IceFalls, Becomes
  <1>2. h \in Paths /\ s \in States
    BY <1>1 DEF ScheduleIceRestart, Paths, States, Connections
  <1>3. conn' = n
    <2>1. CASE conn.ever
      BY <1>1, <2>1 DEF PathLost, Connections
    <2>2. CASE ~conn.ever
      BY <1>1, <2>2 DEF PathBlocked, Connections
    <2> QED
      BY <2>1, <2>2
  <1> HIDE DEF h, s
  <1>4. Frame(conn, v)
    BY <1>1, <1>2, StateIsFrame
  <1>5. v \in Connections
    BY <1>4 DEF Frame
  <1> HIDE DEF v
  <1>6. Frame(v, n)
    BY <1>2, <1>5, OnePathIsFrame
  <1> HIDE DEF n
  <1>7. Frame(conn, conn')
    BY <1>3, <1>4, <1>6, FrameAgain
  <1> QED
    BY <1>1, <1>7, FramedKeeps DEF Kept

LEMMA IceTriesKeepsSubs ==
    ASSUME NEW f, Subs(f, conn, line, srv), Covered(conn), BasicInv, NEW d \in Directions, IceTries(d)
    PROVE  Kept(f)
  <1> DEFINE i == [conn.ice[d] EXCEPT !.state = "new"]
             n == [conn EXCEPT !.ice[d] = i]
  <1>1. /\ conn \in Connections /\ conn.ice[d] \in Paths
        /\ conn' = n /\ line' = line /\ srv' = srv
    BY BasicIsTyped, APath DEF IceTries, Becomes, Connections
  <1>2. i \in Paths
    BY <1>1 DEF Paths
  <1> HIDE DEF i
  <1>3. Frame(conn, n)
    BY <1>1, <1>2, OnePathIsFrame
  <1> HIDE DEF n
  <1> QED
    BY <1>1, <1>3, FramedKeeps DEF Kept

LEMMA ForgetsKeepsSubs ==
    ASSUME NEW f, Subs(f, conn, line, srv), Covered(conn), BasicInv, ServerForgets, srv' \in Servers
    PROVE  Kept(f)
  <1> DEFINE n == [conn EXCEPT !.sid = FALSE]
  <1>1. /\ conn.channel # "ready" /\ conn' = n /\ line' = line
        /\ srv' = [srv EXCEPT !.transport = Absent, !.consumers = Silence]
    BY DEF ServerForgets, ChannelReady
  <1>2. srv'.consumers = Silence /\ srv'.onAir = srv.onAir
    BY <1>1, BasicIsTyped DEF Servers
  <1>3. Subs(f, conn, line, srv')
    BY <1>1, <1>2, SilenceKeeps
  <1>4. Frame(conn, n)
    BY BasicIsTyped DEF Connections, Frame, SameMedia, SameSubs
  <1> HIDE DEF n
  <1> QED
    BY <1>1, <1>3, <1>4, FramedKeeps DEF Kept

LEMMA CapsReturnKeepsSubs ==
    ASSUME NEW f, Subs(f, conn, line, srv), Covered(conn), BasicInv, CapsReturn
    PROVE  Kept(f)
  <1> DEFINE g == Tail(line)
             k == Ask(conn, "transport", Absent, Absent)
             b == Broken(conn)
  <1>1. /\ line # <<>> /\ Head(line).what = "caps" /\ line' = g /\ srv' = srv
        /\ conn' \in {k, b}
    BY DEF CapsReturn, Receives, First
  <1>2. Subs(f, conn, g, srv)
    BY <1>1, PathTaken
  <1>3. conn \in Connections
    BY BasicIsTyped
  <1>4. Frame(conn, b)
    BY <1>3, BrokenIsFrame
  <1> HIDE DEF g, b
  <1>5. Subs(f, b, g, srv) /\ Covered(b)
    BY <1>2, <1>4, FramedKeeps
  <1>6. TransportRequest \in Requested /\ Formed(TransportRequest) /\ ~IsAttempt(TransportRequest)
    BY DEF TransportRequest, Requested, Formed, Ids, IsAttempt, Directions
  <1>7. k \in Connections /\ SamePath(conn, k) /\ k.asks = Append(conn.asks, TransportRequest)
    BY <1>3, <1>6, AskIs DEF TransportRequest
  <1>8. SameMedia(conn, k)
    BY <1>3 DEF Ask, Connections, SameMedia, SameSubs
  <1> HIDE DEF k
  <1>9. k.channel = conn.channel
    BY <1>7 DEF SamePath
  <1>10. Subs(f, k, g, srv) /\ Covered(k)
    BY <1>2, <1>6, <1>7, <1>8, <1>9, AskKeeps
  <1> QED
    BY <1>1, <1>5, <1>10 DEF Kept

LEMMA IceReturnsKeepsSubs ==
    ASSUME NEW f, Subs(f, conn, line, srv), Covered(conn), BasicInv,
           NEW d \in Directions, IceReturns(d)
    PROVE  Kept(f)
  <1> DEFINE g == Tail(line)
             ds == {d}
             k == IceRenegotiated(conn, ds, First.id)
             none == <<>>
  <1>1. /\ line # <<>> /\ Head(line).what = d /\ srv' = srv
        /\ \/ conn' = k /\ line' = g
           \/ conn' = ForceRebuild(conn) /\ line' = none
    BY DEF IceReturns, Receives, First
  <1>2. Subs(f, conn, g, srv)
    BY <1>1, PathTaken
  <1>3. conn \in Connections
    BY BasicIsTyped
  <1> HIDE DEF ds
  <1>4. Frame(conn, k)
    BY <1>3, RenegotiatedIsFrame
  <1> HIDE DEF g, k
  <1>5. Subs(f, k, g, srv) /\ Covered(k)
    BY <1>2, <1>4, FramedKeeps
  <1>6. Subs(f, ForceRebuild(conn), none, srv) /\ Covered(ForceRebuild(conn))
    BY NoLine, ForcedKeepsSubs
  <1> HIDE DEF none
  <1> QED
    BY <1>1, <1>5, <1>6 DEF Kept


-----------------------------------------------------------------------------
(* MediaSubscribing: what the page hears of the room.                         *)

\* An event of the room is taken: what does not depend on what it does.
Taken(f, m, l, k, g, s) ==
    /\ k.recv = m.recv /\ k.consuming = m.consuming /\ k.making = m.making /\ k.asks = m.asks
    /\ k.channel = m.channel /\ k.resting = m.resting
    /\ Shaped(k, g, s)
    /\ Booked(k, Way(k, g)) /\ Counted(k, Way(k, g)) /\ Awaited(k, Way(k, g)) /\ Tagged(f, k, g, s)
    /\ \A t : Under(k, Way(k, g), t) <=> Under(m, Way(m, l), t)
    /\ Range(l) = {Head(l)} \cup Range(g)
    /\ \A K : Lacks(l, K) <=> Lacks(g, K) /\ Head(l) \notin K
    /\ \A K : Once(l, K) => Once(g, K) /\ (Head(l) \in K => Lacks(g, K))
    /\ \A A, B : Ordered(l, A, B) => Ordered(g, A, B) /\ (Head(l) \in A => Lacks(g, B))

LEMMA EventTaken ==
    ASSUME NEW f, NEW m, NEW l, NEW s, Subs(f, m, l, s), l # <<>>,
           Head(l).what \in {"announced", "closed", "gone"},
           NEW k \in Connections, k.recv = m.recv, k.consuming = m.consuming, k.making = m.making,
           k.asks = m.asks, k.channel = m.channel /\ k.resting = m.resting,
           \A t \in Tracks : k.consumers[t] \in {m.consumers[t], Absent}
    PROVE  Taken(f, m, l, k, Tail(l), s)
  <1> DEFINE w == Way(m, l)
             g == Tail(l)
             v == Way(m, g)
             h == Head(l)
  <1>1. /\ Less(m, l, m, g)
        /\ Range(w) = {h} \cup Range(v) /\ Range(l) = {h} \cup Range(g)
        /\ \A K : Lacks(w, K) <=> Lacks(v, K) /\ h \notin K
        /\ \A K : Lacks(l, K) <=> Lacks(g, K) /\ h \notin K
        /\ \A K : h \in K /\ Once(l, K) => Lacks(g, K)
        /\ \A A, B : h \in A /\ Ordered(l, A, B) => Lacks(g, B)
    BY TailIs
  <1>2. h.what \in {"announced", "closed", "gone"}
    OBVIOUS
  <1>3. Way(k, g) = v
    BY DEF Way
  <1> HIDE DEF g, h
  <1>4. Thinner(l, g) /\ Thinner(w, v) /\ g \in Seq(Messages)
    BY <1>1 DEF Less
  <1> HIDE DEF w, v
  <1>5. Less(m, l, k, g)
    BY <1>3, <1>4 DEF Less, w
  <1>6. Shaped(k, g, s) /\ Booked(k, v) /\ Awaited(k, v) /\ Tagged(f, k, g, s)
    BY <1>3, <1>5, LessKeeps
  <1>7. \A t : Lacks(v, AttemptOf(t)) <=> Lacks(w, AttemptOf(t))
    <2>1. \A t : h \notin AttemptOf(t)
      BY <1>2 DEF AttemptOf, Attempts, IsAttempt
    <2> QED
      BY <1>1, <2>1
  <1>8. \A t : Under(k, v, t) <=> Under(m, w, t)
    BY <1>7 DEF Under, Makes
  <1>9. Counted(k, v)
    <2>1. Counted(m, w)
      BY DEF Subs, w
    <2> QED
      BY <2>1, <1>1, <1>8 DEF Counted
  <1>10. \A K : Once(l, K) => Once(g, K)
    BY <1>4 DEF Thinner
  <1>11. \A A, B : Ordered(l, A, B) => Ordered(g, A, B)
    BY <1>4 DEF Thinner
  <1>12. Taken(f, m, l, k, g, s)
    BY <1>1, <1>3, <1>6, <1>8, <1>9, <1>10, <1>11 DEF Taken, w, v, h
  <1> QED
    BY <1>12 DEF g

\* No transport is being made while there is one.
LEMMA NoPaths ==
    ASSUME BasicInv, conn.recv # Absent
    PROVE  Lacks(Way(conn, line), PathRequests)
  <1>1. Lacks(line, Builds) /\ Lacks(conn.asks, Builds) /\ conn \in Connections /\ line \in Seq(Messages)
    BY DEF BasicInv, PathInv, Steady, Framed, OneSession
  <1>2. Range(Way(conn, line)) = Range(line) \cup Range(conn.asks)
    BY <1>1, WayIs
  <1>3. Range(line) \cap Builds = {} /\ Range(conn.asks) \cap Builds = {}
    BY <1>1, LacksIsRange
  <1>4. Range(Way(conn, line)) \cap PathRequests = {}
    BY <1>2, <1>3 DEF PathRequests, Builds, Entry
  <1> QED
    BY <1>4, LacksIsRange

LEMMA RetryKeepsSubs ==
    ASSUME NEW f, Subs(f, conn, line, srv), Covered(conn), BasicInv, NEW t \in Tracks, RetryTimeout(t)
    PROVE  Kept(f)
  <1> DEFINE m == [conn EXCEPT !.retries = @ \ {t}]
             n == EnsureConsumed(m, {t}, TRUE)
  <1>1. /\ line' = line /\ srv' = srv /\ conn \in Connections
        /\ conn' = IF t \in conn.announced THEN n ELSE m
    BY BasicIsTyped DEF RetryTimeout, Becomes
  <1>2. /\ m \in Connections /\ SameSubs(conn, m) /\ m.asks = conn.asks /\ m.channel = conn.channel /\ m.resting = conn.resting
        /\ m.retries = conn.retries \ {t} /\ m.gaveUp = conn.gaveUp
    BY <1>1 DEF Connections, SameSubs
  <1> HIDE DEF m
  <1>3. conn.recv = Absent => m.retries = {}
    BY <1>2 DEF Subs, Released
  <1>4. Subs(f, m, line, srv)
    BY <1>2, <1>3, FrameOfSubs
  <1>5. m.recv = conn.recv /\ m.announced = conn.announced /\ m.resting = conn.resting
    BY <1>2 DEF SameSubs
  <1>6. \A u : u # t /\ CoveredAt(conn, u) => CoveredAt(m, u)
    BY <1>2 DEF SameSubs, CoveredAt
  <1>7. CASE t \notin conn.announced
    <2>1. Covered(m)
      BY <1>5, <1>6, <1>7 DEF Covered, Reconciled
    <2> QED
      BY <1>1, <1>4, <1>7, <2>1 DEF Kept
  <1>8. CASE t \in conn.announced
    <2>1. m.recv # Absent => Lacks(Way(m, line), PathRequests)
      BY <1>2, <1>5, NoPaths DEF Way
    <2>2. {t} \in SUBSET m.announced
      BY <1>5, <1>8
    <2>3. PICK b \in BOOLEAN : b = TRUE
      OBVIOUS
    <2>4. n = EnsureConsumed(m, {t}, b)
      BY <2>3
    <2> DEFINE ts == {t}
    <2>6. ts \in SUBSET m.announced /\ n = EnsureConsumed(m, ts, b)
      BY <2>2, <2>4
    <2>7. \A u : u \in ts <=> u = t
      OBVIOUS
    <2> HIDE DEF n, ts
    <2>5. Ensured(f, m, n, line, srv, ts)
      BY <1>4, <2>1, <2>6, EnsureKeepsSubs
    <2>8. Covered(n)
      BY <1>5, <1>6, <2>5, <2>7 DEF Ensured, Covered, Reconciled
    <2> QED
      BY <1>1, <1>8, <2>5, <2>8 DEF Kept, Ensured
  <1> QED
    BY <1>7, <1>8

\* A subscription to t begins, and covers it.
LEMMA EnsureCovers ==
    ASSUME NEW f, NEW m, NEW l, NEW s, Subs(f, m, l, s), NEW t \in m.announced,
           m.recv # Absent => Lacks(Way(m, l), PathRequests),
           Reconciled(m) => \A u \in m.announced : u # t => CoveredAt(m, u)
    PROVE  LET n == EnsureConsumed(m, {t}, FALSE) IN Subs(f, n, l, s) /\ Covered(n)
  <1> DEFINE n == EnsureConsumed(m, {t}, FALSE)
  <1>1. PICK b \in BOOLEAN : b = FALSE
    OBVIOUS
  <1>2. n = EnsureConsumed(m, {t}, b)
    BY <1>1
  <1>3. {t} \in SUBSET m.announced
    OBVIOUS
  <1> HIDE DEF n
  <1>4. Ensured(f, m, n, l, s, {t})
    BY <1>2, <1>3, EnsureKeepsSubs
  <1> QED
    BY <1>4 DEF Ensured, Covered, Reconciled, n

LEMMA AnnouncedKeepsSubs ==
    ASSUME NEW f, Subs(f, conn, line, srv), Covered(conn), BasicInv, TrackAnnounced
    PROVE  Kept(f)
  <1> DEFINE h == Head(line)
             t == h.try.track
             k == [conn EXCEPT !.announced = @ \cup {t}]
             g == Tail(line)
             m == conn
             l == line
             s == srv
             w == Way(m, l)
             v == Way(k, g)
  <1>1. /\ line # <<>> /\ h.what = "announced" /\ line' = g /\ srv' = srv
        /\ conn' = EnsureConsumed(k, {t}, FALSE)
    BY DEF TrackAnnounced, Receives, First
  <1>2. m \in Connections /\ h \in Messages /\ Formed(h)
    BY <1>1, BasicIsTyped, FirstIs DEF First
  <1>3. t \in Tracks
    BY <1>1, <1>2 DEF Formed, Tries
  <1> HIDE DEF t
  <1>4. /\ k \in Connections /\ k.recv = m.recv /\ k.consuming = m.consuming /\ k.making = m.making
        /\ k.asks = m.asks /\ k.channel = m.channel /\ k.resting = m.resting
        /\ k.consumers = m.consumers /\ k.open = m.open /\ k.shown = m.shown
        /\ k.retries = m.retries /\ k.gaveUp = m.gaveUp /\ k.announced = m.announced \cup {t}
    BY <1>2, <1>3 DEF Connections
  <1> HIDE DEF k
  <1>5. Taken(f, m, l, k, g, s)
    BY <1>1, <1>4, EventTaken
  <1>6. /\ Shaped(k, g, s)
        /\ Booked(k, v) /\ Counted(k, v) /\ Awaited(k, v) /\ Tagged(f, k, g, s)
        /\ \A u : Under(k, v, u) <=> Under(m, w, u)
        /\ Range(l) = {h} \cup Range(g)
        /\ \A K : Lacks(l, K) <=> Lacks(g, K) /\ h \notin K
        /\ \A K : Once(l, K) => Once(g, K) /\ (h \in K => Lacks(g, K))
        /\ \A A, B : Ordered(l, A, B) => Ordered(g, A, B) /\ (h \in A => Lacks(g, B))
    BY <1>5 DEF Taken
  <1>7. Subs(f, m, l, s) /\ Covered(m) /\ h.try.track = t
    BY DEF t
  <1>8. Range(w) = Range(l) \cup Range(m.asks) /\ Range(w) \subseteq Entry
    BY <1>7, WayIs DEF Subs, Shaped, Entry
  <1> HIDE DEF h, g, m, l, s, w, v
  <1>9. /\ h \in AnnouncedOf(t) /\ \A u : u # t => h \notin AnnouncedOf(u)
        /\ \A u : h \notin ClosedOf(u)
    BY <1>1, <1>2, <1>7 DEF AnnouncedOf, ClosedOf
  <1>10. t \notin m.announced /\ ~Under(m, w, t)
    BY <1>3, <1>6, <1>7, <1>9 DEF Subs, News, w
  <1>11. Released(k) /\ Held(k)
    BY <1>4, <1>7 DEF Subs, Released, Held
  <1>12. Resumable(k, g, s)
    <2>1. Resumable(m, l, s)
      BY <1>7 DEF Subs
    <2>2. \A e \in Range(m.asks) : e.what = "resume" => e.try.track # t
      BY <1>8, <1>10, LacksIs DEF Under, IsAttempt
    <2>3. \A e \in Range(l) : e.what = "resume" => e.try.track # t
      BY <1>8, <1>10, LacksIs DEF Under, IsAttempt
    <2> QED
      BY <2>1, <2>2, <2>3, <1>4, <1>6 DEF Resumable
  <1>13. Agree(k, g, s)
    <2>1. Agree(m, l, s)
      BY <1>7 DEF Subs
    <2>2. \A u : WillHear(m, l, u) => WillHear(k, g, u)
      BY <1>1, <1>4, <1>6 DEF WillHear
    <2> QED
      BY <2>1, <2>2, <1>4 DEF Agree
  <1>14. RoomKnown(k, g, s)
    BY <1>4, <1>6, <1>7, <1>9 DEF Subs, RoomKnown
  <1>15. News(k, g, s)
    <2>1. News(m, l, s)
      BY <1>7 DEF Subs
    <2>2. \A u : Under(k, Way(k, g), u) <=> Under(m, Way(m, l), u)
      BY <1>6 DEF v, w
    <2>3. Lacks(g, AnnouncedOf(t))
      BY <2>1, <1>3, <1>6, <1>9 DEF News
    <2> QED
      BY <2>1, <2>2, <2>3, <1>4, <1>6, <1>9 DEF News
  <1>16. Subs(f, k, g, s)
    BY <1>6, <1>11, <1>12, <1>13, <1>14, <1>15 DEF Subs, v
  <1>17. k.recv # Absent => Lacks(Way(k, g), PathRequests)
    <2>1. m.recv # Absent => Lacks(w, PathRequests)
      BY NoPaths DEF m, l, w
    <2>2. Range(v) \subseteq Range(w)
      <3>1. Range(v) = Range(g) \cup Range(k.asks)
        BY <1>6, WayIs DEF Shaped, v
      <3> QED
        BY <3>1, <1>4, <1>6, <1>8
    <2>3. (Lacks(w, PathRequests) <=> Range(w) \cap PathRequests = {}) /\ (Lacks(v, PathRequests) <=> Range(v) \cap PathRequests = {})
      BY LacksIsRange
    <2> QED
      BY <2>1, <2>2, <2>3, <1>4 DEF v
  <1>18. Reconciled(k) => \A u \in k.announced : u # t => CoveredAt(k, u)
    BY <1>4, <1>7 DEF Covered, Reconciled, CoveredAt
  <1>19. t \in k.announced
    BY <1>4
  <1> DEFINE n == EnsureConsumed(k, {t}, FALSE)
  <1>20. Subs(f, n, g, s) /\ Covered(n)
    BY <1>16, <1>17, <1>18, <1>19, EnsureCovers
  <1> HIDE DEF n
  <1> QED
    BY <1>1, <1>20 DEF Kept, n, s

LEMMA ClosedKeepsSubs ==
    ASSUME NEW f, Subs(f, conn, line, srv), Covered(conn), BasicInv, TrackClosed
    PROVE  Kept(f)
  <1> DEFINE h == Head(line)
             t == h.try.track
             d == [conn EXCEPT !.announced = @ \ {t}]
             k == IF t \notin conn.announced THEN conn ELSE DropThose(d, {t})
             g == Tail(line)
             m == conn
             l == line
             s == srv
             w == Way(m, l)
             v == Way(k, g)
  <1>1. /\ line # <<>> /\ h.what = "closed" /\ line' = g /\ srv' = srv
        /\ conn' = k
    BY DEF TrackClosed, Receives, First
  <1>2. m \in Connections /\ h \in Messages /\ Formed(h) /\ m.channel = "ready"
    BY <1>1, BasicIsTyped, FirstIs DEF First
  <1>3. t \in Tracks
    BY <1>1, <1>2 DEF Formed, Tries
  <1>4. Subs(f, m, l, s) /\ Covered(m) /\ h.try.track = t /\ Held(m) /\ Tagged(f, m, l, s)
    BY DEF Subs
  <1> HIDE DEF t
  <1>5. /\ d \in Connections /\ d.recv = m.recv /\ d.consuming = m.consuming /\ d.making = m.making
        /\ d.asks = m.asks /\ d.channel = m.channel /\ d.resting = m.resting
        /\ d.consumers = m.consumers /\ d.open = m.open /\ d.shown = m.shown
        /\ d.retries = m.retries /\ d.gaveUp = m.gaveUp /\ d.announced = m.announced \ {t}
    BY <1>2 DEF Connections
  <1> HIDE DEF d
  <1>6. ThoseDropped(d, DropThose(d, {t}), {t})
    BY <1>3, <1>4, <1>5, DropThoseIs DEF Held, Tagged
  <1>7. /\ k \in Connections /\ k.recv = m.recv /\ k.consuming = m.consuming /\ k.making = m.making
        /\ k.asks = m.asks /\ k.channel = m.channel /\ k.resting = m.resting
        /\ k.retries = m.retries /\ k.gaveUp = m.gaveUp /\ k.announced = m.announced \ {t}
        /\ \A u \in Tracks : k.consumers[u] = IF u = t THEN Absent ELSE m.consumers[u]
        /\ k.open = {k.consumers[u] : u \in Tracks} \ {Absent}
        /\ k.shown \subseteq k.open
        /\ \A u \in Tracks \ {t} : m.consumers[u] \in m.shown => m.consumers[u] \in k.shown
    <2>1. CASE t \notin m.announced
      <3>1. k = m /\ m.announced \ {t} = m.announced
        BY <2>1
      <3>2. m.consumers[t] = Absent
        BY <1>3, <1>4, <2>1 DEF Held
      <3> HIDE DEF k, m
      <3> QED
        BY <1>2, <1>3, <1>4, <3>1, <3>2 DEF Held
    <2>2. CASE t \in m.announced
      <3>1. k = DropThose(d, {t})
        BY <2>2
      <3> HIDE DEF k, m
      <3> QED
        BY <1>5, <1>6, <3>1 DEF ThoseDropped
    <2> QED
      BY <2>1, <2>2
  <1> HIDE DEF k
  <1>8. Taken(f, m, l, k, g, s)
    BY <1>1, <1>7, EventTaken
  <1>9. /\ Shaped(k, g, s)
        /\ Booked(k, v) /\ Counted(k, v) /\ Awaited(k, v) /\ Tagged(f, k, g, s)
        /\ \A u : Under(k, v, u) <=> Under(m, w, u)
        /\ Range(l) = {h} \cup Range(g)
        /\ \A K : Lacks(l, K) <=> Lacks(g, K) /\ h \notin K
        /\ \A K : Once(l, K) => Once(g, K) /\ (h \in K => Lacks(g, K))
        /\ \A A, B : Ordered(l, A, B) => Ordered(g, A, B) /\ (h \in A => Lacks(g, B))
    BY <1>8 DEF Taken
  <1> HIDE DEF h, g, m, l, s, w, v
  <1>10. /\ h \in ClosedOf(t) /\ \A u : u # t => h \notin ClosedOf(u)
         /\ \A u : h \notin AnnouncedOf(u)
    BY <1>1, <1>2, <1>4 DEF AnnouncedOf, ClosedOf
  <1>11. Released(k) /\ Held(k)
    BY <1>4, <1>7 DEF Subs, Released, Held
  <1>12. Resumable(k, g, s)
    <2>1. Resumable(m, l, s)
      BY <1>4 DEF Subs
    <2>2. WellFormed(k, g)
      BY <1>9 DEF Shaped
    <2>3. \A e \in Range(g) \cup Range(k.asks) : e.what = "resume" => e.try.track \in Tracks
      BY <2>2 DEF WellFormed, Formed, Tries
    <2>4. \A c \in Consumers : Ordered(g, GoneOf(c), ResumedOf(c))
      BY <2>1, <1>9 DEF Resumable
    <2>5. \A e \in Range(k.asks) : e.what = "resume" /\ k.recv # Absent =>
           \/ k.consumers[e.try.track] = e.id
           \/ e.try.track \notin k.announced
           \/ s.consumers[e.id] = Absent
      BY <2>1, <2>3, <1>7 DEF Resumable
    <2>6. \A e \in Range(g) : e.what = "resume" /\ e.ok /\ k.recv # Absent =>
           k.consumers[e.try.track] = e.id \/ e.try.track \notin k.announced
      BY <2>1, <2>3, <1>7, <1>9 DEF Resumable
    <2> QED
      BY <2>1, <2>4, <2>5, <2>6, <1>9 DEF Resumable
  <1>13. Agree(k, g, s)
    <2>1. Agree(m, l, s)
      BY <1>4 DEF Subs
    <2>2. \A u \in Tracks \ {t} : WillHear(m, l, u) => WillHear(k, g, u)
      BY <1>1, <1>4, <1>7, <1>9 DEF WillHear
    <2> QED
      BY <2>1, <2>2, <1>7 DEF Agree
  <1>14. \A u \in Tracks :
            u \in s.onAir <=> /\ u \in m.announced \/ ~Lacks(l, AnnouncedOf(u))
                              /\ Lacks(l, ClosedOf(u))
    BY <1>2, <1>4 DEF Subs, RoomKnown
  <1>15. News(m, l, s)
    BY <1>4 DEF Subs
  <1>16. t \notin s.onAir /\ Lacks(g, AnnouncedOf(t))
    BY <1>3, <1>9, <1>10, <1>14, <1>15 DEF News
  <1>17. RoomKnown(k, g, s)
    BY <1>7, <1>9, <1>10, <1>14, <1>16 DEF RoomKnown
  <1>18. News(k, g, s)
    <2>1. \A u : Under(k, Way(k, g), u) <=> Under(m, Way(m, l), u)
      BY <1>9 DEF v, w
    <2> QED
      BY <2>1, <1>7, <1>9, <1>10, <1>15, <1>16 DEF News
  <1>19. Subs(f, k, g, s)
    BY <1>9, <1>11, <1>12, <1>13, <1>17, <1>18 DEF Subs, v
  <1>20. Covered(k)
    <2>1. m.announced \subseteq Tracks
      BY <1>2 DEF Connections
    <2> QED
      BY <2>1, <1>4, <1>7 DEF Covered, Reconciled, CoveredAt
  <1> QED
    BY <1>1, <1>19, <1>20 DEF Kept, s

LEMMA GoneKeepsSubs ==
    ASSUME NEW f, Subs(f, conn, line, srv), Covered(conn), BasicInv, ConsumerClosed
    PROVE  Kept(f)
  <1> DEFINE h == Head(line)
             t == h.try.track
             c == h.id
             ts == {u \in {t} : conn.consumers[u] = c}
             k == DropThose(conn, ts)
             g == Tail(line)
             m == conn
             l == line
             s == srv
             w == Way(m, l)
             v == Way(k, g)
             n == EnsureConsumed(k, {t}, FALSE)
  <1>1. /\ line # <<>> /\ h.what = "gone" /\ line' = g /\ srv' = srv
        /\ conn' = IF t \in conn.announced THEN n ELSE k
    BY DEF ConsumerClosed, Receives, First, DropConsumer
  <1>2. m \in Connections /\ h \in Messages /\ Formed(h) /\ h \in Range(l)
    BY <1>1, BasicIsTyped, FirstIs DEF First
  <1>3. t \in Tracks /\ c \in Consumers
    BY <1>1, <1>2 DEF Formed, Tries
  <1>4. Subs(f, m, l, s) /\ Covered(m) /\ h.try.track = t /\ h.id = c /\ Held(m) /\ Tagged(f, m, l, s)
    BY DEF Subs
  <1>5. ts \in SUBSET Tracks /\ \A u : u \in ts <=> u = t /\ m.consumers[t] = c
    BY <1>3
  <1> HIDE DEF t, c, ts
  <1>6. ThoseDropped(m, k, ts)
    BY <1>2, <1>4, <1>5, DropThoseIs DEF Held, Tagged
  <1> HIDE DEF k
  <1>7. /\ k \in Connections /\ k.recv = m.recv /\ k.consuming = m.consuming /\ k.making = m.making
        /\ k.asks = m.asks /\ k.channel = m.channel /\ k.resting = m.resting
        /\ k.retries = m.retries /\ k.gaveUp = m.gaveUp /\ k.announced = m.announced
        /\ \A u \in Tracks : k.consumers[u] = IF u \in ts THEN Absent ELSE m.consumers[u]
        /\ k.open = {k.consumers[u] : u \in Tracks} \ {Absent}
        /\ k.shown \subseteq k.open
        /\ \A u \in Tracks \ ts : m.consumers[u] \in m.shown => m.consumers[u] \in k.shown
    BY <1>6 DEF ThoseDropped
  <1>8. Taken(f, m, l, k, g, s)
    BY <1>1, <1>7, EventTaken
  <1>9. /\ Shaped(k, g, s)
        /\ Booked(k, v) /\ Counted(k, v) /\ Awaited(k, v) /\ Tagged(f, k, g, s)
        /\ \A u : Under(k, v, u) <=> Under(m, w, u)
        /\ Range(l) = {h} \cup Range(g)
        /\ \A K : Lacks(l, K) <=> Lacks(g, K) /\ h \notin K
        /\ \A K : Once(l, K) => Once(g, K) /\ (h \in K => Lacks(g, K))
        /\ \A A, B : Ordered(l, A, B) => Ordered(g, A, B) /\ (h \in A => Lacks(g, B))
    BY <1>8 DEF Taken
  <1> HIDE DEF h, g, m, l, s, w, v
  <1>10. /\ h \in GoneOf(c) /\ \A u : h \notin ClosedOf(u) /\ h \notin AnnouncedOf(u)
    BY <1>1, <1>2, <1>4 DEF AnnouncedOf, ClosedOf, GoneOf
  <1>11. Released(k) /\ Held(k)
    BY <1>4, <1>7 DEF Subs, Released, Held
  <1>12. s.consumers[c] = Absent /\ Lacks(g, ResumedOf(c)) /\ f[c] = t
    <2>1. Resumable(m, l, s)
      BY <1>4 DEF Subs
    <2> QED
      BY <2>1, <1>1, <1>2, <1>3, <1>4, <1>9, <1>10 DEF Resumable, Tagged
  <1>13. Resumable(k, g, s)
    <2>1. Resumable(m, l, s)
      BY <1>4 DEF Subs
    <2>2. WellFormed(k, g) /\ g \in Seq(Messages)
      BY <1>9 DEF Shaped
    <2>3. \A e \in Range(g) \cup Range(k.asks) : e.what = "resume" => e.try.track \in Tracks
      BY <2>2 DEF WellFormed, Formed, Tries
    <2>4. \A d \in Consumers : Ordered(g, GoneOf(d), ResumedOf(d))
      BY <2>1, <1>9 DEF Resumable
    <2>5. \A e \in Range(k.asks) : e.what = "resume" /\ k.recv # Absent =>
           \/ k.consumers[e.try.track] = e.id
           \/ e.try.track \notin k.announced
           \/ s.consumers[e.id] = Absent
      BY <2>1, <2>3, <1>5, <1>7, <1>12 DEF Resumable
    <2>6. Range(g) \cap ResumedOf(c) = {} /\ Range(g) \subseteq Messages
      BY <2>2, <1>12, LacksIsRange DEF Range
    <2>7. \A e \in Range(g) : e.what = "resume" /\ e.ok => e.id # c
      BY <2>6 DEF ResumedOf
    <2>8. \A e \in Range(g) : e.what = "resume" /\ e.ok /\ k.recv # Absent =>
           k.consumers[e.try.track] = e.id \/ e.try.track \notin k.announced
      BY <2>1, <2>3, <2>7, <1>5, <1>7, <1>9 DEF Resumable
    <2> QED
      BY <2>1, <2>4, <2>5, <2>8, <1>9 DEF Resumable
  <1>14. Agree(k, g, s)
    <2>1. Agree(m, l, s)
      BY <1>4 DEF Subs
    <2> SUFFICES ASSUME k.channel = "ready", NEW u \in Tracks, k.consumers[u] # Absent,
                        s.consumers[k.consumers[u]] # u
                 PROVE  WillHear(k, g, u)
      BY DEF Agree
    <2>2. u \notin ts /\ k.consumers[u] = m.consumers[u]
      BY <1>7
    <2>3. WillHear(m, l, u) /\ f[m.consumers[u]] = u
      BY <2>1, <2>2, <1>4, <1>7 DEF Agree, Tagged
    <2>4. m.consumers[u] # c
      BY <2>2, <2>3, <1>5, <1>12
    <2> QED
      BY <2>2, <2>3, <2>4, <1>1, <1>4, <1>7, <1>9 DEF WillHear
  <1>15. RoomKnown(k, g, s)
    BY <1>4, <1>7, <1>9, <1>10 DEF Subs, RoomKnown
  <1>16. News(k, g, s)
    <2>1. News(m, l, s)
      BY <1>4 DEF Subs
    <2>2. \A u : Under(k, Way(k, g), u) <=> Under(m, Way(m, l), u)
      BY <1>9 DEF v, w
    <2> QED
      BY <2>1, <2>2, <1>7, <1>9, <1>10 DEF News
  <1>17. Subs(f, k, g, s)
    BY <1>9, <1>11, <1>13, <1>14, <1>15, <1>16 DEF Subs, v
  <1>18. Reconciled(k) => \A u \in k.announced : u # t => CoveredAt(k, u)
    <2>1. m.announced \subseteq Tracks
      BY <1>2 DEF Connections
    <2> QED
      BY <2>1, <1>4, <1>5, <1>7 DEF Covered, Reconciled, CoveredAt
  <1>19. k.recv # Absent => Lacks(Way(k, g), PathRequests)
    <2>1. m.recv # Absent => Lacks(w, PathRequests)
      BY NoPaths DEF m, l, w
    <2>2. Range(v) \subseteq Range(w)
      <3>1. Range(v) = Range(g) \cup Range(k.asks)
        BY <1>9, WayIs DEF Shaped, v
      <3>2. Range(w) = Range(l) \cup Range(m.asks)
        BY <1>4, WayIs DEF Subs, Shaped, w
      <3> QED
        BY <3>1, <3>2, <1>7, <1>9
    <2>3. (Lacks(w, PathRequests) <=> Range(w) \cap PathRequests = {}) /\ (Lacks(v, PathRequests) <=> Range(v) \cap PathRequests = {})
      BY LacksIsRange
    <2> QED
      BY <2>1, <2>2, <2>3, <1>7 DEF v
  <1>20. CASE t \in m.announced
    <2>1. conn' = n
      BY <1>1, <1>20 DEF m
    <2>2. t \in k.announced
      BY <1>7, <1>20
    <2>3. Subs(f, n, g, s) /\ Covered(n)
      BY <1>17, <1>18, <1>19, <2>2, EnsureCovers
    <2> HIDE DEF n
    <2> QED
      BY <1>1, <2>1, <2>3 DEF Kept, s
  <1>21. CASE t \notin m.announced
    <2>1. conn' = k
      BY <1>1, <1>21 DEF m
    <2>2. Covered(k)
      BY <1>7, <1>18, <1>21 DEF Covered, Reconciled
    <2> QED
      BY <1>1, <1>17, <2>1, <2>2 DEF Kept, s
  <1> QED
    BY <1>20, <1>21


-----------------------------------------------------------------------------
(* MediaSubscribing: a subscription from its answer to its end.               *)

\* The answer to an attempt is all there is of it.
LEMMA AttemptIsAlone ==
    ASSUME NEW f, NEW m, NEW l, NEW s, Subs(f, m, l, s), l # <<>>, IsAttempt(Head(l))
    PROVE  LET t == Head(l).try.track IN
           /\ t \in Tracks /\ Head(l).try \in Tries
           /\ Lacks(Way(m, Tail(l)), AttemptOf(t)) /\ ~Makes(m, t)
           /\ \A u : Under(m, Way(m, Tail(l)), u) <=> Under(m, Way(m, l), u) /\ u # t
           /\ Under(m, Way(m, l), t)
  <1> DEFINE w == Way(m, l)
             g == Tail(l)
             v == Way(m, g)
             h == Head(l)
             t == h.try.track
  <1>1. /\ h \in Messages /\ Formed(h)
        /\ \A K : Lacks(w, K) <=> Lacks(v, K) /\ h \notin K
        /\ \A K : h \in K /\ Once(w, K) => Lacks(v, K)
    BY TailIs
  <1>2. IsAttempt(h) /\ Booked(m, w) /\ h.try.track = t
    BY DEF Subs
  <1> HIDE DEF w, v, g, h, t
  <1>3. t \in Tracks /\ h.try \in Tries /\ h \in AttemptOf(t) /\ \A u : u # t => h \notin AttemptOf(u)
    BY <1>1, <1>2 DEF AttemptOf, Attempts, Entry, Formed, IsAttempt, Tries
  <1>4. Lacks(v, AttemptOf(t)) /\ ~Makes(m, t) /\ Under(m, w, t)
    BY <1>1, <1>2, <1>3 DEF Booked, Under
  <1>5. \A u : Under(m, v, u) <=> Under(m, w, u) /\ u # t
    BY <1>1, <1>3, <1>4 DEF Under
  <1> QED
    BY <1>3, <1>4, <1>5 DEF w, v, g, h, t

\* It ends, and nobody wants the track any more.
LEMMA EndedKeepsSubs ==
    ASSUME NEW f, Subs(f, conn, line, srv), Covered(conn), line # <<>>, IsAttempt(First),
           conn.consumers[First.try.track] = Absent,
           conn.recv = Absent \/ First.try.track \notin conn.announced,
           conn' = ConsumeEnded(conn, First.try), line' = Tail(line), srv' = srv
    PROVE  Kept(f)
  <1> DEFINE m == conn
             l == line
             g == Tail(line)
             h == Head(line)
             t == h.try.track
             k == ConsumeEnded(conn, h.try)
             w == Way(m, l)
             v == Way(m, g)
  <1>1. /\ Less(m, l, m, g)
        /\ Range(l) = {h} \cup Range(g)
    BY TailIs
  <1>2. /\ t \in Tracks
        /\ \A u : Under(m, v, u) <=> Under(m, w, u) /\ u # t
    BY AttemptIsAlone DEF First
  <1>3. /\ IsAttempt(h) /\ m.consumers[t] = Absent /\ (m.recv = Absent \/ t \notin m.announced)
        /\ conn' = k /\ line' = g /\ srv' = srv /\ Subs(f, m, l, srv) /\ Covered(m) /\ h.try.track = t
    BY DEF First
  <1>4. m \in Connections /\ Held(m)
    BY DEF Subs, Shaped
  <1> HIDE DEF t
  <1>5. /\ k \in Connections /\ k.channel = m.channel /\ k.resting = m.resting /\ k.asks = m.asks
        /\ k.recv = m.recv /\ k.announced = m.announced /\ k.consumers = m.consumers
        /\ k.consuming = m.consuming \ {t} /\ k.making = m.making /\ k.open = m.open
        /\ k.retries = m.retries /\ k.gaveUp = m.gaveUp /\ k.shown = m.shown
    BY <1>3, <1>4 DEF ConsumeEnded, Connections
  <1>6. Way(k, g) = v
    BY <1>5 DEF Way
  <1> HIDE DEF k, m, l, g, h, w, v
  <1>7. Less(m, l, k, g)
    <2>1. Thinner(l, g) /\ Thinner(Way(m, l), v) /\ g \in Seq(Messages)
      BY <1>1 DEF Less, v
    <2> QED
      BY <2>1, <1>5, <1>6 DEF Less
  <1>8. \A u : Under(k, v, u) <=> Under(m, v, u)
    BY <1>5 DEF Under, Makes
  <1>9. IsAnswer(h)
    BY <1>3 DEF IsAnswer, IsAttempt
  <1>10. Withdrew(m, l, k, g, {t})
    BY <1>1, <1>2, <1>3, <1>4, <1>5, <1>6, <1>7, <1>8, <1>9 DEF Withdrew, Held, w
  <1>11. Subs(f, k, g, srv) /\ Covered(k)
    BY <1>3, <1>10, WithdrewKeeps
  <1> QED
    BY <1>3, <1>11 DEF Kept

LEMMA AnsweredKeepsSubs ==
    ASSUME NEW f, Subs(f, conn, line, srv), Covered(conn), BasicInv, line # <<>>,
           First.what = "consume", First.ok, ~Stale(conn, First.try),
           conn' = ConsumeAnswered(conn, First.try, First.id), line' = Tail(line), srv' = srv
    PROVE  Kept(f)
  <1> DEFINE m == conn
             l == line
             s == srv
             g == Tail(line)
             h == Head(line)
             t == h.try.track
             y == [try |-> h.try, id |-> h.id]
             k == [conn EXCEPT !.making = @ \cup {y}]
             w == Way(m, l)
             v == Way(k, g)
  <1>1. /\ Less(m, l, m, g)
        /\ Range(w) = {h} \cup Range(Way(m, g)) /\ Range(l) = {h} \cup Range(g)
        /\ h \in Messages /\ Formed(h) /\ AnswerFormed(h)
        /\ \A K : Lacks(l, K) <=> Lacks(g, K) /\ h \notin K
    BY TailIs
  <1>2. h.what = "consume" /\ h.ok /\ m.recv = h.try.via /\ t \in m.announced
        /\ conn' = k /\ line' = g /\ srv' = s
    BY DEF First, Stale, ConsumeAnswered
  <1>3. IsAttempt(h) /\ IsAttempt(First)
    BY <1>2 DEF IsAttempt, First
  <1>4. /\ t \in Tracks /\ h.try \in Tries
        /\ Lacks(Way(m, g), AttemptOf(t)) /\ ~Makes(m, t)
        /\ \A u : Under(m, Way(m, g), u) <=> Under(m, w, u) /\ u # t
        /\ Under(m, w, t)
    BY <1>3, AttemptIsAlone DEF First
  <1>5. Subs(f, m, l, s) /\ Covered(m) /\ h.try.track = t /\ y.try = h.try /\ y.id = h.id /\ h \in Range(l)
    BY <1>1
  <1>6. h.id \in Consumers /\ m \in Connections
    BY <1>1, <1>2 DEF AnswerFormed, Subs, Shaped
  <1>7. y \in [try : Tries, id : Consumers]
    BY <1>4, <1>6
  <1> HIDE DEF t, y
  <1>8. /\ k \in Connections /\ k.channel = m.channel /\ k.resting = m.resting /\ k.asks = m.asks
        /\ k.recv = m.recv /\ k.announced = m.announced /\ k.consumers = m.consumers
        /\ k.consuming = m.consuming /\ k.making = m.making \cup {y} /\ k.open = m.open
        /\ k.retries = m.retries /\ k.gaveUp = m.gaveUp /\ k.shown = m.shown
    BY <1>6, <1>7 DEF Connections
  <1>9. Way(m, g) = v
    BY <1>8 DEF Way
  <1> HIDE DEF k, m, l, s, g, h, w, v
  <1>10. /\ Shaped(m, g, s) /\ Booked(m, v) /\ Awaited(m, v) /\ Tagged(f, m, g, s)
    BY <1>1, <1>5, <1>9, LessKeeps
  <1>11. Thinner(l, g) /\ Range(v) \subseteq Range(w)
    BY <1>1, <1>9 DEF Less
  <1>12. \A u : Makes(k, u) <=> Makes(m, u) \/ u = t
    BY <1>5, <1>8 DEF Makes
  <1>13. Shaped(k, g, s)
    BY <1>8, <1>10 DEF Shaped, WellFormed
  <1>14. Booked(k, v)
    <2>1. \A x \in m.making : x.try.track # t
      BY <1>4 DEF Makes
    <2>2. \A x, z \in k.making : x.try.track = z.try.track => x = z
      BY <2>1, <1>5, <1>8, <1>10 DEF Booked
    <2> QED
      BY <2>2, <1>4, <1>9, <1>10, <1>12 DEF Booked
  <1>15. \A u : Under(k, v, u) <=> Under(m, w, u)
    BY <1>4, <1>9, <1>12 DEF Under
  <1>16. Counted(k, v)
    <2>1. Counted(m, w)
      BY <1>5 DEF Subs, w
    <2> QED
      BY <2>1, <1>2, <1>5, <1>8, <1>11, <1>15 DEF Counted
  <1>17. k.recv # Absent
    <2>1. h \in Range(w) /\ Booked(m, w)
      BY <1>1, <1>5 DEF Subs, w
    <2> QED
      BY <2>1, <1>2, <1>3, <1>8 DEF Booked
  <1>18. Released(k) /\ Held(k)
    BY <1>5, <1>8, <1>17 DEF Subs, Released, Held
  <1>19. Awaited(k, v)
    <2>1. m.consumers[t] = Absent
      <3>1. h \in Range(w) /\ Awaited(m, w)
        BY <1>1, <1>5 DEF Subs, w
      <3> QED
        BY <3>1, <1>2, <1>5 DEF Awaited
    <2> QED
      BY <2>1, <1>5, <1>8, <1>10 DEF Awaited
  <1>20. Tagged(f, k, g, s)
    <2>1. f[h.id] = t
      <3>1. Tagged(f, m, l, s)
        BY <1>5 DEF Subs
      <3> QED
        BY <3>1, <1>2, <1>5 DEF Tagged
    <2> QED
      BY <2>1, <1>5, <1>8, <1>10 DEF Tagged
  <1>21. Resumable(k, g, s)
    <2>1. Resumable(m, l, s)
      BY <1>5 DEF Subs
    <2>2. \A c \in Consumers : Ordered(g, GoneOf(c), ResumedOf(c))
      BY <2>1, <1>11 DEF Resumable, Thinner
    <2> QED
      BY <2>1, <2>2, <1>1, <1>8 DEF Resumable
  <1>22. Agree(k, g, s)
    <2>1. Agree(m, l, s)
      BY <1>5 DEF Subs
    <2>2. \A u : WillHear(m, l, u) => WillHear(k, g, u)
      BY <1>1, <1>2, <1>8 DEF WillHear
    <2> QED
      BY <2>1, <2>2, <1>8 DEF Agree
  <1>23. \A u : h \notin AnnouncedOf(u) /\ h \notin ClosedOf(u)
    BY <1>2 DEF AnnouncedOf, ClosedOf
  <1>24. RoomKnown(k, g, s)
    BY <1>1, <1>5, <1>8, <1>23 DEF Subs, RoomKnown
  <1>25. News(k, g, s)
    <2>1. News(m, l, s)
      BY <1>5 DEF Subs
    <2>2. \A u : Under(k, Way(k, g), u) <=> Under(m, Way(m, l), u)
      BY <1>15 DEF v, w
    <2>3. \A u \in Tracks : Once(g, AnnouncedOf(u)) /\ Ordered(g, ClosedOf(u), AnnouncedOf(u))
      BY <2>1, <1>11 DEF News, Thinner
    <2> QED
      BY <2>1, <2>2, <2>3, <1>1, <1>8, <1>23 DEF News
  <1>26. Subs(f, k, g, s) /\ Covered(k)
    <2>1. Covered(k)
      BY <1>5, <1>8 DEF Covered, Reconciled, CoveredAt
    <2> QED
      BY <2>1, <1>13, <1>14, <1>16, <1>18, <1>19, <1>20, <1>21, <1>22, <1>24, <1>25 DEF Subs, v
  <1> QED
    BY <1>2, <1>26 DEF Kept

LEMMA ConsumeReturnsKeepsSubs ==
    ASSUME NEW f, Subs(f, conn, line, srv), Covered(conn), BasicInv, ConsumeReturns
    PROVE  Kept(f)
  <1>1. /\ line # <<>> /\ First.what = "consume" /\ line' = Tail(line) /\ srv' = srv
        /\ conn' = IF First.ok THEN ConsumeAnswered(conn, First.try, First.id)
                   ELSE AsksFailed(conn, {First})
    BY DEF ConsumeReturns, Receives, First
  <1>2. IsAttempt(First) /\ IsAnswer(First)
    BY <1>1 DEF IsAttempt, IsAnswer
  <1>3. CASE ~First.ok
    BY <1>1, <1>2, <1>3, FirstFailsKeepsSubs
  <1>4. CASE First.ok /\ ~Stale(conn, First.try)
    BY <1>1, <1>4, AnsweredKeepsSubs
  <1>5. CASE First.ok /\ Stale(conn, First.try)
    <2>1. conn.alive /\ conn \in Connections /\ First \in Range(line) /\ line \in Seq(Messages)
      BY <1>1, FirstIs, BasicIsTyped
    <2>2. First \in Range(Way(conn, line))
      BY <2>1, WayIs
    <2>3. conn.consumers[First.try.track] = Absent
      BY <1>1, <2>2 DEF Subs, Awaited
    <2>4. conn.recv = Absent \/ First.try.track \notin conn.announced
      BY <1>2, <1>5, <2>1, <2>2 DEF Subs, Counted, Stale
    <2>5. conn' = ConsumeEnded(conn, First.try)
      BY <1>1, <1>5 DEF ConsumeAnswered
    <2> QED
      BY <1>1, <1>2, <2>3, <2>4, <2>5, EndedKeepsSubs
  <1> QED
    BY <1>3, <1>4, <1>5

\* The server resumed a consumer that the page still holds.
LEMMA ResumedKeepsSubs ==
    ASSUME NEW f, Subs(f, conn, line, srv), Covered(conn), line # <<>>,
           First.what = "resume", First.ok, First.id \in conn.open,
           conn' = ConsumerResumed(conn, First.try, First.id), line' = Tail(line), srv' = srv
    PROVE  Kept(f)
  <1> DEFINE m == conn
             l == line
             s == srv
             g == Tail(line)
             h == Head(line)
             t == h.try.track
             c == h.id
             k == ConsumeEnded([conn EXCEPT !.shown = @ \cup {c}], h.try)
             w == Way(m, l)
             v == Way(k, g)
  <1>1. /\ Less(m, l, m, g)
        /\ Range(w) = {h} \cup Range(Way(m, g)) /\ Range(l) = {h} \cup Range(g)
        /\ h \in Messages /\ Formed(h)
        /\ \A K : Lacks(l, K) <=> Lacks(g, K) /\ h \notin K
    BY TailIs
  <1>2. h.what = "resume" /\ h.ok /\ c \in m.open /\ conn' = k /\ line' = g /\ srv' = s
    BY DEF First, ConsumerResumed
  <1>3. IsAttempt(First)
    BY DEF IsAttempt
  <1>4. /\ t \in Tracks
        /\ \A u : Under(m, Way(m, g), u) <=> Under(m, w, u) /\ u # t
    BY <1>3, AttemptIsAlone DEF First
  <1>5. Subs(f, m, l, s) /\ Covered(m) /\ h.try.track = t /\ h \in Range(l) /\ h.id = c
    BY <1>1
  <1>6. m \in Connections /\ c \in Consumers
    BY <1>1, <1>2 DEF Formed, Subs, Shaped
  <1> HIDE DEF t, c
  <1>7. /\ k \in Connections /\ k.channel = m.channel /\ k.resting = m.resting /\ k.asks = m.asks
        /\ k.recv = m.recv /\ k.announced = m.announced /\ k.consumers = m.consumers
        /\ k.consuming = m.consuming \ {t} /\ k.making = m.making /\ k.open = m.open
        /\ k.retries = m.retries /\ k.gaveUp = m.gaveUp /\ k.shown = m.shown \cup {c}
    <2> DEFINE x == [conn EXCEPT !.shown = @ \cup {c}]
    <2>1. /\ x \in Connections /\ x.channel = m.channel /\ x.resting = m.resting /\ x.asks = m.asks
          /\ x.recv = m.recv /\ x.announced = m.announced /\ x.consumers = m.consumers
          /\ x.consuming = m.consuming /\ x.making = m.making /\ x.open = m.open
          /\ x.retries = m.retries /\ x.gaveUp = m.gaveUp /\ x.shown = m.shown \cup {c}
      BY <1>6 DEF Connections
    <2>2. k = [x EXCEPT !.consuming = @ \ {t}]
      BY <1>5 DEF ConsumeEnded
    <2> HIDE DEF x, k, m
    <2> QED
      BY <2>1, <2>2 DEF Connections
  <1>8. Way(m, g) = v
    BY <1>7 DEF Way
  <1> HIDE DEF k, m, l, s, g, h, w, v
  <1>9. Thinner(l, g) /\ Thinner(Way(m, l), v) /\ g \in Seq(Messages) /\ Range(v) \subseteq Range(w)
    BY <1>1, <1>8 DEF Less
  <1>10. Less(m, l, k, g)
    <2>1. Way(k, g) = v
      BY DEF v
    <2> QED
      BY <2>1, <1>7, <1>9 DEF Less
  <1>11. /\ Shaped(k, g, s) /\ Booked(k, v) /\ Awaited(k, v) /\ Tagged(f, k, g, s)
    BY <1>5, <1>10, LessKeeps DEF v
  <1>12. m.consumers[t] = c
    <2>1. Held(m) /\ Tagged(f, m, l, s)
      BY <1>5 DEF Subs
    <2>2. PICK u \in Tracks : m.consumers[u] = c /\ c # Absent
      BY <2>1, <1>2 DEF Held
    <2>3. f[c] = u /\ f[c] = t
      BY <2>1, <2>2, <1>2, <1>5 DEF Tagged
    <2> QED
      BY <2>2, <2>3
  <1>13. k.recv # Absent
    BY <1>2, <1>5, <1>7 DEF Subs, Released
  <1>14. \A u : Under(k, v, u) <=> Under(m, w, u) /\ u # t
    BY <1>4, <1>7, <1>8 DEF Under, Makes
  <1>15. Counted(k, v)
    <2>1. Counted(m, w)
      BY <1>5 DEF Subs, w
    <2> QED
      BY <2>1, <1>7, <1>9, <1>14 DEF Counted
  <1>16. Released(k) /\ Held(k)
    BY <1>2, <1>5, <1>7, <1>12, <1>13 DEF Subs, Released, Held
  <1>17. Resumable(k, g, s)
    <2>1. Resumable(m, l, s)
      BY <1>5 DEF Subs
    <2>2. \A d \in Consumers : Ordered(g, GoneOf(d), ResumedOf(d))
      BY <2>1, <1>9 DEF Resumable, Thinner
    <2> QED
      BY <2>1, <2>2, <1>1, <1>7 DEF Resumable
  <1>18. Agree(k, g, s)
    <2>1. Agree(m, l, s)
      BY <1>5 DEF Subs
    <2>2. \A u : WillHear(m, l, u) => WillHear(k, g, u)
      BY <1>1, <1>2, <1>7 DEF WillHear
    <2> QED
      BY <2>1, <2>2, <1>7 DEF Agree
  <1>19. \A u : h \notin AnnouncedOf(u) /\ h \notin ClosedOf(u)
    BY <1>2 DEF AnnouncedOf, ClosedOf
  <1>20. RoomKnown(k, g, s)
    BY <1>1, <1>5, <1>7, <1>19 DEF Subs, RoomKnown
  <1>21. News(k, g, s)
    <2>1. News(m, l, s)
      BY <1>5 DEF Subs
    <2>2. \A u : Under(k, Way(k, g), u) => Under(m, Way(m, l), u)
      BY <1>14 DEF v, w
    <2>3. \A u \in Tracks : Once(g, AnnouncedOf(u)) /\ Ordered(g, ClosedOf(u), AnnouncedOf(u))
      BY <2>1, <1>9 DEF News, Thinner
    <2> QED
      BY <2>1, <2>2, <2>3, <1>1, <1>7, <1>19 DEF News
  <1>22. Covered(k)
    <2>1. c # Absent
      BY <1>2, <1>5 DEF Subs, Held
    <2> QED
      BY <2>1, <1>5, <1>7, <1>12 DEF Covered, Reconciled, CoveredAt
  <1>23. Subs(f, k, g, s)
    BY <1>11, <1>15, <1>16, <1>17, <1>18, <1>20, <1>21 DEF Subs, v
  <1> QED
    BY <1>2, <1>22, <1>23 DEF Kept

LEMMA ResumeReturnsKeepsSubs ==
    ASSUME NEW f, Subs(f, conn, line, srv), Covered(conn), BasicInv, ResumeReturns
    PROVE  Kept(f)
  <1>1. /\ line # <<>> /\ First.what = "resume" /\ line' = Tail(line) /\ srv' = srv
        /\ conn' = IF First.ok THEN ConsumerResumed(conn, First.try, First.id)
                   ELSE AsksFailed(conn, {First})
    BY DEF ResumeReturns, Receives, First
  <1>2. IsAttempt(First) /\ IsAnswer(First)
    BY <1>1 DEF IsAttempt, IsAnswer
  <1>3. CASE ~First.ok
    BY <1>1, <1>2, <1>3, FirstFailsKeepsSubs
  <1>4. CASE First.ok /\ First.id \in conn.open
    BY <1>1, <1>4, ResumedKeepsSubs
  <1>5. CASE First.ok /\ First.id \notin conn.open
    <2>1. /\ conn.alive /\ conn \in Connections /\ First \in Range(line) /\ line \in Seq(Messages)
          /\ Formed(First)
      BY <1>1, FirstIs, BasicIsTyped
    <2>2. First \in Range(Way(conn, line)) /\ First.try.track \in Tracks
      BY <1>1, <2>1, WayIs DEF Formed, Tries
    <2>3. conn.consumers[First.try.track] \in {Absent, First.id}
      BY <1>1, <2>2 DEF Subs, Awaited
    <2>4. conn.consumers[First.try.track] # Absent => conn.consumers[First.try.track] \in conn.open
      BY <2>2 DEF Subs, Held
    <2>5. conn.consumers[First.try.track] = Absent
      BY <1>5, <2>3, <2>4
    <2>6. First.id # Absent
      BY <1>1, <2>1, SubscribingAssumption DEF Formed
    <2>7. conn.recv = Absent \/ First.try.track \notin conn.announced
      BY <1>1, <1>5, <2>1, <2>5, <2>6 DEF Subs, Resumable
    <2>8. conn' = ConsumeEnded(conn, First.try)
      BY <1>1, <1>5 DEF ConsumerResumed
    <2> QED
      BY <1>1, <1>2, <2>5, <2>7, <2>8, EndedKeepsSubs
  <1> QED
    BY <1>3, <1>4, <1>5

\* What is known of a consumer that is being made.
LEMMA MakingIsAlone ==
    ASSUME NEW f, NEW m, NEW l, NEW s, Subs(f, m, l, s), NEW e \in m.making
    PROVE  LET t == e.try.track
               k == [m EXCEPT !.making = @ \ {e}]
               w == Way(m, l)
           IN  /\ t \in Tracks /\ e.try \in Tries /\ e.id \in Consumers
               /\ m.recv # Absent /\ e.try.via = m.recv
               /\ m.consumers[t] = Absent /\ f[e.id] = t
               /\ Lacks(w, AttemptOf(t)) /\ Under(m, w, t) /\ t \in m.consuming
               /\ k \in Connections /\ k.making = m.making \ {e} /\ k.alive = m.alive
               /\ k.channel = m.channel /\ k.resting = m.resting /\ k.asks = m.asks
               /\ k.recv = m.recv /\ k.announced = m.announced /\ k.consumers = m.consumers
               /\ k.consuming = m.consuming /\ k.open = m.open
               /\ k.retries = m.retries /\ k.gaveUp = m.gaveUp /\ k.shown = m.shown
               /\ ~Makes(k, t)
               /\ \A u : u # t => (Makes(k, u) <=> Makes(m, u))
  <1> DEFINE t == e.try.track
             k == [m EXCEPT !.making = @ \ {e}]
             w == Way(m, l)
  <1>1. m \in Connections /\ Booked(m, w) /\ Counted(m, w) /\ Released(m) /\ Awaited(m, w) /\ Tagged(f, m, l, s)
    BY DEF Subs, Shaped
  <1>2. e.try \in Tries /\ e.id \in Consumers
    BY <1>1 DEF Connections
  <1>3. t \in Tracks /\ e.try.track = t
    BY <1>2 DEF Tries
  <1>4. /\ k \in Connections /\ k.making = m.making \ {e} /\ k.alive = m.alive
        /\ k.channel = m.channel /\ k.resting = m.resting /\ k.asks = m.asks
        /\ k.recv = m.recv /\ k.announced = m.announced /\ k.consumers = m.consumers
        /\ k.consuming = m.consuming /\ k.open = m.open
        /\ k.retries = m.retries /\ k.gaveUp = m.gaveUp /\ k.shown = m.shown
    BY <1>1 DEF Connections
  <1> HIDE DEF t, k, w
  <1>5. Makes(m, t)
    BY <1>3 DEF Makes
  <1>6. m.recv # Absent
    BY <1>1 DEF Released
  <1>7. e.try.via = m.recv /\ t \in m.consuming /\ Lacks(w, AttemptOf(t)) /\ Under(m, w, t)
    BY <1>1, <1>3, <1>5, <1>6 DEF Counted, Booked, Under
  <1>8. m.consumers[t] = Absent /\ f[e.id] = t
    BY <1>1, <1>3 DEF Awaited, Tagged
  <1>9. ~Makes(k, t)
    BY <1>1, <1>3, <1>4 DEF Makes, Booked
  <1>10. \A u : u # t => (Makes(k, u) <=> Makes(m, u))
    BY <1>3, <1>4 DEF Makes
  <1> QED
    BY <1>2, <1>3, <1>4, <1>6, <1>7, <1>8, <1>9, <1>10 DEF t, k, w

\* The making of a consumer comes to nothing.
LEMMA UnmadeKeepsSubs ==
    ASSUME NEW f, NEW m, NEW l, NEW s, Subs(f, m, l, s), NEW e \in m.making,
           NEW k \in Connections, k.making = m.making \ {e},
           k.channel = m.channel /\ k.resting = m.resting, k.asks = m.asks,
           k.recv = m.recv, k.announced = m.announced, k.consumers = m.consumers,
           k.consuming = m.consuming \ {e.try.track}, k.open = m.open, k.shown = m.shown,
           m.retries \subseteq k.retries, m.gaveUp \subseteq k.gaveUp,
           e.try.track \in m.announced => e.try.track \in k.retries \cup k.gaveUp
    PROVE  Subs(f, k, l, s) /\ (Covered(m) => Covered(k))
  <1> DEFINE t == e.try.track
             n == [m EXCEPT !.making = @ \ {e}]
             w == Way(m, l)
  <1>1. /\ t \in Tracks /\ m.recv # Absent /\ m.consumers[t] = Absent
        /\ Lacks(w, AttemptOf(t)) /\ n.making = m.making \ {e} /\ ~Makes(n, t)
        /\ \A u : u # t => (Makes(n, u) <=> Makes(m, u))
    BY MakingIsAlone
  <1>2. /\ k.consuming = m.consuming \ {t}
        /\ t \in m.announced => t \in k.retries \cup k.gaveUp
    OBVIOUS
  <1>3. Held(m) /\ l \in Seq(Messages) /\ Way(k, l) = w
    BY DEF Subs, Shaped, Way
  <1> HIDE DEF t, n, w
  <1>4. \A u : Under(k, w, u) <=> Under(m, w, u) /\ u # t
    BY <1>1 DEF Under, Makes
  <1>5. Less(m, l, k, l)
    BY <1>3, UntouchedIsThinner DEF Less, w
  <1>6. Withdrew(m, l, k, l, {t})
    BY <1>1, <1>2, <1>3, <1>4, <1>5 DEF Withdrew, Held, w
  <1> QED
    BY <1>6, WithdrewKeeps

LEMMA MakingFailsKeepsSubs ==
    ASSUME NEW f, Subs(f, conn, line, srv), Covered(conn), NEW e \in conn.making, MakingFails(e)
    PROVE  Kept(f)
  <1> DEFINE m == conn
             t == e.try.track
             n == [m EXCEPT !.making = @ \ {e}]
             k == ConsumeFailed(n, {e.try})
             w == Way(m, line)
  <1>1. /\ t \in Tracks /\ e.try \in Tries /\ m.recv # Absent /\ e.try.via = m.recv
        /\ n \in Connections /\ n.making = m.making \ {e}
        /\ n.channel = m.channel /\ n.resting = m.resting /\ n.asks = m.asks
        /\ n.recv = m.recv /\ n.announced = m.announced /\ n.consumers = m.consumers
        /\ n.consuming = m.consuming /\ n.open = m.open
        /\ n.retries = m.retries /\ n.gaveUp = m.gaveUp /\ n.shown = m.shown
    BY MakingIsAlone
  <1>2. conn' = k /\ line' = line /\ srv' = srv /\ e.try.track = t
    BY DEF MakingFails, Becomes
  <1> HIDE DEF n, t
  <1> DEFINE now == {y \in {e.try} : y.via = n.recv}
             second == TracksOf({y \in now : y.retry})
             again == TracksOf({y \in now : ~y.retry})
  <1>3. now = {e.try}
    BY <1>1
  <1>4. TracksOf({e.try}) = {t}
    BY <1>2 DEF TracksOf
  <1>5. second \cup again = {t}
    BY <1>2, <1>3 DEF TracksOf
  <1>6. k = [n EXCEPT !.consuming = @ \ {t}, !.gaveUp = @ \cup second, !.retries = @ \cup again]
    BY <1>4 DEF ConsumeFailed
  <1> HIDE DEF k, second, again, m
  <1>7. /\ k \in Connections /\ k.making = m.making \ {e}
        /\ k.channel = m.channel /\ k.resting = m.resting /\ k.asks = m.asks
        /\ k.recv = m.recv /\ k.announced = m.announced /\ k.consumers = m.consumers
        /\ k.consuming = m.consuming \ {t} /\ k.open = m.open /\ k.shown = m.shown
        /\ k.retries = m.retries \cup again /\ k.gaveUp = m.gaveUp \cup second
    <2>1. second \subseteq Tracks /\ again \subseteq Tracks
      BY <1>1, <1>5
    <2>2. n \in Connections
      BY <1>1
    <2> DEFINE x == [n EXCEPT !.consuming = @ \ {t}, !.gaveUp = @ \cup second, !.retries = @ \cup again]
    <2>3. x \in Connections
      BY ONLY <2>1, <2>2 DEF Connections
    <2>4. /\ x.making = n.making /\ x.channel = n.channel /\ x.resting = n.resting /\ x.asks = n.asks
          /\ x.recv = n.recv /\ x.announced = n.announced /\ x.consumers = n.consumers
          /\ x.consuming = n.consuming \ {t} /\ x.open = n.open /\ x.shown = n.shown
          /\ x.retries = n.retries \cup again /\ x.gaveUp = n.gaveUp \cup second
      BY ONLY <2>2 DEF Connections
    <2> HIDE DEF x
    <2>5. k = x
      BY <1>6 DEF x
    <2> QED
      BY <1>1, <2>3, <2>4, <2>5
  <1>8. Subs(f, k, line, srv) /\ (Covered(m) => Covered(k))
    BY <1>2, <1>5, <1>7, UnmadeKeepsSubs DEF m
  <1> QED
    BY <1>2, <1>8 DEF Kept, m

\* A consumer that was made is held from now on, and is to be resumed.
Hired(m, n, l, e) ==
    /\ n \in Connections
    /\ n.channel = m.channel /\ n.resting = m.resting /\ n.recv = m.recv /\ n.announced = m.announced
    /\ n.consuming = m.consuming /\ n.retries = m.retries /\ n.gaveUp = m.gaveUp
    /\ n.shown = m.shown /\ n.open = m.open \cup {e.id}
    /\ n.making = m.making \ {e}
    /\ \A u \in Tracks : n.consumers[u] = IF u = e.try.track THEN e.id ELSE m.consumers[u]
    /\ n.asks = Append(m.asks, [what |-> "resume", try |-> e.try, id |-> e.id])

LEMMA HiredKeepsSubs ==
    ASSUME NEW f, NEW m, NEW n, NEW l, NEW s, Subs(f, m, l, s), NEW e \in m.making, Hired(m, n, l, e),
           e.try.track \in m.announced, Lacks(Way(m, l), PathRequests)
    PROVE  Subs(f, n, l, s) /\ (Covered(m) => Covered(n))
  <1> DEFINE a == m.asks
             t == e.try.track
             c == e.id
             x == [what |-> "resume", try |-> e.try, id |-> e.id]
             k == [m EXCEPT !.making = @ \ {e}]
             w == Way(m, l)
             v == Way(n, l)
  <1>1. /\ t \in Tracks /\ e.try \in Tries /\ c \in Consumers
        /\ m.recv # Absent /\ e.try.via = m.recv
        /\ m.consumers[t] = Absent /\ f[c] = t
        /\ Lacks(w, AttemptOf(t)) /\ Under(m, w, t) /\ t \in m.consuming
        /\ k.making = m.making \ {e} /\ ~Makes(k, t)
        /\ \A u : u # t => (Makes(k, u) <=> Makes(m, u))
    BY MakingIsAlone
  <1>2. x \in Requested /\ Formed(x) /\ x.what = "resume" /\ x.try = e.try /\ x.id = c /\ x.try.track = t
    BY <1>1 DEF Requested, Ids, Formed, Directions
  <1>3. m \in Connections /\ l \in Seq(Messages) /\ s \in Servers /\ WellFormed(m, l)
    BY DEF Subs, Shaped
  <1>4. /\ a \in Seq(Requested) /\ l \in Seq(Entry) /\ a \in Seq(Entry) /\ w \in Seq(Entry) /\ w = l \o a
        /\ Range(w) = Range(l) \cup Range(a) /\ Range(w) \subseteq Entry /\ x \in Entry
    BY <1>2, <1>3, WayIs DEF Entry, Way
  <1>5. /\ n \in Connections
        /\ n.channel = m.channel /\ n.resting = m.resting /\ n.recv = m.recv /\ n.announced = m.announced
        /\ n.consuming = m.consuming /\ n.retries = m.retries /\ n.gaveUp = m.gaveUp
        /\ n.shown = m.shown /\ n.open = m.open \cup {c}
        /\ n.making = m.making \ {e}
        /\ \A u \in Tracks : n.consumers[u] = IF u = t THEN c ELSE m.consumers[u]
        /\ n.asks = Append(a, x)
    BY DEF Hired
  <1>6. /\ ~Makes(n, t)
        /\ \A u : u # t => (Makes(n, u) <=> Makes(m, u))
    BY <1>1, <1>5 DEF Makes
  <1>7. c # Absent /\ t \in m.announced
    BY <1>1, SubscribingAssumption
  <1> HIDE DEF t, c, x, k, a, w
  <1>8. v = Append(w, x)
    <2>1. v = l \o Append(a, x)
      BY <1>5 DEF Way
    <2>2. l \o Append(a, x) = Append(l \o a, x)
      BY <1>4
    <2> QED
      BY <2>1, <2>2, <1>4
  <1>9. Range(n.asks) = Range(m.asks) \cup {x} /\ Range(v) = Range(w) \cup {x}
    <2>1. Range(Append(a, x)) = Range(a) \cup {x}
      BY <1>2, <1>4, RangeOfAppend
    <2>2. Range(Append(w, x)) = Range(w) \cup {x}
      <3>1. w \in Seq(Entry) /\ x \in Entry
        BY <1>4
      <3> QED
        BY ONLY <3>1, RangeOfAppend
    <2> QED
      BY <2>1, <2>2, <1>5, <1>8 DEF a
  <1>10. IsAttempt(x) /\ x \in AttemptOf(t) /\ \A u : u # t => x \notin AttemptOf(u)
    BY <1>2, <1>4 DEF AttemptOf, Attempts, IsAttempt
  <1>11. \A u : /\ Once(w, AttemptOf(u)) => Once(v, AttemptOf(u))
                /\ Lacks(v, AttemptOf(u)) <=> Lacks(w, AttemptOf(u)) /\ u # t
    <2> TAKE u
    <2> DEFINE K == AttemptOf(u)
    <2>1. x \in K <=> u = t
      BY <1>10
    <2>2. Lacks(w, K) \/ u # t
      BY <1>1
    <2> HIDE DEF K
    <2>3. Once(w, K) => Once(Append(w, x), K)
      BY <1>4, <2>1, <2>2, AppendOfSuch
    <2>4. Lacks(Append(w, x), K) <=> Lacks(w, K) /\ x \notin K
      BY <1>4, LacksAppend
    <2> QED
      BY <1>8, <2>1, <2>2, <2>3, <2>4 DEF K
  <1> HIDE DEF v
  <1>12. \A y \in Range(w) : IsAttempt(y) => y.try.track # t
    BY <1>1, <1>4, LacksIs
  <1>13. Shaped(n, l, s)
    BY <1>2, <1>3, <1>5, <1>9 DEF Shaped, WellFormed
  <1>14. Booked(n, v)
    <2>1. Booked(m, w) /\ Lacks(w, PathRequests)
      BY DEF Subs, w
    <2>2. Ordered(v, PathRequests, Attempts)
      BY <2>1, <1>4, <1>8, AppendOrdered DEF Booked
    <2>3. \A u \in Tracks : Makes(n, u) => Lacks(v, AttemptOf(u))
      BY <2>1, <1>6, <1>11 DEF Booked
    <2> QED
      BY <2>1, <2>2, <2>3, <1>1, <1>2, <1>5, <1>9, <1>11 DEF Booked
  <1>15. \A u : Under(n, v, u) <=> Under(m, w, u)
    BY <1>1, <1>6, <1>11 DEF Under
  <1>16. Counted(n, v)
    <2>1. Counted(m, w)
      BY DEF Subs, w
    <2> QED
      BY <2>1, <1>1, <1>2, <1>5, <1>9, <1>15 DEF Counted
  <1>17. Released(n) /\ Held(n)
    <2>1. Released(n)
      BY <1>1, <1>5 DEF Released
    <2>2. Held(m)
      BY DEF Subs
    <2>3. m.open \cup {c} = {n.consumers[u] : u \in Tracks} \ {Absent}
      BY <2>2, <1>1, <1>5, <1>7 DEF Held
    <2> QED
      BY <2>1, <2>2, <2>3, <1>1, <1>5, <1>7 DEF Held
  <1>18. Awaited(n, v)
    <2>1. Awaited(m, w)
      BY DEF Subs, w
    <2>2. WellFormed(n, l) /\ Range(v) = Range(l) \cup Range(n.asks)
      BY <1>4, <1>9, <1>13 DEF Shaped, a
    <2>3. \A y \in Range(v) : y.what \in {"consume", "resume"} => y.try.track \in Tracks
      BY <2>2 DEF WellFormed, Formed, Tries
    <2>4. \A y \in n.making : y.try.track \in Tracks /\ y.try.track # t
      BY <1>5, <1>6 DEF Makes, Connections, Tries
    <2>5. \A y \in Range(v) : y.what = "consume" => n.consumers[y.try.track] = Absent
      BY <2>1, <2>3, <1>2, <1>5, <1>9, <1>12 DEF Awaited, IsAttempt
    <2>6. \A y \in Range(v) : y.what = "resume" => n.consumers[y.try.track] \in {Absent, y.id}
      BY <2>1, <2>3, <1>2, <1>5, <1>9, <1>12 DEF Awaited, IsAttempt
    <2>7. \A y \in n.making : n.consumers[y.try.track] = Absent
      BY <2>1, <2>4, <1>5 DEF Awaited
    <2> QED
      BY <2>5, <2>6, <2>7 DEF Awaited
  <1>19. Tagged(f, n, l, s)
    <2>1. Tagged(f, m, l, s)
      BY DEF Subs
    <2>2. \A u \in Tracks : n.consumers[u] # Absent => f[n.consumers[u]] = u
      BY <2>1, <1>1, <1>5 DEF Tagged
    <2> QED
      BY <2>1, <2>2, <1>1, <1>2, <1>5, <1>9 DEF Tagged
  <1>20. Resumable(n, l, s)
    <2>1. Resumable(m, l, s)
      BY DEF Subs
    <2>2. \A y \in Range(m.asks) \cup Range(l) : y.what = "resume" => y.try.track \in Tracks \ {t}
      BY <1>3, <1>4, <1>12 DEF WellFormed, Formed, Tries, IsAttempt, a
    <2>3. \A y \in Range(m.asks) \cup Range(l) : y.what = "resume" =>
              n.consumers[y.try.track] = m.consumers[y.try.track]
      BY <2>2, <1>5
    <2>4. n.consumers[x.try.track] = x.id
      BY <1>1, <1>2, <1>5
    <2> QED
      BY <2>1, <2>3, <2>4, <1>5, <1>9 DEF Resumable
  <1>21. Agree(n, l, s)
    <2>1. Agree(m, l, s)
      BY DEF Subs
    <2>2. \A u \in Tracks : u # t /\ WillHear(m, l, u) => WillHear(n, l, u)
      BY <1>5, <1>9 DEF WillHear
    <2>3. WillHear(n, l, t)
      BY <1>1, <1>2, <1>5, <1>9 DEF WillHear
    <2> QED
      BY <2>1, <2>2, <2>3, <1>5 DEF Agree
  <1>22. RoomKnown(n, l, s)
    BY <1>5 DEF Subs, RoomKnown
  <1>23. News(n, l, s)
    <2>1. News(m, l, s)
      BY DEF Subs
    <2>2. \A u : Under(n, Way(n, l), u) <=> Under(m, Way(m, l), u)
      BY <1>15 DEF v, w
    <2> QED
      BY <2>1, <2>2, <1>5 DEF News
  <1>24. Covered(m) => Covered(n)
    <2>1. m.announced \subseteq Tracks
      BY <1>3 DEF Connections
    <2> QED
      BY <2>1, <1>5, <1>7 DEF Covered, Reconciled, CoveredAt
  <1> QED
    BY <1>13, <1>14, <1>16, <1>17, <1>18, <1>19, <1>20, <1>21, <1>22, <1>23, <1>24 DEF Subs, v

LEMMA MakingEndsKeepsSubs ==
    ASSUME NEW f, Subs(f, conn, line, srv), Covered(conn), BasicInv, NEW e \in conn.making, MakingEnds(e)
    PROVE  Kept(f)
  <1> DEFINE m == conn
             t == e.try.track
             c == e.id
             n == [m EXCEPT !.making = @ \ {e}]
             x == [n EXCEPT !.consumers[t] = c, !.open = @ \cup {c}]
             k == Ask(x, "resume", e.try, c)
             j == ConsumeEnded(n, e.try)
  <1>1. /\ t \in Tracks /\ e.try \in Tries /\ c \in Consumers /\ m.recv # Absent /\ e.try.via = m.recv
        /\ n \in Connections /\ n.making = m.making \ {e} /\ n.alive = m.alive
        /\ n.channel = m.channel /\ n.resting = m.resting /\ n.asks = m.asks
        /\ n.recv = m.recv /\ n.announced = m.announced /\ n.consumers = m.consumers
        /\ n.consuming = m.consuming /\ n.open = m.open
        /\ n.retries = m.retries /\ n.gaveUp = m.gaveUp /\ n.shown = m.shown
    BY MakingIsAlone
  <1>2. e = [try |-> e.try, id |-> c]
    BY MakingIs
  <1>3. m.alive
    BY <1>1 DEF BasicInv, PathInv, Steady, Framed, ChannelSound
  <1>4. line' = line /\ srv' = srv /\ conn' = IF t \notin m.announced THEN j ELSE k
    <2>1. Stale(m, e.try) <=> t \notin m.announced
      BY <1>1, <1>3 DEF Stale
    <2>2. line' = line /\ srv' = srv /\ conn' = ConsumerMade(m, e.try, c)
      BY DEF MakingEnds, Becomes
    <2>3. CASE t \notin m.announced
      BY <1>2, <2>1, <2>2, <2>3 DEF ConsumerMade
    <2>4. CASE t \in m.announced
      <3>1. ConsumerMade(m, e.try, c) = k
        BY <1>2, <2>1, <2>4 DEF ConsumerMade
      <3> QED
        BY <2>2, <2>4, <3>1
    <2> QED
      BY <2>3, <2>4
  <1>5. Subs(f, m, line, srv) /\ Covered(m) /\ e.try.track = t /\ e.id = c /\ e \in m.making
    OBVIOUS
  <1> HIDE DEF m, n, t, c
  <1>6. CASE t \notin m.announced
    <2>1. /\ j \in Connections /\ j.making = m.making \ {e}
          /\ j.channel = m.channel /\ j.resting = m.resting /\ j.asks = m.asks
          /\ j.recv = m.recv /\ j.announced = m.announced /\ j.consumers = m.consumers
          /\ j.consuming = m.consuming \ {t} /\ j.open = m.open /\ j.shown = m.shown
          /\ j.retries = m.retries /\ j.gaveUp = m.gaveUp
      BY <1>1, <1>5 DEF ConsumeEnded, Connections
    <2> HIDE DEF j
    <2>2. Subs(f, j, line, srv) /\ Covered(j)
      BY <1>5, <1>6, <2>1, UnmadeKeepsSubs
    <2> QED
      BY <1>4, <1>6, <2>2 DEF Kept
  <1>7. CASE t \in m.announced
    <2>1. /\ x \in Connections /\ x.making = m.making \ {e}
          /\ x.channel = m.channel /\ x.resting = m.resting /\ x.asks = m.asks
          /\ x.recv = m.recv /\ x.announced = m.announced
          /\ x.consuming = m.consuming /\ x.shown = m.shown
          /\ x.retries = m.retries /\ x.gaveUp = m.gaveUp
          /\ x.open = m.open \cup {c}
          /\ \A u \in Tracks : x.consumers[u] = IF u = t THEN c ELSE m.consumers[u]
      BY ZenonT(60), <1>1 DEF Connections
    <2> HIDE DEF x
    <2>2. [what |-> "resume", try |-> e.try, id |-> c] \in Requested
      BY <1>1 DEF Requested, Ids
    <2>3. Hired(m, k, line, e)
      <3> DEFINE y == [what |-> "resume", try |-> e.try, id |-> c]
      <3>1. k = [x EXCEPT !.asks = Append(@, y)]
        BY DEF Ask
      <3>2. y \in Requested
        BY <2>2
      <3> HIDE DEF k, y
      <3>3. k \in Connections /\ SameMedia(x, k) /\ k.channel = x.channel /\ k.resting = x.resting /\ k.asks = Append(x.asks, y)
        <4>1. k \in Connections /\ k.channel = x.channel /\ k.resting = x.resting
          BY <2>1, <2>2, AskIs DEF k, SamePath
        <4>2. k = [x EXCEPT !.asks = Append(x.asks, y)]
          BY <3>1
        <4>3. SameMedia(x, k) /\ k.asks = Append(x.asks, y)
          BY <2>1, <4>2 DEF Connections, SameMedia, SameSubs
        <4> QED
          BY <4>1, <4>3
      <3>4. y = [what |-> "resume", try |-> e.try, id |-> e.id]
        BY <1>5 DEF y
      <3> QED
        BY <1>5, <2>1, <3>3, <3>4 DEF Hired, SameMedia, SameSubs
    <2> HIDE DEF k
    <2>4. Lacks(Way(m, line), PathRequests)
      BY <1>1, NoPaths DEF m
    <2>5. Subs(f, k, line, srv) /\ Covered(k)
      BY <1>5, <1>7, <2>3, <2>4, HiredKeepsSubs
    <2> QED
      BY <1>4, <1>7, <2>5 DEF Kept
  <1> QED
    BY <1>6, <1>7

\* A transport where there was none, and nobody who knew another.
LEMMA PathMade ==
    ASSUME NEW f, NEW m, NEW k, NEW l, NEW s, Subs(f, m, l, s), m.recv = Absent, k \in Connections,
           k.announced = m.announced, k.consumers = m.consumers,
           k.consuming = m.consuming, k.making = m.making, k.open = m.open,
           k.retries = m.retries, k.gaveUp = m.gaveUp, k.shown = m.shown,
           k.asks = m.asks, k.channel = m.channel, k.recv # Absent,
           Lacks(Way(m, l), Attempts)
    PROVE  Subs(f, k, l, s)
  <1> DEFINE w == Way(m, l)
  <1>1. Way(k, l) = w /\ Lacks(w, Attempts)
    BY DEF Way
  <1>2. m \in Connections /\ l \in Seq(Messages) /\ s \in Servers /\ WellFormed(m, l)
    BY DEF Subs, Shaped
  <1>3. Range(w) = Range(l) \cup Range(m.asks) /\ Range(w) \subseteq Entry
    BY <1>2, WayIs DEF Entry
  <1>4. Booked(m, w) /\ Released(m) /\ Held(m) /\ Awaited(m, w)
    BY DEF Subs
  <1> HIDE DEF w
  <1>5. \A e \in Range(w) : ~IsAttempt(e)
    BY <1>1, <1>3, LacksIs
  <1>6. \A t : ~Under(k, w, t)
    <2>1. \A t : Lacks(w, AttemptOf(t))
      BY <1>3, <1>5, LacksIs
    <2> QED
      BY <2>1, <1>4 DEF Released, Under, Makes
  <1>7. Shaped(k, l, s)
    BY <1>2 DEF Shaped, WellFormed
  <1>8. Booked(k, w)
    BY <1>4 DEF Booked, Makes
  <1>9. Counted(k, w) /\ Released(k) /\ Held(k) /\ Awaited(k, w)
    BY <1>4, <1>5, <1>6 DEF Counted, Released, Held, Awaited
  <1>10. Tagged(f, k, l, s)
    BY DEF Subs, Tagged
  <1>11. Resumable(k, l, s)
    BY <1>3, <1>5 DEF Subs, Resumable, IsAttempt
  <1>12. Agree(k, l, s) /\ RoomKnown(k, l, s)
    BY DEF Subs, Agree, RoomKnown, WillHear
  <1>13. News(k, l, s)
    <2>1. News(m, l, s)
      BY DEF Subs
    <2>2. \A t : ~Under(k, Way(k, l), t)
      BY <1>1, <1>6
    <2> QED
      BY <2>1, <2>2 DEF News
  <1> QED
    BY <1>1, <1>7, <1>8, <1>9, <1>10, <1>11, <1>12, <1>13 DEF Subs

\* What is announced is subscribed to.
LEMMA MissingCovers ==
    ASSUME NEW f, NEW m, NEW l, NEW s, Subs(f, m, l, s), m.recv # Absent => Lacks(Way(m, l), PathRequests)
    PROVE  Subs(f, ConsumeMissing(m), l, s) /\ Covered(ConsumeMissing(m))
  <1> DEFINE n == ConsumeMissing(m)
  <1>1. PICK b \in BOOLEAN : b = FALSE
    OBVIOUS
  <1>2. n = EnsureConsumed(m, m.announced, b)
    BY <1>1 DEF ConsumeMissing
  <1>3. m.announced \in SUBSET m.announced
    OBVIOUS
  <1> HIDE DEF n
  <1>4. Ensured(f, m, n, l, s, m.announced)
    BY <1>2, <1>3, EnsureKeepsSubs
  <1> QED
    BY <1>4 DEF Ensured, Covered, Reconciled, n

\* handleReconnected goes on.
LEMMA RestedKeeps ==
    ASSUME NEW f, NEW m, NEW l, NEW s, Subs(f, m, l, s), NEW consumes \in BOOLEAN,
           m.recv # Absent => Lacks(Way(m, l), PathRequests),
           consumes \/ Covered(m)
    PROVE  Subs(f, Rested(m, consumes), l, s) /\ Covered(Rested(m, consumes))
  <1> DEFINE n == IF consumes THEN ConsumeMissing(m) ELSE m
  <1>1. Rested(m, consumes) = Recovered(n)
    BY DEF Rested
  <1>2. Subs(f, n, l, s) /\ Covered(n)
    BY MissingCovers
  <1> HIDE DEF n
  <1>3. n \in Connections
    BY <1>2 DEF Subs, Shaped
  <1> QED
    BY <1>1, <1>2, <1>3, RecoveredIsFrame, FramedKeeps

\* What handleReconnected waits for matters to no subscription.
LEMMA RestsKeep ==
    ASSUME NEW f, NEW m, NEW l, NEW s, Subs(f, m, l, s), NEW kind \in Rests, NEW q \in Nat
    PROVE  LET n == [m EXCEPT !.resting[kind] = q] IN
           /\ Subs(f, n, l, s)
           /\ Covered(m) /\ (kind # "reconcile" \/ q > 0) => Covered(n)
           /\ n.asks = m.asks /\ n.recv = m.recv
  <1> DEFINE rests == [m.resting EXCEPT ![kind] = q]
             n == [m EXCEPT !.resting = rests]
  <1>0. m \in Connections
    BY DEF Subs, Shaped
  <1>1. /\ [m EXCEPT !.resting[kind] = q] = n
        /\ n \in Connections /\ n.asks = m.asks /\ n.channel = m.channel /\ n.recv = m.recv
    BY <1>0, RestingIs
  <1>2. IF kind = "reconcile" THEN rests["reconcile"] = q ELSE rests["reconcile"] = m.resting["reconcile"]
    BY <1>0 DEF Connections, Rests
  <1> HIDE DEF rests
  <1>3. SameSubs(m, n) /\ n.retries = m.retries /\ n.gaveUp = m.gaveUp /\ n.resting = rests
    BY <1>0 DEF Connections, SameSubs
  <1> HIDE DEF n
  <1>4. m.recv = Absent => m.retries = {}
    BY DEF Subs, Released
  <1>5. Subs(f, n, l, s)
    BY <1>1, <1>3, <1>4, FrameOfSubs
  <1>6. Covered(m) /\ (kind # "reconcile" \/ q > 0) => Covered(n)
    BY <1>2, <1>3 DEF Covered, Reconciled, CoveredAt, SameSubs
  <1> QED
    BY <1>1, <1>5, <1>6

LEMMA RestEndsKeepsSubs ==
    ASSUME NEW f, Subs(f, conn, line, srv), Covered(conn), BasicInv,
           NEW kind \in Rests, NEW consumes \in BOOLEAN, RestEnds(kind, consumes)
    PROVE  Kept(f)
  <1> DEFINE q == conn.resting[kind] - 1
             m == [conn EXCEPT !.resting[kind] = q]
  <1>1. /\ conn \in Connections /\ conn' = Rested(m, consumes) /\ line' = line /\ srv' = srv
        /\ consumes \in Consumes[kind] /\ conn.resting[kind] > 0
    BY BasicIsTyped DEF RestEnds, Becomes
  <1>2. q \in Nat
    <2>1. conn.resting \in [Rests -> Nat]
      BY <1>1 DEF Connections
    <2> QED
      BY <1>1, <2>1
  <1>3. kind = "reconcile" => consumes
    BY <1>1 DEF Consumes
  <1> HIDE DEF q
  <1>4. /\ Subs(f, m, line, srv) /\ (kind # "reconcile" => Covered(m))
        /\ m.asks = conn.asks /\ m.recv = conn.recv
    BY <1>2, RestsKeep
  <1> HIDE DEF m
  <1>5. m.recv # Absent => Lacks(Way(m, line), PathRequests)
    BY <1>4, NoPaths DEF Way
  <1> QED
    BY <1>1, <1>3, <1>4, <1>5, RestedKeeps DEF Kept

LEMMA TransportReturnsKeepsSubs ==
    ASSUME NEW f, Subs(f, conn, line, srv), Covered(conn), BasicInv,
           NEW waits \in BOOLEAN, TransportReturns(waits)
    PROVE  Kept(f)
  <1> DEFINE m == conn
             l == line
             g == Tail(line)
             h == Head(line)
             k == [m EXCEPT !.build = FALSE, !.first = FALSE, !.was = TRUE, !.recv = h.id, !.ice = NewPaths]
             n == ConsumeMissing(k)
             no == FALSE
             j == n.resting["session"] + 1
             s == srv
  <1>1. /\ line # <<>> /\ h.what = "transport" /\ line' = g /\ srv' = srv
        /\ conn' = IF ~h.ok THEN Broken(m) ELSE Rest(n, "session", waits, no)
    BY DEF TransportReturns, Receives, First
  <1>2. /\ m \in Connections /\ h \in Messages /\ AnswerFormed(h)
        /\ h \in Builds => m.recv = Absent /\ Lacks(g, Builds) /\ Lacks(m.asks, Builds)
    BY <1>1, BasicIsTyped, FirstIs DEF First
  <1>3. Subs(f, m, g, s) /\ Covered(m) /\ Subs(f, m, l, s)
    BY <1>1, PathTaken
  <1>4. CASE ~h.ok
    <2>1. Subs(f, Broken(m), g, s) /\ Covered(Broken(m))
      BY <1>2, <1>3, BrokenIsFrame, FramedKeeps
    <2> QED
      BY <1>1, <1>4, <2>1 DEF Kept
  <1>5. CASE h.ok
    <2>1. m.recv = Absent /\ Lacks(g, Builds) /\ Lacks(m.asks, Builds)
      BY <1>1, <1>2 DEF Builds
    <2>2. h.id \in Transports /\ h.id # Absent
      BY <1>1, <1>2, <1>5, SubscribingAssumption DEF AnswerFormed
    <2> HIDE DEF m, g
    <2>3. k \in Connections
      BY <1>2, <2>2, NewPathsAre, ZenonT(60) DEF Connections
    <2>4. /\ k.announced = m.announced /\ k.consumers = m.consumers
          /\ k.consuming = m.consuming /\ k.making = m.making /\ k.open = m.open
          /\ k.retries = m.retries /\ k.gaveUp = m.gaveUp /\ k.shown = m.shown
          /\ k.asks = m.asks /\ k.channel = m.channel /\ k.resting = m.resting /\ k.recv = h.id
      BY <1>2 DEF Connections
    <2>5. Lacks(Way(m, g), Attempts)
      <3>1. \A A, B : Head(l) \in A /\ Ordered(Way(m, l), A, B) => Lacks(Way(m, Tail(l)), B)
        BY <1>1, <1>3, TailIs
      <3>2. Ordered(Way(m, l), PathRequests, Attempts)
        BY <1>3 DEF Subs, Booked
      <3>3. h \in PathRequests
        BY <1>1, <1>2 DEF PathRequests, Entry
      <3>4. Lacks(Way(m, Tail(l)), Attempts)
        BY <3>1, <3>2, <3>3
      <3> QED
        BY <3>4 DEF g
    <2> HIDE DEF k
    <2>6. Subs(f, k, g, s)
      <3>1. k.recv # Absent
        BY <2>2, <2>4
      <3> QED
        BY <1>3, <2>1, <2>3, <2>4, <2>5, <3>1, PathMade
    <2>7. Lacks(Way(k, g), PathRequests)
      <3>1. Range(Way(k, g)) = Range(g) \cup Range(m.asks)
        BY <2>3, <2>4, <2>6, WayIs DEF Subs, Shaped
      <3>2. Range(g) \cap Builds = {} /\ Range(m.asks) \cap Builds = {}
        BY <2>1, LacksIsRange
      <3>3. PathRequests \subseteq Builds
        BY DEF PathRequests, Builds, Entry
      <3>4. Range(Way(k, g)) \cap PathRequests = {}
        BY <3>1, <3>2, <3>3
      <3> QED
        BY <3>4, LacksIsRange
    <2>8. Subs(f, n, g, s) /\ Covered(n)
      BY <2>6, <2>7, MissingCovers
    <2>9. n \in Connections
      BY <2>8 DEF Subs, Shaped
    <2> HIDE DEF n
    <2>10. CASE ~waits
      <3>1. Rest(n, "session", waits, no) = Recovered(n)
        BY <2>10 DEF Rest, Rested
      <3>2. Subs(f, Recovered(n), g, s) /\ Covered(Recovered(n))
        BY <2>8, <2>9, RecoveredIsFrame, FramedKeeps
      <3> QED
        BY <1>1, <1>5, <3>1, <3>2 DEF Kept, g
    <2>11. CASE waits
      <3>1. Rest(n, "session", waits, no) = [n EXCEPT !.resting["session"] = j]
        BY <2>11 DEF Rest
      <3>2. j \in Nat /\ "session" \in Rests
        BY <2>9 DEF Connections, Rests
      <3> HIDE DEF j
      <3>3. LET x == [n EXCEPT !.resting["session"] = j] IN Subs(f, x, g, s) /\ Covered(x)
        BY <2>8, <3>2, RestsKeep
      <3> QED
        BY <1>1, <1>5, <3>1, <3>3 DEF Kept, g
    <2> QED
      BY <2>10, <2>11
  <1> QED
    BY <1>4, <1>5

-----------------------------------------------------------------------------
(* MediaSubscribing: a session that begins, ends, or comes back.              *)

\* What DropThoseIs wants to know of m.
Mapped(f, m) ==
    /\ m.open = {m.consumers[t] : t \in Tracks} \ {Absent}
    /\ m.shown \subseteq m.open
    /\ \A t \in Tracks : m.consumers[t] # Absent => f[m.consumers[t]] = t

LEMMA SubsAreMapped ==
    ASSUME NEW f, NEW m, NEW l, NEW s, Subs(f, m, l, s)
    PROVE  Mapped(f, m)
  BY DEF Subs, Held, Tagged, Mapped

\* Nothing is left of any session.
Bare(m) ==
    /\ m.recv = Absent
    /\ m.consuming = {} /\ m.making = {} /\ m.open = {} /\ m.shown = {} /\ m.retries = {}
    /\ \A t \in Tracks : m.consumers[t] = Absent

LEMMA BareIsSubs ==
    ASSUME NEW f \in [Consumers -> Tracks \cup {Absent}],
           NEW m \in Connections, NEW s \in Servers, Bare(m),
           \A c \in Consumers : s.consumers[c] # Absent => f[c] = s.consumers[c],
           \A e \in Range(m.asks) : Formed(e) /\ (e.what = "resume" => f[e.id] = e.try.track),
           Booked(m, m.asks),
           \/ m.channel = "ready" /\ m.announced = s.onAir
           \/ m.channel # "ready" /\ m.asks = <<>>
    PROVE  Subs(f, m, <<>>, s) /\ Covered(m)
  <1> DEFINE none == <<>>
             w == Way(m, none)
  <1>1. /\ none \in Seq(Messages) /\ Range(none) = {} /\ \A K : Lacks(none, K) /\ Once(none, K)
        /\ \A A, B : Ordered(none, A, B)
    BY EmptyRange DEF Lacks, Once, Ordered
  <1>2. w = m.asks
    <2>1. m.asks \in Seq(Requested)
      BY AsksAreSeq
    <2> QED
      BY <2>1 DEF Way
  <1>3. m.channel # "ready" => m.asks = none
    OBVIOUS
  <1> HIDE DEF none, w
  <1>4. Shaped(m, none, s)
    BY <1>1 DEF Shaped, WellFormed
  <1>5. Released(m) /\ Counted(m, w) /\ Booked(m, w)
    BY <1>2 DEF Released, Counted, Bare
  <1>6. Held(m)
    BY DEF Held, Bare
  <1>7. Awaited(m, w)
    <2>1. \A e \in Range(w) : e.what \in {"consume", "resume"} => e.try.track \in Tracks
      BY <1>2 DEF Formed, Tries
    <2> QED
      BY <2>1 DEF Bare, Awaited
  <1>8. Tagged(f, m, none, s)
    BY <1>1 DEF Tagged, Bare
  <1>9. Resumable(m, none, s)
    BY <1>1 DEF Resumable, Bare
  <1>10. Agree(m, none, s)
    BY DEF Agree, Bare
  <1>11. RoomKnown(m, none, s)
    BY <1>1 DEF RoomKnown
  <1>12. News(m, none, s)
    <2>1. CASE m.channel = "ready"
      BY <1>1, <2>1 DEF News
    <2>2. CASE m.channel # "ready"
      <3>1. \A t : ~Under(m, Way(m, none), t)
        BY <1>1, <1>2, <1>3, <2>2 DEF Under, Makes, Bare, w
      <3> QED
        BY <1>1, <3>1 DEF News
    <2> QED
      BY <2>1, <2>2
  <1>13. Covered(m)
    BY DEF Covered, Reconciled, Bare
  <1>14. Subs(f, m, none, s)
    BY <1>4, <1>5, <1>6, <1>7, <1>8, <1>9, <1>10, <1>11, <1>12 DEF Subs, w
  <1> QED
    BY <1>13, <1>14 DEF none

LEMMA SnapshotIs ==
    ASSUME NEW f, NEW m \in Connections, Mapped(f, m), srv \in Servers
    PROVE  LET u == ApplySnapshot(m) IN
           /\ u \in Connections /\ u.channel = m.channel /\ u.resting = m.resting /\ u.asks = m.asks /\ u.recv = m.recv
           /\ u.announced = srv.onAir
           /\ u.consuming = m.consuming /\ u.making = m.making
           /\ u.retries = m.retries /\ u.gaveUp = m.gaveUp
           /\ \A t \in Tracks : u.consumers[t] = IF t \in srv.onAir THEN m.consumers[t] ELSE Absent
           /\ \A t \in srv.onAir : m.consumers[t] \in m.shown => m.consumers[t] \in u.shown
           /\ Mapped(f, u)
  <1> DEFINE ts == Tracks \ srv.onAir
             d == DropThose(m, ts)
             u == ApplySnapshot(m)
  <1>1. srv.onAir \in SUBSET Tracks
    BY DEF Servers
  <1>2. ThoseDropped(m, d, ts)
    <2>1. ts \in SUBSET Tracks
      OBVIOUS
    <2> HIDE DEF ts
    <2> QED
      BY <2>1, DropThoseIs DEF Mapped
  <1>3. u = [d EXCEPT !.announced = srv.onAir]
    BY DEF ApplySnapshot
  <1>4. \A t : t \in ts <=> t \in Tracks /\ t \notin srv.onAir
    OBVIOUS
  <1> HIDE DEF ts, d, u
  <1>5. /\ u \in Connections /\ u.channel = d.channel /\ u.resting = d.resting /\ u.asks = d.asks /\ u.recv = d.recv
        /\ u.announced = srv.onAir
        /\ u.consuming = d.consuming /\ u.making = d.making
        /\ u.retries = d.retries /\ u.gaveUp = d.gaveUp
        /\ u.consumers = d.consumers /\ u.open = d.open /\ u.shown = d.shown
    BY <1>1, <1>2, <1>3 DEF ThoseDropped, Connections
  <1>6. Mapped(f, u)
    BY <1>2, <1>5 DEF ThoseDropped, Mapped
  <1>7. \A t \in Tracks : u.consumers[t] = IF t \in srv.onAir THEN m.consumers[t] ELSE Absent
    BY <1>2, <1>4, <1>5 DEF ThoseDropped
  <1>8. \A t \in srv.onAir : m.consumers[t] \in m.shown => m.consumers[t] \in u.shown
    BY <1>1, <1>2, <1>4, <1>5 DEF ThoseDropped
  <1> QED
    BY <1>2, <1>5, <1>6, <1>7, <1>8 DEF ThoseDropped, u

LEMMA ReleasedIsBare ==
    ASSUME NEW f, NEW m \in Connections, Mapped(f, m), ~LateFailures
    PROVE  Bare(ReleaseMedia(m)) /\ ReleaseMedia(m).announced = m.announced
  <1> DEFINE d == DropThose(m, Tracks)
             n == ReleaseMedia(m)
  <1>1. ThoseDropped(m, d, Tracks)
    <2>1. Tracks \in SUBSET Tracks
      OBVIOUS
    <2> QED
      BY <2>1, DropThoseIs DEF Mapped
  <1>2. d.shown = {} /\ \A t \in Tracks : d.consumers[t] = Absent
    BY <1>1 DEF ThoseDropped
  <1>3. n = [d EXCEPT !.recv = Absent, !.consuming = {}, !.open = {}, !.ice = NewPaths,
                      !.making = {}, !.retries = {}, !.gaveUp = {}]
    BY DEF ReleaseMedia
  <1>4. d \in Connections
    BY <1>1 DEF ThoseDropped
  <1> HIDE DEF d, n
  <1>5. /\ n.recv = Absent /\ n.consuming = {} /\ n.open = {} /\ n.making = {} /\ n.retries = {}
        /\ n.shown = d.shown /\ n.consumers = d.consumers /\ n.announced = d.announced
    BY <1>3, <1>4 DEF Connections
  <1> QED
    BY <1>1, <1>2, <1>5 DEF Bare, ThoseDropped, n

LEMMA AskedAtOneEnd ==
    ASSUME NEW a \in Seq(Requested), NEW v,
           v = Append(a, CapsRequest) \/ v = <<CapsRequest>> \o a
    PROVE  /\ Range(v) = Range(a) \cup {CapsRequest}
           /\ \A K : CapsRequest \notin K => (Once(a, K) => Once(v, K)) /\ (Lacks(a, K) => Lacks(v, K))
           /\ \A A, B : CapsRequest \notin A \cup B /\ Ordered(a, A, B) => Ordered(v, A, B)
  <1> DEFINE q == <<CapsRequest>>
  <1>1. q \in Seq(Requested) /\ DOMAIN q = {1} /\ q[1] = CapsRequest
    BY CapsRequestIs
  <1>2. Range(q) = {CapsRequest}
    BY <1>1 DEF Range
  <1>3. \A K : CapsRequest \notin K => Lacks(q, K) /\ Once(q, K)
    BY <1>1 DEF Lacks, Once
  <1>4. \A A, B : CapsRequest \notin A \cup B => Ordered(q, A, B)
    BY <1>1 DEF Ordered
  <1>5. CASE v = Append(a, CapsRequest)
    <2>1. Range(v) = Range(a) \cup {CapsRequest}
      BY <1>5, CapsRequestIs, RangeOfAppend
    <2>2. \A K : CapsRequest \notin K => (Once(a, K) => Once(v, K)) /\ (Lacks(a, K) => Lacks(v, K))
      BY <1>5, AppendOfSuch
    <2>3. \A A, B : CapsRequest \notin A \cup B /\ Ordered(a, A, B) => Ordered(v, A, B)
      BY <1>5, AppendOrdered
    <2> QED
      BY <2>1, <2>2, <2>3
  <1>6. CASE v = q \o a
    <2> HIDE DEF q
    <2>1. Range(v) = Range(a) \cup {CapsRequest}
      BY <1>1, <1>2, <1>6, RangeOfConcat
    <2>2. ASSUME NEW K, CapsRequest \notin K
          PROVE  (Once(a, K) => Once(v, K)) /\ (Lacks(a, K) => Lacks(v, K))
      <3>1. Lacks(q, K) /\ Once(q, K)
        BY <1>3, <2>2
      <3> QED
        BY <1>1, <1>6, <3>1, ConcatOfSuch
    <2>3. ASSUME NEW A, NEW B, CapsRequest \notin A \cup B, Ordered(a, A, B) PROVE Ordered(v, A, B)
      <3>1. Lacks(q, A) /\ Ordered(q, A, B)
        BY <1>3, <1>4, <2>3
      <3> QED
        BY <1>1, <1>6, <2>3, <3>1, ConcatOrdered
    <2> QED
      BY <2>1, <2>2, <2>3
  <1> QED
    BY <1>5, <1>6

\* startSession, on what is left: the requests that waited stay.
LEMMA NewSessionKeeps ==
    ASSUME NEW f, NEW m, NEW n \in Connections, NEW s, Subs(f, m, <<>>, s), Bare(n),
           n.channel = "ready", n.announced = s.onAir,
           n.asks = Append(m.asks, CapsRequest) \/ n.asks = <<CapsRequest>> \o m.asks
    PROVE  Subs(f, n, <<>>, s) /\ Covered(n)
  <1> DEFINE a == m.asks
             v == n.asks
             e == CapsRequest
             none == <<>>
  <1>1. m \in Connections /\ s \in Servers /\ WellFormed(m, none) /\ Tagged(f, m, none, s) /\ Booked(m, Way(m, none))
    BY DEF Subs, Shaped
  <1>2. a \in Seq(Requested)
    BY <1>1, AsksAreSeq
  <1>3. Way(m, none) = a
    BY <1>2 DEF Way
  <1>4. /\ Range(v) = Range(a) \cup {e}
        /\ \A K : e \notin K => (Once(a, K) => Once(v, K)) /\ (Lacks(a, K) => Lacks(v, K))
        /\ \A A, B : e \notin A \cup B /\ Ordered(a, A, B) => Ordered(v, A, B)
    BY <1>2, AskedAtOneEnd
  <1>5. e.what = "caps" /\ Formed(e)
    BY CapsRequestIs DEF CapsRequest
  <1> HIDE DEF e, none
  <1>6. ~IsAttempt(e) /\ e \notin PathRequests /\ e \notin Attempts /\ \A t : e \notin AttemptOf(t)
    BY <1>5 DEF IsAttempt, PathRequests, Attempts, AttemptOf
  <1> HIDE DEF a, v
  <1>7. Booked(n, v)
    <2>1. n.making = {}
      BY DEF Bare
    <2> QED
      BY <2>1, <1>1, <1>3, <1>4, <1>6 DEF Booked, Makes
  <1>8. \A x \in Range(v) : Formed(x) /\ (x.what = "resume" => f[x.id] = x.try.track)
    <2>1. \A x \in Range(a) : Formed(x) /\ (x.what = "resume" => f[x.id] = x.try.track)
      BY <1>1 DEF WellFormed, Tagged, a
    <2> QED
      BY <2>1, <1>4, <1>5
  <1>9. f \in [Consumers -> Tracks \cup {Absent}] /\ \A c \in Consumers : s.consumers[c] # Absent => f[c] = s.consumers[c]
    BY <1>1 DEF Tagged
  <1>10. Booked(n, n.asks) /\ \A x \in Range(n.asks) : Formed(x) /\ (x.what = "resume" => f[x.id] = x.try.track)
    BY <1>7, <1>8 DEF v
  <1> QED
    BY <1>1, <1>9, <1>10, BareIsSubs

LEMMA StartedIsFrame ==
    ASSUME NEW m \in Connections
    PROVE  SameSubs(m, StartSession(m)) /\ StartSession(m).retries = m.retries
  <1> DEFINE rests == Outdated(m.resting)
             n == [m EXCEPT !.sid = TRUE, !.build = TRUE, !.resting = rests]
             k == StartSession(m)
  <1>1. k = [n EXCEPT !.asks = Append(@, CapsRequest)]
    BY DEF StartSession, Ask, CapsRequest
  <1> HIDE DEF rests
  <1>2. SameSubs(m, n) /\ n.retries = m.retries
    BY DEF Connections, SameSubs
  <1> DEFINE q == Append(n.asks, CapsRequest)
  <1>3. k = [n EXCEPT !.asks = q]
    BY <1>1
  <1> HIDE DEF q, k
  <1>4. SameSubs(n, k) /\ k.retries = n.retries
    BY <1>3 DEF Connections, SameSubs
  <1> HIDE DEF n
  <1> QED
    BY <1>2, <1>4 DEF SameSubs, k

LEMMA OpensKeepsSubs ==
    ASSUME NEW f, Subs(f, conn, line, srv), Covered(conn), BasicInv, ChannelOpens
    PROVE  Kept(f)
  <1> DEFINE m == conn
             o == [conn EXCEPT !.channel = "ready"]
             u == ApplySnapshot(o)
             n == StartSession(u)
  <1>1. m.channel = "opening" /\ conn' = n /\ line' = line /\ srv' = srv
    BY DEF ChannelOpens
  <1>2. m \in Connections /\ srv \in Servers /\ line = <<>> /\ m.recv = Absent
    BY <1>1, BasicIsTyped DEF BasicInv, PathInv, Steady, Framed, ChannelSound
  <1>3. Released(m) /\ Mapped(f, m)
    BY SubsAreMapped DEF Subs
  <1> HIDE DEF m
  <1>4. /\ o \in Connections /\ SameMedia(m, o) /\ o.asks = m.asks /\ o.channel = "ready"
    <2>1. o \in Connections
      BY ZenonT(60), <1>2 DEF Connections, m
    <2> QED
      BY <1>2, <2>1 DEF Connections, SameMedia, SameSubs, m
  <1> HIDE DEF o
  <1>5. Mapped(f, o)
    BY <1>3, <1>4 DEF Mapped, SameMedia, SameSubs
  <1>6. /\ u \in Connections /\ u.channel = o.channel /\ u.asks = o.asks /\ u.recv = o.recv
        /\ u.announced = srv.onAir
        /\ u.consuming = o.consuming /\ u.making = o.making
        /\ u.retries = o.retries
        /\ \A t \in Tracks : u.consumers[t] = IF t \in srv.onAir THEN o.consumers[t] ELSE Absent
        /\ Mapped(f, u)
    BY <1>2, <1>4, <1>5, SnapshotIs
  <1> HIDE DEF u
  <1>7. Bare(u)
    BY <1>2, <1>3, <1>4, <1>6 DEF Bare, Released, Mapped, SameMedia, SameSubs
  <1>9. n \in Connections /\ n.channel = u.channel /\ n.asks = Append(u.asks, CapsRequest) /\ SameSubs(u, n)
        /\ n.retries = u.retries
    BY <1>6, StartedIs, StartedIsFrame
  <1> HIDE DEF n
  <1>10. Bare(n) /\ n.channel = "ready" /\ n.announced = srv.onAir /\ n.asks = Append(m.asks, CapsRequest)
    BY <1>4, <1>6, <1>7, <1>9 DEF Bare, SameMedia, SameSubs
  <1>11. Subs(f, m, <<>>, srv)
    BY <1>2 DEF m
  <1>12. Subs(f, n, <<>>, srv) /\ Covered(n)
    BY <1>9, <1>10, <1>11, NewSessionKeeps
  <1> QED
    BY <1>1, <1>2, <1>12 DEF Kept

LEMMA EndKeepsSubs ==
    ASSUME NEW f, Subs(f, conn, line, srv), Covered(conn), BasicInv, ~LateFailures,
           NEW final \in BOOLEAN, ConnectionEnds(final), BasicNext
    PROVE  Kept(f)
  <1> DEFINE r == ReleaseMedia(conn)
             n == Ended(conn, final)
  <1>1. conn' = n /\ line' = <<>> /\ srv' = srv
    BY DEF ConnectionEnds
  <1>2. conn \in Connections /\ srv \in Servers /\ Mapped(f, conn)
    BY BasicIsTyped, SubsAreMapped
  <1>3. r \in Connections /\ Bare(r)
    BY <1>2, ReleasedIs, ReleasedIsBare
  <1>4. n = [r EXCEPT !.alive = FALSE, !.channel = "closed", !.asks = <<>>,
                      !.build = FALSE, !.rebuild = FALSE, !.resting = [x \in Rests |-> 0],
                      !.announced = IF final THEN @ ELSE {},
                      !.state = IF final THEN "disconnected" ELSE @]
    BY DEF Ended
  <1>5. n \in Connections
    BY <1>1 DEF BasicNext, PathInv, Steady, Framed
  <1> HIDE DEF r, n
  <1>6. Bare(n) /\ n.channel = "closed" /\ n.asks = <<>>
    <2> DEFINE an == IF final THEN r.announced ELSE {}
               st == IF final THEN "disconnected" ELSE r.state
               none == <<>>
               rests == [x \in Rests |-> 0]
    <2>1. n = [r EXCEPT !.alive = FALSE, !.channel = "closed", !.asks = none,
                        !.build = FALSE, !.rebuild = FALSE, !.resting = rests, !.announced = an, !.state = st]
      BY <1>4
    <2> HIDE DEF an, st, none, rests
    <2>2. /\ n.recv = r.recv /\ n.consuming = r.consuming /\ n.making = r.making
          /\ n.open = r.open /\ n.shown = r.shown /\ n.retries = r.retries
          /\ n.consumers = r.consumers /\ n.channel = "closed" /\ n.asks = none
      BY <1>3, <2>1 DEF Connections
    <2> QED
      BY <1>3, <2>2 DEF Bare, none
  <1>7. Tagged(f, conn, line, srv)
    BY DEF Subs
  <1>8. Booked(n, <<>>) /\ Range(<<>>) = {}
    BY <1>6, EmptyRange DEF Booked, Bare, Makes, Once, Ordered, Lacks
  <1>9. Booked(n, n.asks) /\ Range(n.asks) = {} /\ n.channel # "ready"
    BY <1>6, <1>8
  <1>10. Subs(f, n, <<>>, srv) /\ Covered(n)
    <2>1. /\ f \in [Consumers -> Tracks \cup {Absent}]
          /\ \A c \in Consumers : srv.consumers[c] # Absent => f[c] = srv.consumers[c]
      BY <1>7 DEF Tagged
    <2>2. \A e \in Range(n.asks) : Formed(e) /\ (e.what = "resume" => f[e.id] = e.try.track)
      BY <1>9
    <2> QED
      BY <1>2, <1>5, <1>6, <1>9, <2>1, <2>2, BareIsSubs
  <1> QED
    BY <1>1, <1>10 DEF Kept

LEMMA InitIsSubs == SubscribingInit => SubsInv
  <1> SUFFICES ASSUME SubscribingInit PROVE SubsInv
    OBVIOUS
  <1> DEFINE n == NewConnection
             s == NewServer
             f == s.consumers
  <1>1. conn = n /\ line = <<>> /\ srv = s
    BY DEF SubscribingInit
  <1>2. n \in Connections /\ s \in Servers
    BY InitIsBasic, BasicIsTyped, <1>1
  <1>3. Bare(n) /\ n.channel # "ready" /\ n.asks = <<>>
    BY DEF NewConnection, Bare
  <1>4. f \in [Consumers -> Tracks \cup {Absent}]
    BY <1>2 DEF Servers
  <1> HIDE DEF n, s
  <1>5. Booked(n, <<>>) /\ Range(<<>>) = {}
    BY <1>3, EmptyRange DEF Booked, Bare, Makes, Once, Ordered, Lacks
  <1>6. Booked(n, n.asks) /\ Range(n.asks) = {}
    BY <1>3, <1>5
  <1>7. \A c \in Consumers : s.consumers[c] # Absent => f[c] = s.consumers[c]
    OBVIOUS
  <1> HIDE DEF f
  <1>8. Subs(f, n, <<>>, s) /\ Covered(n)
    BY <1>2, <1>3, <1>4, <1>6, <1>7, BareIsSubs
  <1> QED
    BY <1>1, <1>4, <1>8 DEF SubsInv

\* The channel is back, and the server does not know the session.
LEMMA AnewKeepsSubs ==
    ASSUME NEW f, Subs(f, conn, line, srv), Covered(conn), BasicInv, BasicNext, NEW waits, ~LateFailures,
           conn.channel = "reconnecting", conn' = BackUp(conn, FALSE, waits), line' = line, srv' = srv
    PROVE  Kept(f)
  <1> DEFINE m == conn
             b == BackOf(conn)
             u == ApplySnapshot(b)
             r == ReleaseMedia(u)
             k == StartSession(r)
             n == [k EXCEPT !.asks = @ \o m.asks]
  <1>1. conn' = n
    BY DEF BackUp, BackOf
  <1>2. m \in Connections /\ srv \in Servers /\ line = <<>> /\ Mapped(f, m)
    BY BasicIsTyped, SubsAreMapped DEF BasicInv, PathInv, Steady, Framed, ChannelSound
  <1>3. n \in Connections
    BY <1>1 DEF BasicNext, PathInv, Steady, Framed
  <1>4. Subs(f, m, <<>>, srv)
    BY <1>2
  <1> HIDE DEF m
  <1>5. b \in Connections /\ SameMedia(m, b) /\ b.channel = "ready" /\ b.asks = <<>>
    <2>1. b \in Connections
      BY <1>2, BackIs DEF m
    <2> QED
      BY <1>2, <2>1 DEF BackOf, Connections, SameMedia, SameSubs, m
  <1>6. Mapped(f, b)
    BY <1>2, <1>5 DEF Mapped, SameMedia, SameSubs
  <1> HIDE DEF b
  <1>7. u \in Connections /\ u.channel = b.channel /\ u.asks = b.asks /\ u.announced = srv.onAir /\ Mapped(f, u)
    BY <1>2, <1>5, <1>6, SnapshotIs
  <1> HIDE DEF u
  <1>8. r \in Connections /\ r.channel = u.channel /\ r.asks = u.asks /\ Bare(r) /\ r.announced = u.announced
    BY <1>7, ReleasedIs, ReleasedIsBare
  <1> HIDE DEF r
  <1>9. k \in Connections /\ k.channel = r.channel /\ k.asks = Append(r.asks, CapsRequest) /\ SameSubs(r, k)
        /\ k.retries = r.retries
    BY <1>8, StartedIs, StartedIsFrame
  <1> HIDE DEF k
  <1>10. Append(<<>>, CapsRequest) = <<CapsRequest>>
    OBVIOUS
  <1>11. k.asks = <<CapsRequest>>
    BY <1>5, <1>7, <1>8, <1>9, <1>10
  <1>12. n.asks = <<CapsRequest>> \o m.asks /\ SameMedia(k, n) /\ n.channel = k.channel
    <2> DEFINE q == <<CapsRequest>> \o m.asks
    <2>1. n = [k EXCEPT !.asks = q]
      BY <1>11
    <2> HIDE DEF n, q
    <2>2. n.asks = q /\ SameMedia(k, n) /\ n.channel = k.channel
      BY <1>9, <2>1 DEF Connections, SameMedia, SameSubs
    <2> QED
      BY <2>2 DEF q
  <1> HIDE DEF n
  <1>13. Bare(n) /\ n.channel = "ready" /\ n.announced = srv.onAir
    BY <1>5, <1>7, <1>8, <1>9, <1>12 DEF Bare, SameMedia, SameSubs
  <1>14. Subs(f, n, <<>>, srv) /\ Covered(n)
    BY <1>3, <1>4, <1>12, <1>13, NewSessionKeeps
  <1> QED
    BY <1>1, <1>2, <1>14 DEF Kept

\* What the page has of a session that survived, before it asks for the rest.
Survived(m, d, s) ==
    /\ d \in Connections /\ d.channel = "ready" /\ d.recv = m.recv /\ d.announced = s.onAir
    /\ d.consuming = m.consuming /\ d.making = m.making
    /\ d.retries = m.retries /\ d.gaveUp = m.gaveUp
    /\ \A t \in Tracks : d.consumers[t] =
           IF t \in s.onAir /\ s.consumers[m.consumers[t]] # Absent THEN m.consumers[t] ELSE Absent

LEMMA SurvivedKeeps ==
    ASSUME NEW f, NEW m, NEW d, NEW s, Subs(f, m, <<>>, s), Survived(m, d, s), Mapped(f, d), m.recv # Absent,
           d.asks = m.asks,
           \A t \in Tracks : d.consumers[t] # Absent /\ m.consumers[t] \in m.shown => m.consumers[t] \in d.shown
    PROVE  Subs(f, d, <<>>, s)
  <1> DEFINE none == <<>>
             w == Way(m, none)
  <1>1. /\ none \in Seq(Messages) /\ Range(none) = {} /\ \A K : Lacks(none, K) /\ Once(none, K)
        /\ \A A, B : Ordered(none, A, B)
    BY EmptyRange DEF Lacks, Once, Ordered
  <1>2. Subs(f, m, none, s) /\ Way(d, none) = w
    BY DEF Way
  <1> HIDE DEF none, w
  <1>3. m \in Connections /\ s \in Servers /\ WellFormed(m, none)
    BY <1>2 DEF Subs, Shaped
  <1>4. /\ Booked(m, w) /\ Counted(m, w) /\ Held(m) /\ Awaited(m, w) /\ Tagged(f, m, none, s)
        /\ Resumable(m, none, s) /\ News(m, none, s)
    BY <1>2 DEF Subs, w
  <1>5. /\ d \in Connections /\ d.channel = "ready" /\ d.recv = m.recv /\ d.announced = s.onAir
        /\ d.consuming = m.consuming /\ d.making = m.making
        /\ d.retries = m.retries /\ d.gaveUp = m.gaveUp
        /\ \A t \in Tracks : d.consumers[t] =
               IF t \in s.onAir /\ s.consumers[m.consumers[t]] # Absent THEN m.consumers[t] ELSE Absent
    BY DEF Survived
  <1>6. Range(w) = Range(m.asks) /\ Range(w) \subseteq Entry /\ \A e \in Range(w) : Formed(e)
    <2>1. none \in Seq(Messages)
      BY <1>1
    <2>2. Range(w) = Range(none) \cup Range(m.asks) /\ Range(m.asks) \subseteq Requested
      BY <1>3, <2>1, WayIs DEF w
    <2> QED
      BY <2>2, <1>1, <1>3 DEF Entry, WellFormed
  <1>7. \A e \in Range(w) : IsAttempt(e) => e.try.track \in Tracks /\ Under(m, w, e.try.track)
    <2> TAKE e \in Range(w)
    <2> HAVE IsAttempt(e)
    <2>1. e.try.track \in Tracks
      BY <1>6 DEF Formed, Tries, IsAttempt
    <2>2. ~Lacks(w, AttemptOf(e.try.track))
      BY <1>6, LacksIs
    <2> QED
      BY <2>1, <2>2 DEF Under
  <1>8. Shaped(d, none, s)
    BY <1>1, <1>3, <1>5 DEF Shaped, WellFormed
  <1>9. Booked(d, w) /\ Counted(d, w)
    BY <1>4, <1>5 DEF Booked, Counted, Makes, Under
  <1>10. Released(d)
    BY <1>5 DEF Released
  <1>11. Held(d)
    <2>1. \A t \in Tracks : d.consumers[t] # Absent =>
              t \in d.announced /\ (d.consumers[t] \in d.shown \/ t \in d.consuming)
      BY <1>4, <1>5 DEF Held
    <2> QED
      BY <2>1 DEF Held, Mapped
  <1>12. Awaited(d, w)
    <2>1. \A y \in d.making : y.try.track \in Tracks
      BY <1>5 DEF Connections, Tries
    <2> QED
      BY <2>1, <1>4, <1>5, <1>7 DEF Awaited, IsAttempt
  <1>13. Tagged(f, d, none, s)
    <2>1. \A t \in Tracks : d.consumers[t] # Absent => f[d.consumers[t]] = t
      BY DEF Mapped
    <2> QED
      BY <2>1, <1>1, <1>4, <1>5 DEF Tagged
  <1>14. Resumable(d, none, s)
    <2> SUFFICES ASSUME NEW e \in Range(d.asks), e.what = "resume", e.try.track \in s.onAir, s.consumers[e.id] # Absent
                 PROVE  d.consumers[e.try.track] = e.id
      BY <1>1, <1>5 DEF Resumable
    <2>1. e \in Range(w) /\ e \in Range(m.asks) /\ IsAttempt(e)
      BY <1>6 DEF IsAttempt
    <2>2. e.try.track \in Tracks /\ Under(m, Way(m, none), e.try.track)
      BY <1>7, <2>1 DEF w
    <2>3. e.try.track \in m.announced
      BY <1>4, <2>2 DEF News
    <2>4. m.consumers[e.try.track] = e.id
      BY <1>4, <2>1, <2>3 DEF Resumable
    <2> QED
      BY <1>5, <2>2, <2>4
  <1>15. Agree(d, none, s)
    <2> SUFFICES ASSUME NEW t \in Tracks, d.consumers[t] # Absent
                 PROVE  s.consumers[d.consumers[t]] = t
      BY DEF Agree
    <2>1. d.consumers[t] = m.consumers[t] /\ s.consumers[m.consumers[t]] # Absent
      BY <1>5
    <2>2. m.consumers[t] \in Consumers
      BY <1>3, <2>1 DEF Connections
    <2> QED
      BY <2>1, <2>2, <1>4 DEF Tagged
  <1>16. RoomKnown(d, none, s) /\ News(d, none, s)
    BY <1>1, <1>5 DEF RoomKnown, News
  <1>17. Subs(f, d, none, s)
    BY <1>2, <1>8, <1>9, <1>10, <1>11, <1>12, <1>13, <1>14, <1>15, <1>16 DEF Subs
  <1> QED
    BY <1>17 DEF none

LEMMA IntactKeepsSubs ==
    ASSUME NEW f, Subs(f, conn, line, srv), Covered(conn), BasicInv, BasicNext, NEW waits \in BOOLEAN,
           conn.channel = "reconnecting", conn.recv # Absent,
           conn' = BackUp(conn, TRUE, waits), line' = line, srv' = srv
    PROVE  Kept(f)
  <1> DEFINE m == conn
             s == srv
             b == BackOf(conn)
             u == ApplySnapshot(b)
             lost == {t \in Tracks : u.consumers[t] # Absent /\ s.consumers[u.consumers[t]] = Absent}
             d == DropThose(u, lost)
             ts == Missing(d, d.announced)
             c == Subscribe(d, ts, FALSE)
             q == NewAttempts(d, ts, FALSE)
             r == Recovered(c)
             n == [r EXCEPT !.asks = @ \o m.asks]
             g == [d EXCEPT !.asks = m.asks]
             more == d.resting["reconcile"] + 1
             e == [d EXCEPT !.resting["reconcile"] = more]
             x == [e EXCEPT !.asks = @ \o m.asks]
             none == <<>>
  <1>1. conn' = IF waits THEN x ELSE n
    BY DEF BackUp, BackOf, DropLost, Rest, Rested, ConsumeMissing, EnsureConsumed
  <1>2. m \in Connections /\ s \in Servers /\ line = none /\ Mapped(f, m) /\ m.recv # Absent
    BY BasicIsTyped, SubsAreMapped DEF BasicInv, PathInv, Steady, Framed, ChannelSound
  <1>4. Subs(f, m, none, s) /\ Lacks(Way(m, none), PathRequests)
    BY <1>2, NoPaths
  <1>5. none \in Seq(Messages) /\ none \in Seq(Requested)
    OBVIOUS
  <1>6. m.asks \in Seq(Requested)
    BY <1>2, AsksAreSeq
  <1>7. b \in Connections /\ SameMedia(m, b) /\ b.channel = "ready" /\ b.asks = none
    <2>1. b \in Connections
      BY <1>2, BackIs
    <2> QED
      BY <1>2, <2>1 DEF BackOf, Connections, SameMedia, SameSubs
  <1> HIDE DEF m, b, none
  <1>8. Mapped(f, b)
    BY <1>2, <1>7 DEF Mapped, SameMedia, SameSubs
  <1>9. /\ u \in Connections /\ u.channel = b.channel /\ u.resting = b.resting /\ u.asks = b.asks /\ u.recv = b.recv
        /\ u.announced = s.onAir
        /\ u.consuming = b.consuming /\ u.making = b.making
        /\ u.retries = b.retries /\ u.gaveUp = b.gaveUp
        /\ \A t \in Tracks : u.consumers[t] = IF t \in s.onAir THEN b.consumers[t] ELSE Absent
        /\ \A t \in s.onAir : b.consumers[t] \in b.shown => b.consumers[t] \in u.shown
        /\ Mapped(f, u)
    BY <1>2, <1>7, <1>8, SnapshotIs
  <1>10. ThoseDropped(u, d, lost)
    <2>1. lost \in SUBSET Tracks
      OBVIOUS
    <2> HIDE DEF u, lost
    <2> QED
      BY <1>9, <2>1, DropThoseIs DEF Mapped
  <1>11. \A t : t \in lost <=> t \in Tracks /\ u.consumers[t] # Absent /\ s.consumers[u.consumers[t]] = Absent
    OBVIOUS
  <1> HIDE DEF u, lost, d
  <1>12. Survived(m, d, s) /\ Mapped(f, d) /\ d.asks = none
    <2>1. \A t \in Tracks : d.consumers[t] =
              IF t \in s.onAir /\ s.consumers[m.consumers[t]] # Absent THEN m.consumers[t] ELSE Absent
      BY <1>7, <1>9, <1>10, <1>11 DEF ThoseDropped, SameMedia, SameSubs
    <2>2. Survived(m, d, s)
      BY <2>1, <1>7, <1>9, <1>10 DEF ThoseDropped, SameMedia, SameSubs, Survived
    <2>3. \A t \in Tracks : d.consumers[t] # Absent => f[d.consumers[t]] = t
      BY <1>9, <1>10 DEF ThoseDropped, Mapped
    <2> QED
      BY <2>2, <2>3, <1>7, <1>9, <1>10 DEF ThoseDropped, Mapped
  <1>13. \A t \in Tracks : d.consumers[t] # Absent /\ m.consumers[t] \in m.shown => m.consumers[t] \in d.shown
    <2> TAKE t \in Tracks
    <2> HAVE d.consumers[t] # Absent /\ m.consumers[t] \in m.shown
    <2>1. t \notin lost /\ t \in s.onAir /\ u.consumers[t] = m.consumers[t]
      BY <1>7, <1>9, <1>10 DEF ThoseDropped, SameMedia, SameSubs
    <2>2. m.consumers[t] \in u.shown
      BY <2>1, <1>7, <1>9 DEF SameMedia, SameSubs
    <2> QED
      BY <2>1, <2>2, <1>10 DEF ThoseDropped
  <1>14. d \in Connections /\ d.channel = "ready" /\ d.recv # Absent /\ d.announced \subseteq Tracks
    BY <1>2, <1>12 DEF Survived, Connections
  <1>15. /\ g \in Connections /\ SameMedia(d, g) /\ g.channel = d.channel /\ g.resting = d.resting /\ g.asks = m.asks
    BY <1>6, <1>14 DEF Connections, SameMedia, SameSubs
  <1> HIDE DEF g
  <1>16. Subs(f, g, none, s)
    <2>1. Survived(m, g, s) /\ Mapped(f, g)
      BY <1>12, <1>15 DEF Survived, Mapped, SameMedia, SameSubs
    <2>2. \A t \in Tracks : g.consumers[t] # Absent /\ m.consumers[t] \in m.shown => m.consumers[t] \in g.shown
      BY <1>13, <1>15 DEF SameMedia, SameSubs
    <2>3. none = <<>>
      BY DEF none
    <2> QED
      BY <1>2, <1>4, <1>15, <2>1, <2>2, <2>3, SurvivedKeeps
  <1>17. ts = {t \in d.announced : d.consumers[t] = Absent /\ t \notin d.consuming}
    BY <1>14 DEF Missing
  <1>18. PICK no \in BOOLEAN : no = FALSE
    OBVIOUS
  <1>19. Subscribed(d, c, none, ts, q, no)
    <2>1. ts \in SUBSET Tracks
      BY <1>14, <1>17
    <2>2. c = Subscribe(d, ts, no) /\ q = NewAttempts(d, ts, no)
      BY <1>18
    <2> HIDE DEF ts, c, q
    <2> QED
      BY <1>5, <1>14, <2>1, <2>2, SubscribeIs
  <1>20. c.asks = q
    <2>1. c.asks = d.asks \o q
      BY <1>14, <1>17, SubscribeTyped
    <2>2. q \in Seq(Requested)
      BY <1>19 DEF Subscribed
    <2> HIDE DEF c, q
    <2>3. none \o q = q
      BY <2>2 DEF none
    <2> QED
      BY <2>1, <2>3, <1>12
  <1> HIDE DEF ts, c, q
  <1>21. /\ c \in Connections
         /\ c.channel = d.channel /\ c.resting = d.resting /\ c.recv = d.recv /\ c.announced = d.announced
         /\ c.consumers = d.consumers /\ c.making = d.making /\ c.open = d.open
         /\ c.retries = d.retries /\ c.shown = d.shown
         /\ c.consuming = d.consuming \cup ts /\ c.gaveUp = d.gaveUp \ ts
         /\ q \in Seq(Requested) /\ Range(q) = AttemptsAt(ts, d.recv, no)
         /\ \A i, j \in DOMAIN q : q[i] = q[j] => i = j
    BY <1>19 DEF Subscribed
  <1>22. r \in Connections /\ r.channel = c.channel /\ r.resting = c.resting /\ r.asks = q /\ SameMedia(c, r)
    BY <1>20, <1>21, RecoveredIs, RecoveredIsFrame DEF Frame, Rerouted
  <1> HIDE DEF r
  <1>23. n \in Connections /\ n.asks = q \o m.asks /\ SameMedia(r, n) /\ n.channel = r.channel /\ n.resting = r.resting
    <2> DEFINE v == q \o m.asks
    <2>1. n = [r EXCEPT !.asks = v]
      BY <1>22
    <2>0. v \in Seq(Requested)
      BY <1>6, <1>21
    <2> HIDE DEF n, v
    <2>2. n \in Connections /\ n.asks = v /\ SameMedia(r, n) /\ n.channel = r.channel /\ n.resting = r.resting
      BY <1>22, <2>0, <2>1 DEF Connections, SameMedia, SameSubs
    <2> QED
      BY <2>2 DEF v
  <1> HIDE DEF n
  <1>24. Subscribed(g, n, none, ts, q, no)
    <2>1. Range(n.asks) = Range(g.asks) \cup Range(q)
      <3>1. Range(q \o m.asks) = Range(q) \cup Range(m.asks)
        BY <1>6, <1>21, RangeOfConcat
      <3> QED
        BY <3>1, <1>15, <1>23
    <2>2. Grown(Way(g, none), q, Way(n, none))
      <3>1. Grown(m.asks, q, q \o m.asks)
        BY <1>6, <1>21, GrownEitherWay
      <3>2. Way(g, none) = m.asks
        BY <1>6, <1>15 DEF Way, none
      <3>3. n.asks \in Seq(Requested)
        BY <1>23, AsksAreSeq
      <3>4. Way(n, none) = q \o m.asks
        BY <1>23, <3>3 DEF Way, none
      <3> QED
        BY <3>1, <3>2, <3>4
    <2>3. /\ n.channel = g.channel /\ n.resting = g.resting /\ n.recv = g.recv /\ n.announced = g.announced
          /\ n.consumers = g.consumers /\ n.making = g.making /\ n.open = g.open
          /\ n.retries = g.retries /\ n.shown = g.shown
          /\ n.consuming = g.consuming \cup ts /\ n.gaveUp = g.gaveUp \ ts
          /\ Range(q) = AttemptsAt(ts, g.recv, no)
      BY <1>15, <1>21, <1>22, <1>23 DEF SameMedia, SameSubs
    <2> QED
      BY <1>23, <1>21, <2>1, <2>2, <2>3 DEF Subscribed
  <1>25. /\ Subs(f, n, none, s)
         /\ \A t \in ts : CoveredAt(n, t)
         /\ \A t : CoveredAt(g, t) => CoveredAt(n, t)
    <2>1. ts \in SUBSET g.announced /\ \A t \in ts : g.consumers[t] = Absent /\ t \notin g.consuming
      BY <1>15, <1>17 DEF SameMedia, SameSubs
    <2>2. Way(g, none) = Way(m, none)
      BY <1>15 DEF Way
    <2>3. g.recv # Absent /\ Lacks(Way(g, none), PathRequests)
      BY <1>4, <1>14, <1>15, <2>2 DEF SameMedia, SameSubs
    <2> QED
      BY <1>16, <1>24, <2>1, <2>3, SubscribedKeeps
  <1>26. Covered(n)
    <2>1. n.announced = g.announced /\ g.announced = d.announced /\ g.consumers = d.consumers /\ g.consuming = d.consuming
      BY <1>15, <1>24 DEF Subscribed, SameMedia, SameSubs
    <2>2. \A t \in n.announced \ ts : CoveredAt(g, t)
      BY <1>17, <2>1 DEF CoveredAt
    <2> QED
      BY <1>25, <2>2 DEF Covered, Reconciled
  <1>27. CASE waits
    <2>1. more \in Nat /\ "reconcile" \in Rests /\ d.resting \in [Rests -> Nat]
      BY <1>14 DEF Connections, Rests
    <2> DEFINE rests == [d.resting EXCEPT !["reconcile"] = more]
               a == m.asks
    <2>2. rests["reconcile"] # 0 /\ rests \in [Rests -> Nat]
      BY <2>1
    <2>3. x = [d EXCEPT !.resting = rests, !.asks = a]
      <3>1. e.asks = none
        BY <1>12
      <3>2. none \o m.asks = a
        BY <1>6 DEF none
      <3>3. x = [e EXCEPT !.asks = a]
        BY <3>1, <3>2
      <3> HIDE DEF a, more
      <3> QED
        BY <1>14, <3>3 DEF Connections
    <2> HIDE DEF rests, more, x
    <2>4. /\ x \in Connections /\ SameSubs(d, x) /\ x.asks = m.asks /\ x.channel = d.channel
          /\ x.retries = d.retries /\ x.resting = rests
      <3>1. a \in Seq(Requested) /\ a = m.asks
        BY <1>6
      <3> HIDE DEF a
      <3> QED
        BY <1>14, <2>2, <2>3, <3>1 DEF Connections, SameSubs
    <2>5. SameSubs(g, x) /\ x.asks = g.asks /\ x.channel = g.channel /\ x.retries = g.retries
      BY <1>15, <2>4 DEF SameMedia, SameSubs
    <2>6. Subs(f, x, none, s)
      <3>1. g.recv = Absent => x.retries = {}
        BY <1>16, <2>5 DEF Subs, Released
      <3> QED
        BY <1>16, <2>4, <2>5, <3>1, FrameOfSubs
    <2>7. Covered(x)
      BY <2>2, <2>4 DEF Covered, Reconciled
    <2> QED
      BY <1>1, <1>2, <1>27, <2>6, <2>7 DEF Kept, s
  <1>28. CASE ~waits
    BY <1>1, <1>2, <1>25, <1>26, <1>28 DEF Kept, s
  <1> QED
    BY <1>27, <1>28

LEMMA ReturnsKeepsSubs ==
    ASSUME NEW f, Subs(f, conn, line, srv), Covered(conn), BasicInv, BasicNext, ~LateFailures,
           NEW waits \in BOOLEAN, ChannelReturns(waits)
    PROVE  Kept(f)
  <1> DEFINE intact == conn.sid /\ conn.recv # Absent /\ conn.recv = srv.transport
  <1>1. conn.channel = "reconnecting" /\ conn' = BackUp(conn, intact, waits) /\ line' = line /\ srv' = srv
    BY DEF ChannelReturns
  <1>2. CASE intact
    <2>1. intact = TRUE
      BY <1>2, BasicIsTyped DEF Connections
    <2>2. conn.recv # Absent
      BY <1>2
    <2> HIDE DEF intact
    <2>3. conn' = BackUp(conn, TRUE, waits)
      BY <1>1, <2>1
    <2> QED
      BY <1>1, <2>2, <2>3, IntactKeepsSubs
  <1>3. CASE ~intact
    <2>1. intact = FALSE
      BY <1>3
    <2> HIDE DEF intact
    <2>2. conn' = BackUp(conn, FALSE, waits)
      BY <1>1, <2>1
    <2> QED
      BY <1>1, <2>2, AnewKeepsSubs
  <1> QED
    BY <1>2, <1>3


-----------------------------------------------------------------------------
(* MediaSubscribing: the page hears whom it should.                           *)

LEMMA KeptIsNext ==
    ASSUME NEW f, Kept(f)
    PROVE  SubsNext
  BY DEF Kept, SubsNext, Subs, Tagged

LEMMA ReceivedKeepsSubs ==
    ASSUME NEW f, Subs(f, conn, line, srv), Covered(conn), BasicInv, Received
    PROVE  Kept(f)
  BY AnnouncedKeepsSubs, ClosedKeepsSubs, GoneKeepsSubs, ConsumeReturnsKeepsSubs, ResumeReturnsKeepsSubs,
     CapsReturnKeepsSubs, TransportReturnsKeepsSubs, IceReturnsKeepsSubs DEF Received

LEMMA TooLateKeepsSubs ==
    ASSUME NEW f, Subs(f, conn, line, srv), Covered(conn), AnswerTooLate
    PROVE  Kept(f)
  BY FirstFailsKeepsSubs DEF AnswerTooLate

LEMMA RoomKeepsSubs ==
    ASSUME NEW f, Subs(f, conn, line, srv), Covered(conn), BasicInv, srv' \in Servers,
           \/ \E t \in Tracks : TrackGoesOnAir(t) \/ TrackGoesOffAir(t) \/ RetryTimeout(t)
           \/ \E c \in Consumers : BridgeFalls(c)
    PROVE  Kept(f)
  <1>1. ASSUME NEW t \in Tracks, TrackGoesOnAir(t) PROVE Kept(f)
    BY <1>1, OnAirKeeps DEF Kept
  <1>2. ASSUME NEW t \in Tracks, TrackGoesOffAir(t) PROVE Kept(f)
    BY <1>2, OffAirKeeps DEF Kept
  <1>3. ASSUME NEW t \in Tracks, RetryTimeout(t) PROVE Kept(f)
    BY <1>3, RetryKeepsSubs
  <1>4. ASSUME NEW c \in Consumers, BridgeFalls(c) PROVE Kept(f)
    BY <1>4, BridgeFallKeeps DEF Kept
  <1> QED
    BY <1>1, <1>2, <1>3, <1>4

LEMMA SubsSteps ==
    ASSUME ~LateFailures, BasicInv, BasicInv', SubsInv, [SubscribingNext]_subscribingVars
    PROVE  SubsInv'
  <1>1. PICK f : Subs(f, conn, line, srv)
    BY DEF SubsInv
  <1>2. Covered(conn) /\ srv' \in Servers /\ BasicNext
    BY DEF SubsInv, BasicInv, BasicNext
  <1>3. CASE UNCHANGED subscribingVars
    <2>1. conn' = conn /\ line' = line /\ srv' = srv
      BY <1>3 DEF subscribingVars
    <2>2. Kept(f)
      BY <1>1, <1>2, <2>1 DEF Kept
    <2> QED
      BY <2>2, KeptIsNext DEF SubsNext, SubsInv
  <1>4. CASE SubscribingNext
    <2> SUFFICES SubsNext
      BY DEF SubsNext, SubsInv
    <2>1. CASE Server
      BY <1>1, <1>2, <2>1, ServerKeepsSubs
    <2>2. CASE Received
      BY <1>1, <1>2, <2>2, ReceivedKeepsSubs, KeptIsNext
    <2>3. CASE \/ ChannelOpens \/ ChannelFalls \/ ServerForgets
               \/ \E waits \in BOOLEAN : ChannelReturns(waits)
      BY <1>1, <1>2, <2>3, OpensKeepsSubs, FallsKeepsSubs, ForgetsKeepsSubs, ReturnsKeepsSubs, KeptIsNext
    <2>4. CASE AnswerTooLate \/ WaitedInVain
      BY <1>1, <1>2, <2>4, TooLateKeepsSubs, InVainKeepsSubs, KeptIsNext
    <2>5. CASE \/ \E t \in Tracks : TrackGoesOnAir(t) \/ TrackGoesOffAir(t) \/ RetryTimeout(t)
               \/ \E c \in Consumers : BridgeFalls(c)
      BY <1>1, <1>2, <2>5, RoomKeepsSubs, KeptIsNext
    <2>6. CASE \E e \in conn.making : MakingEnds(e) \/ MakingFails(e)
      BY <1>1, <1>2, <2>6, MakingEndsKeepsSubs, MakingFailsKeepsSubs, KeptIsNext
    <2>7. CASE \E d \in Directions : IceConnects(d) \/ IceFalls(d) \/ IceTries(d)
      BY <1>1, <1>2, <2>7, IceConnectsKeepsSubs, IceFallsKeepsSubs, IceTriesKeepsSubs, KeptIsNext
    <2>10. CASE \E kind \in Rests, consumes \in BOOLEAN : RestEnds(kind, consumes)
      BY <1>1, <1>2, <2>10, RestEndsKeepsSubs, KeptIsNext
    <2>8. CASE \/ RebuildTimeout
               \/ \E d \in Directions, stray \in BOOLEAN :
                     IceRestartTimeout(d, stray) \/ IceRecoveryTimeout(d, stray)
      BY <1>1, <1>2, <2>8, RestartTimeoutKeepsSubs, RecoveryTimeoutKeepsSubs, RebuildKeepsSubs, KeptIsNext
    <2>9. CASE \E final \in BOOLEAN : ConnectionEnds(final)
      BY <1>1, <1>2, <2>9, EndKeepsSubs, KeptIsNext
    <2> QED
      BY <1>4, <2>1, <2>2, <2>3, <2>4, <2>5, <2>6, <2>7, <2>8, <2>9, <2>10 DEF SubscribingNext
  <1> QED
    BY <1>3, <1>4

LEMMA SubsHolds ==
    ASSUME ~LateFailures
    PROVE  SubscribingSpec => []SubsInv
  <1>1. BasicInv /\ BasicInv' /\ SubsInv /\ [SubscribingNext]_subscribingVars => SubsInv'
    BY SubsSteps
  <1> QED
    BY <1>1, InitIsSubs, BasicHolds, PTL DEF SubscribingSpec

\* Unless the making of a consumer outlives its transport: a track the page was handed
\* is on the air as far as the page knows, and is the one its map can take back, and
\* what the map holds is open, on the transport of now.
THEOREM SubscriptionsStaySound ==
    ASSUME ~LateFailures
    PROVE  SubscribingSpec => []SubscriptionsAreSound
  <1>1. SubsInv => SubscriptionsAreSound
    <2> SUFFICES ASSUME SubsInv PROVE SubscriptionsAreSound
      OBVIOUS
    <2>1. PICK f : Subs(f, conn, line, srv)
      BY DEF SubsInv
    <2>2. Shaped(conn, line, srv) /\ Held(conn) /\ Released(conn)
      BY <2>1 DEF Subs
    <2>3. SubscribingTypeOK
      BY <2>2 DEF Shaped, SubscribingTypeOK
    <2>4. \A c \in conn.shown : \E t \in conn.announced : conn.consumers[t] = c
      BY <2>2 DEF Held
    <2> QED
      BY <2>2, <2>3, <2>4 DEF SubscriptionsAreSound, Held, Released
  <1> QED
    BY <1>1, SubsHolds, PTL

\* Unless the making of a consumer outlives its transport: once all is quiet, the page
\* knows what is on the air, and hears every track of it but those it gave up, through
\* a consumer the server has.
THEOREM CalmPagesHearAll ==
    ASSUME ~LateFailures
    PROVE  SubscribingSpec => []SubscribedWhenCalm
  <1>1. SubsInv => SubscribedWhenCalm
    <2> SUFFICES ASSUME SubsInv, Calm, conn.recv # Absent
                 PROVE  /\ conn.announced = srv.onAir
                        /\ \A t \in srv.onAir \ conn.gaveUp :
                               conn.consumers[t] \in conn.shown /\ srv.consumers[conn.consumers[t]] = t
      BY DEF SubscribedWhenCalm
    <2> DEFINE none == <<>>
    <2>1. PICK f : Subs(f, conn, line, srv)
      BY DEF SubsInv
    <2>2. /\ conn.channel = "ready" /\ conn.asks = none /\ line = none
          /\ conn.making = {} /\ conn.retries = {} /\ Covered(conn)
          /\ conn.resting["reconcile"] = 0
      BY DEF Calm, ChannelReady, SubsInv, Rests
    <2>3. /\ Range(none) = {} /\ \A K : Lacks(none, K)
      BY EmptyRange DEF Lacks
    <2>4. Way(conn, line) = none
      BY <2>2 DEF Way
    <2> HIDE DEF none
    <2>5. /\ conn \in Connections /\ srv \in Servers /\ Held(conn) /\ Counted(conn, none)
          /\ Agree(conn, none, srv) /\ RoomKnown(conn, none, srv)
      BY <2>1, <2>2, <2>4 DEF Subs, Shaped
    <2>6. conn.announced = srv.onAir
      <3>1. conn.announced \subseteq Tracks /\ srv.onAir \subseteq Tracks
        BY <2>5 DEF Connections, Servers
      <3>2. \A t \in Tracks : t \in srv.onAir <=> t \in conn.announced
        BY <2>2, <2>3, <2>5 DEF RoomKnown
      <3> QED
        BY <3>1, <3>2
    <2>7. conn.consuming = {}
      <3>1. conn.consuming \subseteq Tracks
        BY <2>5 DEF Connections
      <3>2. \A t \in Tracks : t \notin conn.consuming
        BY <2>2, <2>3, <2>5 DEF Counted, Under, Makes
      <3> QED
        BY <3>1, <3>2
    <2>8. ASSUME NEW t \in srv.onAir \ conn.gaveUp
          PROVE  conn.consumers[t] \in conn.shown /\ srv.consumers[conn.consumers[t]] = t
      <3>1. t \in Tracks
        BY <2>5 DEF Servers
      <3>2. conn.consumers[t] # Absent
        BY <2>2, <2>6, <2>7 DEF Covered, Reconciled, CoveredAt
      <3>3. conn.consumers[t] \in conn.shown
        BY <2>5, <2>7, <3>1, <3>2 DEF Held
      <3>4. ~WillHear(conn, none, t)
        BY <2>2, <2>3 DEF WillHear
      <3> QED
        BY <2>2, <2>5, <3>1, <3>2, <3>3, <3>4 DEF Agree
    <2> QED
      BY <2>6, <2>8
  <1> QED
    BY <1>1, SubsHolds, PTL
=============================================================================
