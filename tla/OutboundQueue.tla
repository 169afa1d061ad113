---------------------------- MODULE OutboundQueue ----------------------------
(***************************************************************************)
(* apps/mediasoup-sfu/src/signal/outbound.ts: the outgoing queue of one    *)
(* client of the media channel, a Node Readable with two lanes, and the    *)
(* rest of the chain (encoder, socket, network) as a pipe of bounded room. *)
(*                                                                         *)
(* A critical frame is named by its number among the frames the queue      *)
(* accepted, a volatile one by its key and the number of its value: order  *)
(* and loss are all that is at stake here, not the contents.  Each method  *)
(* runs to completion, so each is an operator on the record `queue` and    *)
(* one step; SignalSession strings several of them in a step.              *)
(***************************************************************************)
EXTENDS Naturals, Sequences

CONSTANTS
    Keys,       \* names of the volatile events
    Limit,      \* critical frames that may wait (1024 in the code)
    Room,       \* frames the chain below takes before it says "full"
    MaxFrames,  \* bound: critical frames accepted
    MaxValues   \* bound: values of a volatile event

ASSUME QueueAssumption ==
    /\ Limit \in Nat \ {0}
    /\ Room \in Nat \ {0}
    /\ MaxFrames \in Nat
    /\ MaxValues \in Nat

VARIABLES
    queue,      \* the queue and what is below it, see NewQueue
    received,   \* number of the last critical frame the client received
    shown,      \* volatile kind -> number of the last value it received
    goodbye     \* the client saw the connection end by its closing frame

queueVars == <<queue, received, shown, goodbye>>

Critical(n) == [lane |-> "critical", number |-> n]
Volatile(k, n) == [lane |-> "volatile", key |-> k, number |-> n]

Frames == [lane : {"critical"}, number : Nat]
             \cup [lane : {"volatile"}, key : Keys, number : Nat]

NewQueue ==
    [critical  |-> <<>>,                    \* waiting, oldest first
     latest    |-> <<>>,                    \* waiting, in the Map's order
     wanted    |-> FALSE,                   \* asked for a frame, not served
     finishing |-> FALSE,
     ended     |-> FALSE,                   \* push(null)
     destroyed |-> FALSE,
     pipe      |-> <<>>,                    \* pushed, not yet received
     cut       |-> FALSE,                   \* the socket was terminated
     accepted  |-> 0,                       \* history: critical frames
     fresh     |-> [k \in Keys |-> 0]]      \* history: newest values

-----------------------------------------------------------------------------
(* The methods.                                                            *)

\* What _read finds first is what leaves: critical, then the oldest key.
NextFrame(q) ==
    IF q.critical # <<>> THEN Critical(Head(q.critical)) ELSE Head(q.latest)

Waiting(q) == q.critical # <<>> \/ q.latest # <<>>

Without(q, frame) ==
    IF frame.lane = "critical"
    THEN [q EXCEPT !.critical = Tail(@)]
    ELSE [q EXCEPT !.latest = Tail(@)]

\* The loop of pump.  It never turns twice with a frame in hand: a stream
\* that is still wanting has emptied both lanes before, and a push made
\* inside _read buffers the frame, which with a highWaterMark of 1 answers
\* false.  `more` is what push answers.
Pump(q, more) ==
    IF ~q.wanted THEN q
    ELSE IF Waiting(q)
    THEN [Without(q, NextFrame(q)) EXCEPT !.pipe = Append(@, NextFrame(q)),
                                          !.wanted = more]
    ELSE IF q.finishing
    THEN [q EXCEPT !.wanted = FALSE, !.ended = TRUE]
    ELSE q

Pushed(q) == Pump(q, Len(q.pipe) + 1 < Room)

\* Mutants of Enqueue: one frame too many may wait; the overflow drops the
\* frame and leaves the connection up.
EnqueueOneMore(q) ==
    IF q.finishing \/ q.destroyed THEN q
    ELSE IF Len(q.critical) > Limit
    THEN [q EXCEPT !.cut = TRUE]
    ELSE Pushed([q EXCEPT !.critical = Append(@, q.accepted + 1),
                          !.accepted = @ + 1])

EnqueueDropping(q) ==
    IF q.finishing \/ q.destroyed THEN q
    ELSE IF Len(q.critical) >= Limit
    THEN [q EXCEPT !.accepted = @ + 1]
    ELSE Pushed([q EXCEPT !.critical = Append(@, q.accepted + 1),
                          !.accepted = @ + 1])

Enqueue(q) ==
    IF q.finishing \/ q.destroyed THEN q
    ELSE IF Len(q.critical) >= Limit
    THEN [q EXCEPT !.cut = TRUE]
    ELSE Pushed([q EXCEPT !.critical = Append(@, q.accepted + 1),
                          !.accepted = @ + 1])

\* Map.set: a key that waits keeps its place and takes the new value.
Supersede(latest, k, n) ==
    IF \E i \in DOMAIN latest : latest[i].key = k
    THEN [i \in DOMAIN latest |->
             IF latest[i].key = k THEN Volatile(k, n) ELSE latest[i]]
    ELSE Append(latest, Volatile(k, n))

\* Mutant of EnqueueLatest: it waits for the next _read.
EnqueueLatestUnpumped(q, k) ==
    IF q.finishing \/ q.destroyed THEN q
    ELSE [q EXCEPT !.latest = Supersede(@, k, q.fresh[k] + 1),
                   !.fresh[k] = @ + 1]

EnqueueLatest(q, k) ==
    IF q.finishing \/ q.destroyed THEN q
    ELSE Pushed([q EXCEPT !.latest = Supersede(@, k, q.fresh[k] + 1),
                          !.fresh[k] = @ + 1])

Finish(q) ==
    IF q.finishing THEN q
    ELSE Pushed([q EXCEPT !.finishing = TRUE, !.latest = <<>>])

\* The stream asks for the next frame once the chain below has room.
Read(q) == Pump([q EXCEPT !.wanted = TRUE], FALSE)

-----------------------------------------------------------------------------
(* The environment: who calls the queue and who drains it.                 *)

Init ==
    /\ queue = NewQueue
    /\ received = 0
    /\ shown = [k \in Keys |-> 0]
    /\ goodbye = FALSE

Untouched == UNCHANGED <<received, shown, goodbye>>

SendCritical ==
    /\ queue.accepted < MaxFrames
    /\ queue' = Enqueue(queue)
    /\ Untouched

SendVolatile(k) ==
    /\ queue.fresh[k] < MaxValues
    /\ queue' = EnqueueLatest(queue, k)
    /\ Untouched

SendNoMore ==
    /\ ~queue.finishing
    /\ queue' = Finish(queue)
    /\ Untouched

StreamReads ==
    /\ ~queue.wanted
    /\ ~queue.ended
    /\ ~queue.destroyed
    /\ Len(queue.pipe) < Room
    /\ queue' = Read(queue)
    /\ Untouched

Alive == ~queue.cut /\ ~queue.destroyed

ClientReceives ==
    /\ Alive
    /\ queue.pipe # <<>>
    /\ queue' = [queue EXCEPT !.pipe = Tail(@)]
    /\ LET frame == Head(queue.pipe)
       IN  IF frame.lane = "critical"
           THEN received' = frame.number /\ UNCHANGED shown
           ELSE shown' = [shown EXCEPT ![frame.key] = frame.number] /\ UNCHANGED received
    /\ UNCHANGED goodbye

\* The socket or the network is cut: what is in the pipe is lost.
Cut ==
    /\ Alive
    /\ ~goodbye
    /\ queue' = [queue EXCEPT !.cut = TRUE]
    /\ Untouched

\* The closing frame leaves after the last frame of the pipe.
ClientSeesEnd ==
    /\ Alive
    /\ ~goodbye
    /\ queue.ended
    /\ queue.pipe = <<>>
    /\ goodbye' = TRUE
    /\ UNCHANGED <<queue, received, shown>>

Destroy ==
    /\ queue.cut \/ goodbye
    /\ ~queue.destroyed
    /\ queue' = [queue EXCEPT !.destroyed = TRUE]
    /\ Untouched

Next ==
    \/ SendCritical \/ SendNoMore \/ StreamReads \/ ClientReceives
    \/ Cut \/ ClientSeesEnd \/ Destroy
    \/ \E k \in Keys : SendVolatile(k)

Spec == Init /\ [][Next]_queueVars

\* A client that keeps reading: the stream is asked again once there is room,
\* and what was pushed arrives.  Nothing forces anybody to send.
LiveSpec ==
    Spec /\ WF_queueVars(StreamReads) /\ WF_queueVars(ClientReceives)
         /\ WF_queueVars(ClientSeesEnd)

-----------------------------------------------------------------------------

QueueTypeOK ==
    /\ queue \in [critical : Seq(Nat),
                  latest : Seq([lane : {"volatile"}, key : Keys, number : Nat]),
                  wanted : BOOLEAN, finishing : BOOLEAN, ended : BOOLEAN,
                  destroyed : BOOLEAN, pipe : Seq(Frames), cut : BOOLEAN,
                  accepted : Nat, fresh : [Keys -> Nat]]
    /\ received \in Nat
    /\ shown \in [Keys -> Nat]
    /\ goodbye \in BOOLEAN

\* A client that stopped reading costs at most Limit critical frames and one
\* frame per volatile event, and not a list that grows with the room
\* (outbound.ts:38-41).
BacklogIsBounded ==
    /\ Len(queue.critical) <= Limit
    /\ \A i, j \in DOMAIN queue.latest :
           queue.latest[i].key = queue.latest[j].key => i = j

\* No lost wakeup: a stream that asked for a frame and was not served has
\* nothing waiting for it.  Node does not ask twice, so a frame left behind
\* would wait for the next event of the room (outbound.ts:30-31).
NothingWaitsOnAnIdleSocket ==
    queue.wanted => ~Waiting(queue)

\* The queue keeps the promise of FrameStream.
Stream == INSTANCE FrameStream WITH
    accepted <- queue.accepted,
    fresh <- queue.fresh,
    fate <- IF goodbye THEN "complete" ELSE IF queue.cut THEN "cut" ELSE "open"

KeepsStream == Stream!Spec

\* Every accepted frame arrives unless the connection is cut, and so does the
\* newest value of each volatile event unless the server is hanging up; a
\* polite end is seen as such.
EverythingArrives ==
    /\ \A n \in 1..MaxFrames :
           queue.accepted >= n ~> received >= n \/ queue.cut
    /\ \A k \in Keys, n \in 1..MaxValues :
           queue.fresh[k] >= n ~> shown[k] >= n \/ queue.finishing \/ queue.cut
    /\ queue.finishing ~> goodbye \/ queue.cut
=============================================================================
