------------------------- MODULE SignalSessionProofs -------------------------
(***************************************************************************)
(* Proofs about one connection of the media channel, for any number of     *)
(* requests, events, limits, frames and room of the socket.                *)
(*                                                                         *)
(* First OutboundQueue on its own, which keeps the promise of FrameStream, *)
(* whenever the client reads and whoever hangs up.  The inductive          *)
(* invariant Shape says where every accepted frame is: the client has      *)
(* 1..received, the pipe holds received+1..Gone in order, the critical     *)
(* lane holds Gone+1..accepted in order.  Of a volatile event the lane     *)
(* holds the newest value and the pipe older ones, in order.               *)
(*                                                                         *)
(* Then SignalSession over it.  What a step does to the queue and to its   *)
(* log is one of a few things (Grows): it only accepts more, cuts or hangs *)
(* up.  What the log says is stated of the part the client may still       *)
(* receive, because a queue that is cut in the middle of a flush goes on   *)
(* taking frames nobody gets.  The flush of what was held is a recursive   *)
(* function on the list; it is reasoned about by its least counterexample. *)
(***************************************************************************)
EXTENDS SignalSession, SequenceTheorems, WellFoundedInduction, TLAPS

-----------------------------------------------------------------------------
(* The outgoing queue.                                                     *)

Volatiles == [lane : {"volatile"}, key : Keys, number : Nat]

QueueRecords ==
    [critical : Seq(Nat),
     latest : Seq(Volatiles),
     wanted : BOOLEAN, finishing : BOOLEAN, ended : BOOLEAN,
     destroyed : BOOLEAN, pipe : Seq(Frames), cut : BOOLEAN,
     accepted : Nat, fresh : [Keys -> Nat]]

\* How many critical frames left the lane.
Gone(q) == q.accepted - Len(q.critical)

LaneInOrder(q) ==
    /\ Len(q.critical) <= q.accepted
    /\ \A i \in 1..Len(q.critical) : q.critical[i] = Gone(q) + i

PipeInOrder(q) ==
    /\ received <= Gone(q)
    /\ \A i \in 1..Len(q.pipe) : q.pipe[i].lane = "critical" =>
           received < q.pipe[i].number /\ q.pipe[i].number <= Gone(q)
    /\ \A i, j \in 1..Len(q.pipe) :
           q.pipe[i].lane = "critical" /\ q.pipe[j].lane = "critical" /\ i < j
               => q.pipe[i].number < q.pipe[j].number

NothingMissing(q) ==
    \A n \in Nat : received < n /\ n <= Gone(q) =>
        \E i \in 1..Len(q.pipe) : q.pipe[i] = Critical(n)

NewestWaits(q) ==
    /\ \A i \in 1..Len(q.latest) :
           q.latest[i].number = q.fresh[q.latest[i].key]
    /\ \A i, j \in 1..Len(q.latest) : q.latest[i].key = q.latest[j].key => i = j
    /\ \A i \in 1..Len(q.latest) : shown[q.latest[i].key] < q.latest[i].number

VolatileInOrder(q) ==
    /\ \A i \in 1..Len(q.pipe) : q.pipe[i].lane = "volatile" =>
           /\ shown[q.pipe[i].key] < q.pipe[i].number
           /\ q.pipe[i].number <= q.fresh[q.pipe[i].key]
    /\ \A i, j \in 1..Len(q.pipe) :
           q.pipe[i].lane = "volatile" /\ q.pipe[j].lane = "volatile"
             /\ q.pipe[i].key = q.pipe[j].key /\ i < j
               => q.pipe[i].number < q.pipe[j].number
    /\ \A i \in 1..Len(q.pipe), j \in 1..Len(q.latest) :
           q.pipe[i].lane = "volatile" /\ q.pipe[i].key = q.latest[j].key
               => q.pipe[i].number < q.latest[j].number

EndsEmpty(q) ==
    /\ q.finishing => q.latest = <<>>
    /\ q.ended => q.finishing /\ q.critical = <<>> /\ ~q.wanted

Shape(q) ==
    /\ q \in QueueRecords
    /\ LaneInOrder(q) /\ PipeInOrder(q) /\ NothingMissing(q)
    /\ NewestWaits(q) /\ VolatileInOrder(q) /\ EndsEmpty(q)
    /\ Len(q.critical) <= Limit

ClientTypeOK ==
    received \in Nat /\ shown \in [Keys -> Nat] /\ goodbye \in BOOLEAN

\* What the queue is between two calls: nothing waits on an idle stream.
Tidy(q) == Shape(q) /\ (q.wanted => ~Waiting(q))

QueueInv ==
    /\ ClientTypeOK
    /\ Tidy(queue)
    /\ \A k \in Keys : shown[k] <= queue.fresh[k]
    /\ goodbye => queue.ended /\ queue.pipe = <<>>

-----------------------------------------------------------------------------
(* The two ways a frame leaves the queue for the pipe.                     *)

\* The oldest critical frame moves to the end of the pipe.
LEMMA CriticalLeaves ==
    ASSUME ClientTypeOK,
           NEW q, Shape(q), q.critical # <<>>,
           NEW r \in QueueRecords,
           r.critical = Tail(q.critical),
           r.pipe = Append(q.pipe, Critical(Head(q.critical))),
           r.latest = q.latest, r.accepted = q.accepted, r.fresh = q.fresh,
           r.finishing = q.finishing, ~r.ended
    PROVE  Shape(r)
<1> USE DEF ClientTypeOK
<1>1. /\ q \in QueueRecords
      /\ q.critical \in Seq(Nat) /\ q.pipe \in Seq(Frames)
      /\ q.accepted \in Nat /\ Len(q.critical) \in Nat /\ Len(q.pipe) \in Nat
    BY DEF Shape, QueueRecords
<1>2. /\ Head(q.critical) = Gone(q) + 1
      /\ Gone(q) \in Nat /\ Len(q.critical) >= 1
    BY <1>1, LenProperties DEF Shape, LaneInOrder, Gone
<1>3. Critical(Head(q.critical)) \in Frames
    BY <1>1, <1>2 DEF Critical, Frames
<1>4. /\ Len(r.critical) = Len(q.critical) - 1
      /\ \A i \in 1..Len(r.critical) : r.critical[i] = q.critical[i + 1]
    BY <1>1, HeadTailProperties
<1>5. /\ Len(r.pipe) = Len(q.pipe) + 1
      /\ \A i \in 1..Len(q.pipe) : r.pipe[i] = q.pipe[i]
      /\ r.pipe[Len(q.pipe) + 1] = Critical(Gone(q) + 1)
    BY <1>1, <1>2, <1>3, AppendProperties
<1>6. Gone(r) = Gone(q) + 1
    BY <1>1, <1>4 DEF Gone
<1>7. LaneInOrder(r)
    <2>1. Len(r.critical) <= r.accepted
        BY <1>1, <1>2, <1>4 DEF Shape, LaneInOrder
    <2>2. ASSUME NEW i \in 1..Len(r.critical)
          PROVE  r.critical[i] = Gone(r) + i
        <3>0. Len(q.critical) \in Nat /\ Len(r.critical) = Len(q.critical) - 1
            BY <1>1, <1>4
        <3>1. i \in Nat /\ i + 1 \in 1..Len(q.critical)
            BY <3>0
        <3>a. LaneInOrder(q)
            BY DEF Shape
        <3>2. q.critical[i + 1] = Gone(q) + (i + 1)
            BY <3>1, <3>a DEF LaneInOrder
        <3> QED
            BY <1>2, <1>4, <1>6, <3>1, <3>2
    <2> QED
        BY <2>1, <2>2 DEF LaneInOrder
<1>8. PipeInOrder(r)
    <2>1. received <= Gone(r)
        BY <1>2, <1>6 DEF Shape, PipeInOrder
    <2>2. ASSUME NEW i \in 1..Len(r.pipe), r.pipe[i].lane = "critical"
          PROVE  received < r.pipe[i].number /\ r.pipe[i].number <= Gone(r)
        <3>1. CASE i = Len(q.pipe) + 1
            BY <1>2, <1>5, <1>6, <3>1 DEF Shape, PipeInOrder, Critical
        <3>2. CASE i \in 1..Len(q.pipe)
            <4>1. q.pipe[i] \in Frames /\ q.pipe[i].lane = "critical"
                BY <1>1, <1>5, <2>2, <3>2
            <4>2. q.pipe[i].number \in Nat
                BY <4>1 DEF Frames
            <4> QED
                BY <1>2, <1>5, <1>6, <3>2, <4>1, <4>2 DEF Shape, PipeInOrder
        <3>3. i \in 1..Len(q.pipe) \/ i = Len(q.pipe) + 1
            BY <1>1, <1>5
        <3> QED
            BY <3>1, <3>2, <3>3
    <2>3. ASSUME NEW i \in 1..Len(r.pipe), NEW j \in 1..Len(r.pipe), i < j,
                 r.pipe[i].lane = "critical", r.pipe[j].lane = "critical"
          PROVE  r.pipe[i].number < r.pipe[j].number
        <3>1. i \in 1..Len(q.pipe)
            BY <1>1, <1>5, <2>3
        <3>2. q.pipe[i] \in Frames /\ q.pipe[i].number \in Nat
            BY <1>1, <3>1 DEF Frames
        <3>a. PipeInOrder(q)
            BY DEF Shape
        <3>3. CASE j = Len(q.pipe) + 1
            <4>1. r.pipe[j].number = Gone(q) + 1
                BY <1>5, <3>3 DEF Critical
            <4>2. q.pipe[i].number <= Gone(q) /\ r.pipe[i] = q.pipe[i]
                BY <1>5, <2>3, <3>1, <3>a DEF PipeInOrder
            <4>3. Gone(q) \in Nat
                BY <1>2
            <4> QED
                BY <3>2, <4>1, <4>2, <4>3
        <3>4. CASE j \in 1..Len(q.pipe)
            BY <1>5, <2>3, <3>1, <3>4 DEF Shape, PipeInOrder
        <3> QED
            BY <1>1, <1>5, <2>3, <3>3, <3>4
    <2> QED
        BY <2>1, <2>2, <2>3 DEF PipeInOrder
<1>9. NothingMissing(r)
    <2> SUFFICES ASSUME NEW n \in Nat, received < n, n <= Gone(r)
                 PROVE  \E i \in 1..Len(r.pipe) : r.pipe[i] = Critical(n)
        BY DEF NothingMissing
    <2>1. CASE n = Gone(q) + 1
        <3>1. Len(q.pipe) + 1 \in 1..Len(r.pipe)
            BY <1>1, <1>5
        <3> QED
            BY <1>5, <2>1, <3>1
    <2>2. CASE n <= Gone(q)
        <3>1. PICK i \in 1..Len(q.pipe) : q.pipe[i] = Critical(n)
            BY <2>2 DEF Shape, NothingMissing
        <3> QED
            BY <1>1, <1>5, <3>1
    <2> QED
        BY <1>2, <1>6, <2>1, <2>2
<1>10. NewestWaits(r)
    BY DEF Shape, NewestWaits
<1>11. VolatileInOrder(r)
    <2>1. \A i \in 1..Len(r.pipe) : r.pipe[i].lane = "volatile" =>
              i \in 1..Len(q.pipe) /\ r.pipe[i] = q.pipe[i]
        BY <1>1, <1>5 DEF Critical
    <2>2. /\ \A i \in 1..Len(q.pipe) : q.pipe[i].lane = "volatile" =>
                /\ shown[q.pipe[i].key] < q.pipe[i].number
                /\ q.pipe[i].number <= q.fresh[q.pipe[i].key]
          /\ \A i, j \in 1..Len(q.pipe) :
                q.pipe[i].lane = "volatile" /\ q.pipe[j].lane = "volatile"
                  /\ q.pipe[i].key = q.pipe[j].key /\ i < j
                    => q.pipe[i].number < q.pipe[j].number
          /\ \A i \in 1..Len(q.pipe), j \in 1..Len(q.latest) :
                q.pipe[i].lane = "volatile" /\ q.pipe[i].key = q.latest[j].key
                    => q.pipe[i].number < q.latest[j].number
        BY DEF Shape, VolatileInOrder
    <2>3. \A i \in 1..Len(r.pipe) : r.pipe[i].lane = "volatile" =>
              /\ shown[r.pipe[i].key] < r.pipe[i].number
              /\ r.pipe[i].number <= r.fresh[r.pipe[i].key]
        BY <2>1, <2>2
    <2>4. ASSUME NEW i \in 1..Len(r.pipe), NEW j \in 1..Len(r.pipe), i < j,
                 r.pipe[i].lane = "volatile", r.pipe[j].lane = "volatile",
                 r.pipe[i].key = r.pipe[j].key
          PROVE  r.pipe[i].number < r.pipe[j].number
        BY <2>1, <2>2, <2>4
    <2>5. \A i \in 1..Len(r.pipe), j \in 1..Len(r.latest) :
              r.pipe[i].lane = "volatile" /\ r.pipe[i].key = r.latest[j].key
                  => r.pipe[i].number < r.latest[j].number
        BY <2>1, <2>2
    <2> QED
        BY <2>3, <2>4, <2>5 DEF VolatileInOrder
<1>12. EndsEmpty(r)
    BY DEF Shape, EndsEmpty
<1>13. Len(r.critical) <= Limit
    BY <1>1, <1>4, QueueAssumption DEF Shape
<1> QED
    BY <1>7, <1>8, <1>9, <1>10, <1>11, <1>12, <1>13 DEF Shape

\* The volatile frame that waited longest moves to the end of the pipe.
LEMMA VolatileLeaves ==
    ASSUME ClientTypeOK,
           NEW q, Shape(q), q.latest # <<>>,
           NEW r \in QueueRecords,
           r.latest = Tail(q.latest),
           r.pipe = Append(q.pipe, Head(q.latest)),
           r.critical = q.critical, r.accepted = q.accepted, r.fresh = q.fresh,
           r.finishing = q.finishing, ~r.ended
    PROVE  Shape(r)
<1> USE DEF ClientTypeOK
<1>1. /\ q \in QueueRecords
      /\ q.latest \in Seq(Volatiles) /\ q.pipe \in Seq(Frames)
      /\ q.critical \in Seq(Nat)
      /\ q.fresh \in [Keys -> Nat]
      /\ q.accepted \in Nat /\ Len(q.critical) \in Nat /\ Len(q.pipe) \in Nat
      /\ Len(q.latest) \in Nat /\ Len(q.latest) >= 1
    BY LenProperties DEF Shape, QueueRecords
<1>a. \A v \in Volatiles :
          v \in Frames /\ v.key \in Keys /\ v.number \in Nat /\ v.lane = "volatile"
    BY DEF Frames, Volatiles
<1>2. Head(q.latest) = q.latest[1] /\ q.latest[1] \in Volatiles /\ q.latest[1] \in Frames
    <2>1. Head(q.latest) = q.latest[1]
        OBVIOUS
    <2>2. q.latest[1] \in Volatiles
        BY <1>1, ElementOfSeq
    <2> QED
        BY <1>a, <2>1, <2>2
<1>3. /\ Len(r.latest) = Len(q.latest) - 1
      /\ \A i \in 1..Len(r.latest) : r.latest[i] = q.latest[i + 1]
    BY <1>1, HeadTailProperties
<1>4. /\ Len(r.pipe) = Len(q.pipe) + 1
      /\ \A i \in 1..Len(q.pipe) : r.pipe[i] = q.pipe[i]
      /\ r.pipe[Len(q.pipe) + 1] = q.latest[1]
    BY <1>1, <1>2, AppendProperties
<1>5. Gone(r) = Gone(q)
    BY DEF Gone
<1>6. \A i \in 1..Len(r.pipe) : r.pipe[i].lane = "critical" =>
          i \in 1..Len(q.pipe) /\ r.pipe[i] = q.pipe[i]
    BY <1>a, <1>1, <1>2, <1>4
<1>7. LaneInOrder(r)
    BY <1>5 DEF Shape, LaneInOrder
<1>8. PipeInOrder(r)
    BY <1>5, <1>6 DEF Shape, PipeInOrder
<1>9. NothingMissing(r)
    <2> SUFFICES ASSUME NEW n \in Nat, received < n, n <= Gone(r)
                 PROVE  \E i \in 1..Len(r.pipe) : r.pipe[i] = Critical(n)
        BY DEF NothingMissing
    <2>1. PICK i \in 1..Len(q.pipe) : q.pipe[i] = Critical(n)
        BY <1>5 DEF Shape, NothingMissing
    <2> QED
        BY <1>1, <1>4, <2>1
<1>10. \A i \in 1..Len(r.latest) : i + 1 \in 1..Len(q.latest)
    BY <1>1, <1>3
<1>11. NewestWaits(r)
    BY <1>1, <1>3, <1>10 DEF Shape, NewestWaits
<1>12. VolatileInOrder(r)
    <2>1. /\ q.latest[1].key \in Keys /\ q.latest[1].number \in Nat
          /\ q.latest[1].number = q.fresh[q.latest[1].key]
          /\ shown[q.latest[1].key] < q.latest[1].number
        BY <1>a, <1>1, <1>2 DEF Shape, NewestWaits
    <2>2. ASSUME NEW i \in 1..Len(r.pipe), r.pipe[i].lane = "volatile"
          PROVE  /\ shown[r.pipe[i].key] < r.pipe[i].number
                 /\ r.pipe[i].number <= r.fresh[r.pipe[i].key]
        <3>1. CASE i = Len(q.pipe) + 1
            BY <1>4, <2>1, <3>1
        <3>2. CASE i \in 1..Len(q.pipe)
            BY <1>4, <2>2, <3>2 DEF Shape, VolatileInOrder
        <3> QED
            BY <1>1, <1>4, <3>1, <3>2
    <2>3. ASSUME NEW i \in 1..Len(r.pipe), NEW j \in 1..Len(r.pipe), i < j,
                 r.pipe[i].lane = "volatile", r.pipe[j].lane = "volatile",
                 r.pipe[i].key = r.pipe[j].key
          PROVE  r.pipe[i].number < r.pipe[j].number
        <3>1. i \in 1..Len(q.pipe) /\ r.pipe[i] = q.pipe[i]
            BY <1>1, <1>4, <2>3
        <3>2. CASE j = Len(q.pipe) + 1
            \* The frame that left was waiting after those of the pipe.
            <4>1. 1 \in 1..Len(q.latest) /\ r.pipe[j] = q.latest[1]
                BY <1>1, <1>4, <3>2
            <4>2. q.pipe[i].lane = "volatile" /\ q.pipe[i].key = q.latest[1].key
                BY <2>3, <3>1, <4>1
            <4>3. VolatileInOrder(q)
                BY DEF Shape
            <4>4. q.pipe[i].number < q.latest[1].number
                BY <3>1, <4>1, <4>2, <4>3 DEF VolatileInOrder
            <4> QED
                BY <3>1, <4>1, <4>4
        <3>3. CASE j \in 1..Len(q.pipe)
            BY <1>4, <2>3, <3>1, <3>3 DEF Shape, VolatileInOrder
        <3> QED
            BY <1>1, <1>4, <3>2, <3>3
    <2>4. ASSUME NEW i \in 1..Len(r.pipe), NEW j \in 1..Len(r.latest),
                 r.pipe[i].lane = "volatile", r.pipe[i].key = r.latest[j].key
          PROVE  r.pipe[i].number < r.latest[j].number
        <3>1. CASE i = Len(q.pipe) + 1
            \* Another value of the same event does not wait.
            <4>1. NewestWaits(q) /\ 1 \in 1..Len(q.latest) /\ r.pipe[i] = q.latest[1]
                BY <1>1, <1>4, <3>1 DEF Shape
            <4>2. j + 1 \in 1..Len(q.latest) /\ q.latest[1].key = q.latest[j + 1].key
                BY <1>3, <1>10, <2>4, <4>1
            <4>3. 1 = j + 1
                BY <4>1, <4>2 DEF NewestWaits
            <4> QED
                BY <1>1, <1>3, <4>3
        <3>2. CASE i \in 1..Len(q.pipe)
            <4>1. VolatileInOrder(q) /\ r.pipe[i] = q.pipe[i]
                BY <1>4, <3>2 DEF Shape
            <4>2. j + 1 \in 1..Len(q.latest) /\ r.latest[j] = q.latest[j + 1]
                BY <1>3, <1>10
            <4> QED
                BY <2>4, <3>2, <4>1, <4>2 DEF VolatileInOrder
        <3>3. i \in 1..Len(q.pipe) \/ i = Len(q.pipe) + 1
            BY <1>1, <1>4
        <3> QED
            BY <3>1, <3>2, <3>3
    <2> QED
        BY <2>2, <2>3, <2>4 DEF VolatileInOrder
<1>13. EndsEmpty(r)
    BY DEF Shape, EndsEmpty
<1> QED
    BY <1>7, <1>8, <1>9, <1>11, <1>12, <1>13 DEF Shape

-----------------------------------------------------------------------------
(* The methods keep Shape, and leave nothing waiting on an idle stream.    *)

\* What pump never touches.
Same(q, r) ==
    /\ r.accepted = q.accepted /\ r.fresh = q.fresh
    /\ r.cut = q.cut /\ r.finishing = q.finishing /\ r.destroyed = q.destroyed

LEMMA OneAtMost ==
    \A a, b \in Nat : a + b <= 1 => (a >= 1 => a = 1 /\ b = 0)
                                   /\ (b >= 1 => b = 1 /\ a = 0)
OBVIOUS

LEMMA PumpKeepsShape ==
    ASSUME ClientTypeOK, NEW q, Shape(q), NEW more \in BOOLEAN,
           q.wanted /\ more => Len(q.critical) + Len(q.latest) <= 1
    PROVE  /\ Shape(Pump(q, more))
           /\ Same(q, Pump(q, more))
           /\ Pump(q, more).wanted => ~Waiting(Pump(q, more)) \/ ~more
           /\ Pump(q, more).wanted => q.wanted
           /\ ~more /\ Pump(q, more).wanted => ~Waiting(q) /\ Pump(q, more) = q
<1> DEFINE r == Pump(q, more)
<1>1. /\ q \in QueueRecords
      /\ q.critical \in Seq(Nat)
      /\ q.latest \in Seq(Volatiles)
      /\ q.pipe \in Seq(Frames) /\ q.wanted \in BOOLEAN
      /\ Len(q.critical) \in Nat /\ Len(q.latest) \in Nat
    BY LenProperties DEF Shape, QueueRecords
<1>2. CASE ~q.wanted
    BY <1>1, <1>2 DEF Pump, Same
<1>3. CASE q.wanted /\ q.critical # <<>>
    <2>1. NextFrame(q) = Critical(Head(q.critical)) /\ NextFrame(q).lane = "critical"
        BY <1>3 DEF NextFrame, Critical
    <2>2. r = [[q EXCEPT !.critical = Tail(@)]
                  EXCEPT !.pipe = Append(@, Critical(Head(q.critical))),
                         !.wanted = more]
        BY <1>3, <2>1 DEF Pump, Waiting, Without
    <2>3. Tail(q.critical) \in Seq(Nat) /\ Len(Tail(q.critical)) = Len(q.critical) - 1
        BY <1>1, <1>3, HeadTailProperties
    <2>4. Append(q.pipe, Critical(Head(q.critical))) \in Seq(Frames)
        <3>1. Critical(Head(q.critical)) \in Frames
            BY <1>1, <1>3, HeadTailProperties DEF Critical, Frames
        <3> QED
            BY <1>1, <3>1, AppendProperties
    <2>5. /\ r \in QueueRecords
          /\ r.critical = Tail(q.critical)
          /\ r.pipe = Append(q.pipe, Critical(Head(q.critical)))
          /\ r.latest = q.latest /\ r.wanted = more /\ r.ended = q.ended
          /\ Same(q, r)
        BY <1>1, <2>2, <2>3, <2>4 DEF QueueRecords, Same
    <2>6. ~r.ended
        BY <1>3, <2>5 DEF Shape, EndsEmpty
    <2> HIDE DEF r
    <2>7. Shape(r)
        BY <1>3, <2>5, <2>6, CriticalLeaves DEF Same
    <2>8. more => r.critical = <<>> /\ r.latest = <<>>
        <3> SUFFICES ASSUME more PROVE r.critical = <<>> /\ r.latest = <<>>
            OBVIOUS
        <3>1. Len(q.critical) >= 1
            BY <1>1, <1>3, EmptySeq
        <3>2. Len(r.critical) = 0 /\ Len(r.latest) = 0
            <4>1. Len(q.critical) + Len(q.latest) <= 1
                BY <1>3
            <4>2. Len(q.critical) = 1 /\ Len(q.latest) = 0
                BY <1>1, <3>1, <4>1, OneAtMost
            <4> QED
                BY <2>3, <2>5, <4>2
        <3> QED
            BY <1>1, <2>3, <2>5, <3>2, EmptySeq
    <2> QED
        BY <1>3, <2>5, <2>7, <2>8 DEF Waiting, r
<1>4. CASE q.wanted /\ q.critical = <<>> /\ q.latest # <<>>
    <2>a. Head(q.latest) \in Volatiles
        BY <1>1, <1>4, HeadTailProperties
    <2>b. \A v \in Volatiles : v \in Frames /\ v.lane = "volatile"
        BY DEF Volatiles, Frames
    <2>1. NextFrame(q) = Head(q.latest) /\ Head(q.latest) \in Frames
          /\ NextFrame(q).lane = "volatile"
        BY <1>4, <2>a, <2>b DEF NextFrame
    <2>2. r = [[q EXCEPT !.latest = Tail(@)]
                  EXCEPT !.pipe = Append(@, Head(q.latest)), !.wanted = more]
        BY <1>4, <2>1 DEF Pump, Waiting, Without
    <2>3. /\ Tail(q.latest) \in Seq(Volatiles)
          /\ Len(Tail(q.latest)) = Len(q.latest) - 1
        BY <1>1, <1>4, HeadTailProperties
    <2>4. Append(q.pipe, Head(q.latest)) \in Seq(Frames)
        BY <1>1, <2>1, AppendProperties
    <2>5. /\ r \in QueueRecords
          /\ r.latest = Tail(q.latest)
          /\ r.pipe = Append(q.pipe, Head(q.latest))
          /\ r.critical = q.critical /\ r.wanted = more /\ r.ended = q.ended
          /\ Same(q, r)
        BY <1>1, <2>2, <2>3, <2>4 DEF QueueRecords, Same
    <2>6. ~r.ended
        BY <1>4, <2>5 DEF Shape, EndsEmpty
    <2> HIDE DEF r
    <2>7. Shape(r)
        BY <1>4, <2>5, <2>6, VolatileLeaves DEF Same
    <2>8. more => r.critical = <<>> /\ r.latest = <<>>
        <3> SUFFICES ASSUME more PROVE r.critical = <<>> /\ r.latest = <<>>
            OBVIOUS
        <3>1. Len(q.latest) >= 1
            BY <1>1, <1>4, EmptySeq
        <3>2. Len(r.latest) = 0
            <4>1. Len(q.critical) + Len(q.latest) <= 1
                BY <1>4
            <4>2. Len(q.latest) = 1
                BY <1>1, <3>1, <4>1, OneAtMost
            <4> QED
                BY <2>3, <2>5, <4>2
        <3> QED
            BY <1>1, <1>4, <2>3, <2>5, <3>2, EmptySeq
    <2> QED
        BY <1>4, <2>5, <2>7, <2>8 DEF Waiting, r
<1>5. CASE q.wanted /\ ~Waiting(q) /\ q.finishing
    <2>1. r = [q EXCEPT !.wanted = FALSE, !.ended = TRUE]
        BY <1>5 DEF Pump
    <2>2. /\ r \in QueueRecords /\ Same(q, r) /\ ~r.wanted
          /\ r.critical = q.critical /\ r.latest = q.latest /\ r.pipe = q.pipe
          /\ r.finishing = TRUE
        BY <1>1, <1>5, <2>1 DEF QueueRecords, Same
    <2> HIDE DEF r
    <2>3. Shape(r)
        BY <1>5, <2>2 DEF Shape, LaneInOrder, PipeInOrder, NothingMissing,
                          NewestWaits, VolatileInOrder, EndsEmpty, Same, Gone,
                          Waiting
    <2> QED
        BY <2>2, <2>3 DEF r
<1>6. CASE q.wanted /\ ~Waiting(q) /\ ~q.finishing
    BY <1>6 DEF Pump, Same
<1> QED
    BY <1>2, <1>3, <1>4, <1>5, <1>6 DEF Waiting

\* pump may be left with one frame in hand, never with more: the stream
\* that still wants had nothing to take when the frame came.
LEMMA PushedKeeps ==
    ASSUME ClientTypeOK, NEW q, Shape(q),
           q.wanted => Len(q.critical) + Len(q.latest) <= 1
    PROVE  Tidy(Pushed(q)) /\ Same(q, Pushed(q))
<1> DEFINE more == Len(q.pipe) + 1 < Room
<1>1. more \in BOOLEAN /\ Pushed(q) = Pump(q, more)
    BY DEF Pushed
<1> HIDE DEF more
<1>2. /\ Shape(Pump(q, more))
      /\ Same(q, Pump(q, more))
      /\ Pump(q, more).wanted => ~Waiting(Pump(q, more)) \/ ~more
      /\ ~more /\ Pump(q, more).wanted => ~Waiting(q) /\ Pump(q, more) = q
    BY <1>1, PumpKeepsShape
<1> QED
    BY <1>1, <1>2 DEF Tidy

LEMMA ReadKeeps ==
    ASSUME ClientTypeOK, NEW q, Tidy(q), ~q.ended
    PROVE  Tidy(Read(q)) /\ Same(q, Read(q))
<1> DEFINE w == [q EXCEPT !.wanted = TRUE]
<1>1. /\ w \in QueueRecords /\ Same(q, w) /\ w.ended = q.ended
      /\ w.critical = q.critical /\ w.latest = q.latest /\ w.pipe = q.pipe
    BY DEF Tidy, Shape, QueueRecords, Same
<1>2. Read(q) = Pump(w, FALSE)
    BY DEF Read
<1> HIDE DEF w
<1>3. Shape(w)
    BY <1>1 DEF Tidy, Shape, LaneInOrder, PipeInOrder, NothingMissing,
                NewestWaits, VolatileInOrder, EndsEmpty, Same, Gone
<1>4. /\ Shape(Pump(w, FALSE)) /\ Same(w, Pump(w, FALSE))
      /\ Pump(w, FALSE).wanted => ~Waiting(w) /\ Pump(w, FALSE) = w
    BY <1>3, PumpKeepsShape
<1> QED
    BY <1>1, <1>2, <1>4 DEF Tidy, Same, Waiting

\* The accepted frame takes the next number and the last place.
LEMMA EnqueueKeeps ==
    ASSUME ClientTypeOK, NEW q, Tidy(q)
    PROVE  \/ Enqueue(q) = q /\ (q.finishing \/ q.destroyed)
           \/ /\ Enqueue(q) = [q EXCEPT !.cut = TRUE]
              /\ ~q.finishing
           \/ /\ Tidy(Enqueue(q)) /\ ~q.finishing
              /\ Enqueue(q).accepted = q.accepted + 1
              /\ Enqueue(q).fresh = q.fresh /\ Enqueue(q).cut = q.cut
              /\ Enqueue(q).finishing = q.finishing
              /\ Enqueue(q).destroyed = q.destroyed
<1> DEFINE a == [q EXCEPT !.critical = Append(@, q.accepted + 1),
                          !.accepted = @ + 1]
<1>1. CASE q.finishing \/ q.destroyed
    BY <1>1 DEF Enqueue
<1>2. CASE ~(q.finishing \/ q.destroyed) /\ Len(q.critical) >= Limit
    BY <1>2 DEF Enqueue
<1>3. CASE ~(q.finishing \/ q.destroyed) /\ ~(Len(q.critical) >= Limit)
    <2>1. /\ q \in QueueRecords /\ q.critical \in Seq(Nat)
          /\ q.accepted \in Nat /\ Len(q.critical) \in Nat
          /\ q.latest \in Seq(Volatiles) /\ Len(q.latest) \in Nat
        BY LenProperties DEF Tidy, Shape, QueueRecords
    <2>2. /\ Append(q.critical, q.accepted + 1) \in Seq(Nat)
          /\ Len(Append(q.critical, q.accepted + 1)) = Len(q.critical) + 1
          /\ \A i \in 1..Len(q.critical) :
                Append(q.critical, q.accepted + 1)[i] = q.critical[i]
          /\ Append(q.critical, q.accepted + 1)[Len(q.critical) + 1] = q.accepted + 1
        BY <2>1, AppendProperties
    <2>3. /\ a \in QueueRecords /\ a.accepted = q.accepted + 1
          /\ a.critical = Append(q.critical, q.accepted + 1)
          /\ a.latest = q.latest /\ a.pipe = q.pipe /\ a.fresh = q.fresh
          /\ a.wanted = q.wanted /\ a.ended = q.ended
          /\ a.finishing = q.finishing /\ a.cut = q.cut
          /\ a.destroyed = q.destroyed
        <3> DEFINE longer == Append(q.critical, q.accepted + 1)
        <3>1. longer \in Seq(Nat)
            BY <2>2
        <3>2. a = [q EXCEPT !.critical = longer, !.accepted = q.accepted + 1]
            BY <2>1 DEF QueueRecords
        <3>3. q.accepted + 1 \in Nat
            BY <2>1
        <3> HIDE DEF a, longer
        <3>4. a \in QueueRecords /\ a.critical = longer
            BY <2>1, <3>1, <3>2, <3>3 DEF QueueRecords
        <3> QED
            BY <2>1, <3>2, <3>4 DEF QueueRecords, longer
    <2>4. Enqueue(q) = Pushed(a)
        BY <1>3 DEF Enqueue
    <2> HIDE DEF a
    <2>5. Gone(a) = Gone(q)
        <3>1. a.accepted = q.accepted + 1 /\ Len(a.critical) = Len(q.critical) + 1
            BY <2>2, <2>3
        <3>2. \A m, n \in Nat : (m + 1) - (n + 1) = m - n
            OBVIOUS
        <3> QED
            BY <2>1, <3>1, <3>2 DEF Gone
    <2>6. LaneInOrder(a)
        <3>1. Len(a.critical) <= a.accepted
            BY <2>1, <2>2, <2>3 DEF Tidy, Shape, LaneInOrder
        <3>2. ASSUME NEW i \in 1..Len(a.critical)
              PROVE  a.critical[i] = Gone(a) + i
            <4>1. CASE i = Len(q.critical) + 1
                BY <2>1, <2>2, <2>3, <2>5, <4>1 DEF Gone
            <4>2. CASE i \in 1..Len(q.critical)
                BY <2>2, <2>3, <2>5, <4>2 DEF Tidy, Shape, LaneInOrder
            <4> QED
                BY <2>1, <2>2, <2>3, <4>1, <4>2
        <3> QED
            BY <3>1, <3>2 DEF LaneInOrder
    <2>7. EndsEmpty(a)
        BY <1>3, <2>3 DEF Tidy, Shape, EndsEmpty
    <2>8. Len(a.critical) <= Limit
        BY <1>3, <2>1, <2>2, <2>3, QueueAssumption
    <2>a. Shape(q)
        BY DEF Tidy
    <2>b. PipeInOrder(a) /\ NothingMissing(a)
        BY <2>3, <2>5, <2>a DEF Shape, PipeInOrder, NothingMissing
    <2>c. NewestWaits(a) /\ VolatileInOrder(a)
        BY <2>3, <2>a DEF Shape, NewestWaits, VolatileInOrder
    <2>9. Shape(a)
        BY <2>3, <2>6, <2>7, <2>8, <2>b, <2>c DEF Shape
    <2>10. a.wanted => Len(a.critical) + Len(a.latest) <= 1
        <3> SUFFICES ASSUME q.wanted
                     PROVE  Len(a.critical) + Len(a.latest) <= 1
            BY <2>3
        <3>1. Len(q.critical) = 0 /\ Len(q.latest) = 0
            BY <2>1, EmptySeq DEF Tidy, Waiting
        <3> QED
            BY <2>2, <2>3, <3>1
    <2>11. Tidy(Pushed(a)) /\ Same(a, Pushed(a))
        BY <2>9, <2>10, PushedKeeps
    <2> QED
        BY <1>3, <2>3, <2>4, <2>11 DEF Same
<1> QED
    BY <1>1, <1>2, <1>3

\* What Map.set leaves: one value of the event, the new one, and the others
\* where they were.
LEMMA SupersedeFacts ==
    ASSUME NEW L \in Seq(Volatiles), NEW k \in Keys, NEW n \in Nat,
           \A i, j \in 1..Len(L) : L[i].key = L[j].key => i = j
    PROVE  LET M == Supersede(L, k, n)
           IN  /\ M \in Seq(Volatiles) /\ Len(M) \in Nat
               /\ Len(M) <= Len(L) + 1
               /\ \A i \in 1..Len(M) :
                      \/ M[i] = Volatile(k, n)
                      \/ i \in 1..Len(L) /\ M[i] = L[i] /\ L[i].key # k
               /\ \A i, j \in 1..Len(M) : M[i].key = M[j].key => i = j
<1> DEFINE M == Supersede(L, k, n)
<1>1. Len(L) \in Nat /\ DOMAIN L = 1..Len(L) /\ L \in [1..Len(L) -> Volatiles]
    BY LenProperties
<1>2. Volatile(k, n) \in Volatiles /\ Volatile(k, n).key = k
    BY DEF Volatile, Volatiles
<1>3. CASE \E i \in DOMAIN L : L[i].key = k
    <2>1. M = [i \in 1..Len(L) |-> IF L[i].key = k THEN Volatile(k, n) ELSE L[i]]
        BY <1>1, <1>3 DEF Supersede
    <2>2. M \in [1..Len(L) -> Volatiles]
        BY <1>1, <1>2, <2>1
    <2>3. M \in Seq(Volatiles)
        BY <1>1, <2>2, SeqDef
    <2>4. Len(M) = Len(L)
        BY <1>1, <2>2, <2>3, LenProperties
    <2>5. \A i \in 1..Len(L) :
              M[i] = IF L[i].key = k THEN Volatile(k, n) ELSE L[i]
        BY <2>1
    <2> HIDE DEF M
    <2>6. \A i \in 1..Len(L) : M[i].key = L[i].key
        BY <1>2, <2>5
    <2>7. \A i, j \in 1..Len(M) : M[i].key = M[j].key => i = j
        BY <2>4, <2>6
    <2> QED
        BY <1>1, <2>3, <2>4, <2>5, <2>7 DEF M
<1>4. CASE ~ \E i \in DOMAIN L : L[i].key = k
    <2>1. M = Append(L, Volatile(k, n))
        BY <1>4 DEF Supersede
    <2>2. /\ M \in Seq(Volatiles) /\ Len(M) = Len(L) + 1
          /\ \A i \in 1..Len(L) : M[i] = L[i]
          /\ M[Len(L) + 1] = Volatile(k, n)
        BY <1>2, <2>1, AppendProperties
    <2> HIDE DEF M
    <2>3. \A i \in 1..Len(L) : L[i].key # k
        BY <1>1, <1>4
    <2>4. \A i \in 1..Len(M) : i \in 1..Len(L) \/ i = Len(L) + 1
        BY <1>1, <2>2
    <2>5. \A i \in 1..Len(M) :
              \/ M[i] = Volatile(k, n)
              \/ i \in 1..Len(L) /\ M[i] = L[i] /\ L[i].key # k
        BY <2>2, <2>3, <2>4
    <2>6. \A i, j \in 1..Len(M) : M[i].key = M[j].key => i = j
        BY <1>2, <2>2, <2>3, <2>4
    <2> QED
        BY <1>1, <2>2, <2>5, <2>6 DEF M
<1> QED
    BY <1>3, <1>4

LEMMA EnqueueLatestKeeps ==
    ASSUME ClientTypeOK, NEW q, Tidy(q), NEW k \in Keys,
           shown[k] <= q.fresh[k]
    PROVE  \/ EnqueueLatest(q, k) = q
           \/ /\ Tidy(EnqueueLatest(q, k)) /\ ~q.finishing
              /\ EnqueueLatest(q, k).accepted = q.accepted
              /\ EnqueueLatest(q, k).cut = q.cut
              /\ EnqueueLatest(q, k).finishing = q.finishing
              /\ EnqueueLatest(q, k).destroyed = q.destroyed
              /\ EnqueueLatest(q, k).fresh = [q.fresh EXCEPT ![k] = @ + 1]
<1> DEFINE n == q.fresh[k] + 1
           M == Supersede(q.latest, k, n)
           a == [q EXCEPT !.latest = Supersede(@, k, q.fresh[k] + 1),
                          !.fresh[k] = @ + 1]
<1>1. CASE q.finishing \/ q.destroyed
    BY <1>1 DEF EnqueueLatest
<1>2. CASE ~(q.finishing \/ q.destroyed)
    <2>1. /\ q \in QueueRecords /\ q.latest \in Seq(Volatiles)
          /\ q.fresh \in [Keys -> Nat] /\ q.fresh[k] \in Nat /\ n \in Nat
          /\ Len(q.latest) \in Nat
          /\ q.pipe \in Seq(Frames) /\ Len(q.pipe) \in Nat
        BY LenProperties DEF Tidy, Shape, QueueRecords
    <2>2. /\ M \in Seq(Volatiles) /\ Len(M) \in Nat
          /\ Len(M) <= Len(q.latest) + 1
          /\ \A i \in 1..Len(M) :
                 \/ M[i] = Volatile(k, n)
                 \/ i \in 1..Len(q.latest) /\ M[i] = q.latest[i]
                        /\ q.latest[i].key # k
          /\ \A i, j \in 1..Len(M) : M[i].key = M[j].key => i = j
        BY <2>1, SupersedeFacts DEF Tidy, Shape, NewestWaits
    <2>3. a = [q EXCEPT !.latest = M, !.fresh = [q.fresh EXCEPT ![k] = n]]
        BY <2>1 DEF QueueRecords
    <2>4. EnqueueLatest(q, k) = Pushed(a)
        BY <1>2 DEF EnqueueLatest
    <2> HIDE DEF a, M
    <2>5. [q.fresh EXCEPT ![k] = n] \in [Keys -> Nat]
        BY <2>1
    <2>6. /\ a \in QueueRecords /\ a.latest = M
          /\ a.fresh = [q.fresh EXCEPT ![k] = n]
          /\ a.critical = q.critical /\ a.pipe = q.pipe
          /\ a.accepted = q.accepted /\ a.wanted = q.wanted
          /\ a.ended = q.ended /\ a.finishing = q.finishing /\ a.cut = q.cut
          /\ a.destroyed = q.destroyed
        BY <2>1, <2>2, <2>3, <2>5 DEF QueueRecords
    <2>7. /\ Volatile(k, n).key = k /\ Volatile(k, n).number = n
          /\ a.fresh[k] = n /\ n > q.fresh[k] /\ n > shown[k]
          /\ \A m \in Keys \ {k} : a.fresh[m] = q.fresh[m]
        BY <2>1, <2>6 DEF Volatile, ClientTypeOK
    <2>a. \A v \in Volatiles : v.key \in Keys /\ v.number \in Nat
        BY DEF Volatiles
    <2>8. NewestWaits(a)
        <3>1. ASSUME NEW i \in 1..Len(M)
              PROVE  M[i].number = a.fresh[M[i].key] /\ shown[M[i].key] < M[i].number
            <4>1. CASE M[i] = Volatile(k, n)
                BY <2>7, <4>1
            <4>2. CASE i \in 1..Len(q.latest) /\ M[i] = q.latest[i] /\ q.latest[i].key # k
                <5>1. q.latest[i].key \in Keys \ {k}
                    BY <2>1, <2>a, <4>2, ElementOfSeq
                <5> QED
                    BY <2>7, <4>2, <5>1 DEF Tidy, Shape, NewestWaits
            <4> QED
                BY <2>2, <4>1, <4>2
        <3> QED
            BY <2>2, <2>6, <3>1 DEF NewestWaits
    <2>9. VolatileInOrder(a)
        <3>1. ASSUME NEW i \in 1..Len(q.pipe), q.pipe[i].lane = "volatile"
              PROVE  /\ q.pipe[i].key \in Keys /\ q.pipe[i].number \in Nat
                     /\ shown[q.pipe[i].key] < q.pipe[i].number
                     /\ q.pipe[i].number <= q.fresh[q.pipe[i].key]
            <4>1. q.pipe[i] \in Frames
                BY <2>1, ElementOfSeq
            <4>2. q.pipe[i].key \in Keys /\ q.pipe[i].number \in Nat
                BY <3>1, <4>1 DEF Frames
            <4> QED
                BY <3>1, <4>2 DEF Tidy, Shape, VolatileInOrder
        <3>2. ASSUME NEW i \in 1..Len(q.pipe), q.pipe[i].lane = "volatile"
              PROVE  q.pipe[i].number <= a.fresh[q.pipe[i].key]
            <4>1. CASE q.pipe[i].key = k
                BY <2>1, <2>7, <3>1, <3>2, <4>1
            <4>2. CASE q.pipe[i].key # k
                BY <2>7, <3>1, <3>2, <4>2
            <4> QED
                BY <4>1, <4>2
        <3>3. ASSUME NEW i \in 1..Len(q.pipe), NEW j \in 1..Len(M),
                     q.pipe[i].lane = "volatile", q.pipe[i].key = M[j].key
              PROVE  q.pipe[i].number < M[j].number
            <4>1. CASE M[j] = Volatile(k, n)
                <5>1. M[j].number = n /\ q.pipe[i].key = k
                    BY <2>7, <3>3, <4>1
                <5>2. q.pipe[i].number <= q.fresh[k] /\ q.pipe[i].number \in Nat
                    BY <3>1, <3>3, <5>1
                <5> QED
                    BY <2>1, <2>7, <5>1, <5>2
            <4>2. CASE j \in 1..Len(q.latest) /\ M[j] = q.latest[j]
                BY <3>3, <4>2 DEF Tidy, Shape, VolatileInOrder
            <4> QED
                BY <2>2, <4>1, <4>2
        <3> QED
            BY <2>6, <3>1, <3>2, <3>3 DEF Tidy, Shape, VolatileInOrder
    <2>10. EndsEmpty(a)
        BY <1>2, <2>6 DEF Tidy, Shape, EndsEmpty
    <2>11. Shape(a)
        BY <2>6, <2>8, <2>9, <2>10
        DEF Tidy, Shape, LaneInOrder, PipeInOrder, NothingMissing, Gone
    <2>12. a.wanted => Len(a.critical) + Len(a.latest) <= 1
        <3> SUFFICES ASSUME q.wanted
                     PROVE  Len(q.critical) + Len(M) <= 1
            BY <2>6
        <3>1. Len(q.critical) = 0 /\ Len(q.latest) = 0
            BY EmptySeq DEF Tidy, Waiting
        <3> QED
            BY <2>2, <3>1
    <2>13. Tidy(Pushed(a)) /\ Same(a, Pushed(a))
        BY <2>11, <2>12, PushedKeeps
    <2> QED
        BY <1>2, <2>4, <2>6, <2>13 DEF Same
<1> QED
    BY <1>1, <1>2

LEMMA FinishKeeps ==
    ASSUME ClientTypeOK, NEW q, Tidy(q), ~q.finishing
    PROVE  /\ Tidy(Finish(q))
           /\ Finish(q).accepted = q.accepted /\ Finish(q).fresh = q.fresh
           /\ Finish(q).cut = q.cut /\ Finish(q).finishing
           /\ Finish(q).destroyed = q.destroyed
<1> DEFINE a == [q EXCEPT !.finishing = TRUE, !.latest = <<>>]
<1>1. Finish(q) = Pushed(a)
    BY DEF Finish
<1>2. q \in QueueRecords /\ <<>> \in Seq(Volatiles) /\ Len(<<>>) = 0
    BY EmptySeq DEF Tidy, Shape
<1>3. /\ a \in QueueRecords /\ a.latest = <<>> /\ a.finishing = TRUE
      /\ a.critical = q.critical /\ a.pipe = q.pipe /\ a.fresh = q.fresh
      /\ a.accepted = q.accepted /\ a.wanted = q.wanted
      /\ a.ended = q.ended /\ a.cut = q.cut /\ a.destroyed = q.destroyed
    BY <1>2 DEF QueueRecords
<1> HIDE DEF a
<1>4. EndsEmpty(a)
    BY <1>3 DEF Tidy, Shape, EndsEmpty
<1>5. NewestWaits(a)
    BY <1>2, <1>3 DEF NewestWaits
<1>6. VolatileInOrder(a)
    BY <1>2, <1>3 DEF Tidy, Shape, VolatileInOrder
<1>7. Shape(a)
    BY <1>3, <1>4, <1>5, <1>6
    DEF Tidy, Shape, LaneInOrder, PipeInOrder, NothingMissing, Gone
<1>8. a.wanted => Len(a.critical) + Len(a.latest) <= 1
    BY <1>2, <1>3, EmptySeq DEF Tidy, Waiting
<1>9. Tidy(Pushed(a)) /\ Same(a, Pushed(a))
    BY <1>7, <1>8, PushedKeeps
<1> QED
    BY <1>1, <1>3, <1>9 DEF Same

-----------------------------------------------------------------------------
(* The client takes the oldest frame of the pipe.                          *)

LEMMA CriticalReceived ==
    ASSUME QueueInv, queue.pipe # <<>>, Head(queue.pipe).lane = "critical",
           queue' = [queue EXCEPT !.pipe = Tail(@)],
           received' = Head(queue.pipe).number, shown' = shown
    PROVE  /\ Tidy(queue)' /\ received' \in Nat
           /\ received' = received + 1 /\ received < queue.accepted
<1> DEFINE p == queue.pipe
           t == Tail(queue.pipe)
<1>1. /\ queue \in QueueRecords /\ p \in Seq(Frames) /\ Len(p) \in Nat
      /\ queue.accepted \in Nat /\ Len(queue.critical) \in Nat
      /\ queue.critical \in Seq(Nat)
      /\ received \in Nat
    BY LenProperties DEF QueueInv, Tidy, Shape, QueueRecords, ClientTypeOK
<1>2. Len(p) >= 1 /\ Head(p) = p[1] /\ p[1] \in Frames
    <2>1. Len(p) >= 1
        BY <1>1, EmptySeq
    <2>2. Head(p) = p[1] /\ p[1] \in Frames
        BY <1>1, <2>1, ElementOfSeq
    <2> QED
        BY <2>1, <2>2
<1>3. /\ t \in Seq(Frames) /\ Len(t) = Len(p) - 1
      /\ \A i \in 1..Len(t) : t[i] = p[i + 1] /\ i + 1 \in 1..Len(p) /\ 1 < i + 1
    BY <1>1, HeadTailProperties
<1>4. /\ queue' \in QueueRecords /\ queue'.pipe = t
      /\ queue'.critical = queue.critical /\ queue'.latest = queue.latest
      /\ queue'.accepted = queue.accepted /\ queue'.fresh = queue.fresh
      /\ queue'.wanted = queue.wanted /\ queue'.ended = queue.ended
      /\ queue'.finishing = queue.finishing
    BY <1>1, <1>3 DEF QueueRecords
<1>5. received' = p[1].number /\ p[1].lane = "critical" /\ p[1].number \in Nat
    BY <1>2 DEF Frames
<1> HIDE DEF p, t
<1>6. Gone(queue') = Gone(queue) /\ Gone(queue) \in Nat
    BY <1>1, <1>4 DEF Gone, QueueInv, Tidy, Shape, LaneInOrder
<1>7. /\ received < p[1].number /\ p[1].number <= Gone(queue)
      /\ \A j \in 1..Len(p) : p[j].lane = "critical" /\ 1 < j
             => p[1].number < p[j].number
    <2>1. PipeInOrder(queue)
        BY DEF QueueInv, Tidy, Shape
    <2>2. 1 \in 1..Len(p)
        BY <1>1, <1>2
    <2>3. received < p[1].number /\ p[1].number <= Gone(queue)
        BY <1>5, <2>1, <2>2 DEF p, PipeInOrder
    <2>4. \A j \in 1..Len(p) : p[j].lane = "critical" /\ 1 < j
              => p[1].number < p[j].number
        BY <1>5, <2>1, <2>2 DEF p, PipeInOrder
    <2> QED
        BY <2>3, <2>4
<1>8. received' = received + 1
    <2>0. received + 1 \in Nat /\ received < received + 1
          /\ received + 1 <= Gone(queue)
        BY <1>1, <1>5, <1>6, <1>7
    <2>1. PICK i \in 1..Len(p) : p[i] = Critical(received + 1)
        BY <2>0 DEF p, QueueInv, Tidy, Shape, NothingMissing
    <2>2. p[i].lane = "critical" /\ p[i].number = received + 1
        BY <2>1 DEF Critical
    <2>3. i = 1
        <3> SUFFICES ASSUME i # 1 PROVE FALSE
            OBVIOUS
        <3>1. 1 < i
            BY <1>1
        <3>2. p[1].number < received + 1
            BY <1>7, <2>2, <3>1
        <3> QED
            BY <1>1, <1>5, <1>7, <3>2
    <2> QED
        BY <1>5, <2>2, <2>3
<1>9. PipeInOrder(queue)'
    <2>1. received' <= Gone(queue')
        BY <1>5, <1>6, <1>7
    <2>2. \A i \in 1..Len(t) : t[i].lane = "critical" =>
              received' < t[i].number /\ t[i].number <= Gone(queue')
        BY <1>3, <1>5, <1>6, <1>7 DEF p, QueueInv, Tidy, Shape, PipeInOrder
    <2>3. ASSUME NEW i \in 1..Len(t), NEW j \in 1..Len(t), i < j,
                 t[i].lane = "critical", t[j].lane = "critical"
          PROVE  t[i].number < t[j].number
        <3>1. i + 1 < j + 1 /\ i + 1 \in 1..Len(p) /\ j + 1 \in 1..Len(p)
            BY <1>3, <2>3
        <3>2. PipeInOrder(queue)
            BY DEF QueueInv, Tidy, Shape
        <3>3. t[i] = p[i + 1] /\ t[j] = p[j + 1]
            BY <1>3
        <3> QED
            BY <2>3, <3>1, <3>2, <3>3 DEF p, PipeInOrder
    <2> QED
        BY <1>4, <2>1, <2>2, <2>3 DEF PipeInOrder
<1>10. NothingMissing(queue)'
    <2> SUFFICES ASSUME NEW n \in Nat, received' < n, n <= Gone(queue')
                 PROVE  \E i \in 1..Len(t) : t[i] = Critical(n)
        BY <1>4 DEF NothingMissing
    <2>a. NothingMissing(queue)
        BY DEF QueueInv, Tidy, Shape
    <2>b. received < n /\ n <= Gone(queue)
        BY <1>1, <1>6, <1>8
    <2>1. PICK i \in 1..Len(p) : p[i] = Critical(n)
        BY <2>a, <2>b DEF p, NothingMissing
    <2>2. i # 1
        BY <1>5, <2>1 DEF Critical
    <2>3. i - 1 \in 1..Len(t) /\ (i - 1) + 1 = i
        BY <1>1, <1>3, <2>2
    <2>4. t[i - 1] = Critical(n)
        BY <1>3, <2>1, <2>3
    <2> QED
        BY <2>3, <2>4
<1>11. VolatileInOrder(queue)'
    <2>1. \A i \in 1..Len(t) : t[i].lane = "volatile" =>
              /\ shown[t[i].key] < t[i].number
              /\ t[i].number <= queue.fresh[t[i].key]
        BY <1>3 DEF p, QueueInv, Tidy, Shape, VolatileInOrder
    <2>2. ASSUME NEW i \in 1..Len(t), NEW j \in 1..Len(t), i < j,
                 t[i].lane = "volatile", t[j].lane = "volatile",
                 t[i].key = t[j].key
          PROVE  t[i].number < t[j].number
        <3>1. i + 1 < j + 1
            BY <2>2
        <3> QED
            BY <1>3, <2>2, <3>1 DEF p, QueueInv, Tidy, Shape, VolatileInOrder
    <2>3. \A i \in 1..Len(t), j \in 1..Len(queue.latest) :
              t[i].lane = "volatile" /\ t[i].key = queue.latest[j].key
                  => t[i].number < queue.latest[j].number
        BY <1>3 DEF p, QueueInv, Tidy, Shape, VolatileInOrder
    <2>4. queue'.pipe = t /\ queue'.latest = queue.latest /\ queue'.fresh = queue.fresh
        BY <1>4
    <2>5. \A i \in 1..Len(queue'.pipe) : queue'.pipe[i].lane = "volatile" =>
              /\ shown'[queue'.pipe[i].key] < queue'.pipe[i].number
              /\ queue'.pipe[i].number <= queue'.fresh[queue'.pipe[i].key]
        BY <2>1, <2>4
    <2>6. \A i, j \in 1..Len(queue'.pipe) :
              queue'.pipe[i].lane = "volatile" /\ queue'.pipe[j].lane = "volatile"
                /\ queue'.pipe[i].key = queue'.pipe[j].key /\ i < j
                  => queue'.pipe[i].number < queue'.pipe[j].number
        <3>1. \A i, j \in 1..Len(t) :
                  t[i].lane = "volatile" /\ t[j].lane = "volatile"
                    /\ t[i].key = t[j].key /\ i < j => t[i].number < t[j].number
            BY <2>2
        <3> QED
            BY ONLY <2>4, <3>1
    <2>7. \A i \in 1..Len(queue'.pipe), j \in 1..Len(queue'.latest) :
              queue'.pipe[i].lane = "volatile"
                /\ queue'.pipe[i].key = queue'.latest[j].key
                  => queue'.pipe[i].number < queue'.latest[j].number
        BY ONLY <2>3, <2>4
    <2> QED
        BY <2>5, <2>6, <2>7 DEF VolatileInOrder
<1>12. LaneInOrder(queue)' /\ NewestWaits(queue)' /\ EndsEmpty(queue)'
    BY <1>4, <1>6 DEF QueueInv, Tidy, Shape, LaneInOrder, NewestWaits, EndsEmpty, Gone
<1>13. Tidy(queue)'
    BY <1>4, <1>9, <1>10, <1>11, <1>12 DEF QueueInv, Tidy, Shape, Waiting
<1>14. received < queue.accepted
    BY <1>1, <1>5, <1>6, <1>7 DEF Gone
<1> QED
    BY <1>5, <1>8, <1>13, <1>14

LEMMA VolatileReceived ==
    ASSUME QueueInv, queue.pipe # <<>>, Head(queue.pipe).lane # "critical",
           queue' = [queue EXCEPT !.pipe = Tail(@)], received' = received,
           shown' = [shown EXCEPT ![Head(queue.pipe).key] = Head(queue.pipe).number]
    PROVE  /\ Tidy(queue)'
           /\ shown' \in [Keys -> Nat]
           /\ \A k \in Keys : shown'[k] <= queue.fresh[k]
           /\ \E k \in Keys : \E n \in (shown[k] + 1)..queue.fresh[k] :
                  shown' = [shown EXCEPT ![k] = n]
<1> DEFINE p == queue.pipe
           t == Tail(queue.pipe)
           key == queue.pipe[1].key
           n == queue.pipe[1].number
<1>1. /\ queue \in QueueRecords /\ p \in Seq(Frames) /\ Len(p) \in Nat
      /\ queue.latest \in Seq(Volatiles)
      /\ queue.fresh \in [Keys -> Nat] /\ shown \in [Keys -> Nat]
    BY LenProperties DEF QueueInv, Tidy, Shape, QueueRecords, ClientTypeOK
<1>2. Len(p) >= 1 /\ Head(p) = p[1] /\ p[1] \in Frames
    <2>1. Len(p) >= 1
        BY <1>1, EmptySeq
    <2>2. Head(p) = p[1] /\ p[1] \in Frames
        BY <1>1, <2>1, ElementOfSeq
    <2> QED
        BY <2>1, <2>2
<1>3. /\ t \in Seq(Frames) /\ Len(t) = Len(p) - 1
      /\ \A i \in 1..Len(t) : t[i] = p[i + 1] /\ i + 1 \in 1..Len(p) /\ 1 < i + 1
    BY <1>1, HeadTailProperties
<1>4. /\ queue' \in QueueRecords /\ queue'.pipe = t
      /\ queue'.critical = queue.critical /\ queue'.latest = queue.latest
      /\ queue'.accepted = queue.accepted /\ queue'.fresh = queue.fresh
      /\ queue'.wanted = queue.wanted /\ queue'.ended = queue.ended
      /\ queue'.finishing = queue.finishing
    BY <1>1, <1>3 DEF QueueRecords
<1>5. key \in Keys /\ n \in Nat /\ p[1].lane = "volatile"
    BY <1>2 DEF Frames
<1>6. shown' = [shown EXCEPT ![key] = n] /\ shown' \in [Keys -> Nat]
    <2>1. shown' = [shown EXCEPT ![key] = n]
        BY <1>2
    <2> QED
        BY <1>1, <1>5, <2>1
<1>7. p[1].key = key /\ p[1].number = n
    OBVIOUS
<1> HIDE DEF p, t, key, n
<1>8. /\ shown'[key] = n
      /\ \A k \in Keys : k # key => shown'[k] = shown[k]
    BY <1>1, <1>5, <1>6
<1>9. /\ shown[key] < n /\ n <= queue.fresh[key]
      /\ \A j \in 1..Len(p) : p[j].lane = "volatile" /\ p[j].key = key /\ 1 < j
             => n < p[j].number
      /\ \A j \in 1..Len(queue.latest) : queue.latest[j].key = key
             => n < queue.latest[j].number
    <2>1. 1 \in 1..Len(p)
        BY <1>1, <1>2
    <2>2. shown[key] < n /\ n <= queue.fresh[key]
        BY <1>5, <1>7, <2>1 DEF p, QueueInv, Tidy, Shape, VolatileInOrder
    <2>3. \A j \in 1..Len(p) : p[j].lane = "volatile" /\ p[j].key = key /\ 1 < j
              => n < p[j].number
        BY <1>5, <1>7, <2>1 DEF p, QueueInv, Tidy, Shape, VolatileInOrder
    <2>4. \A j \in 1..Len(queue.latest) : queue.latest[j].key = key
              => n < queue.latest[j].number
        BY <1>5, <1>7, <2>1 DEF p, QueueInv, Tidy, Shape, VolatileInOrder
    <2> QED
        BY <2>2, <2>3, <2>4
<1>10. \A i \in 1..Len(t) : t[i].lane = "volatile" => t[i].key \in Keys
    <2> SUFFICES ASSUME NEW i \in 1..Len(t), t[i].lane = "volatile"
                 PROVE  t[i].key \in Keys
        OBVIOUS
    <2>1. t[i] \in Frames
        BY <1>3, ElementOfSeq
    <2> QED
        BY <2>1 DEF Frames
<1>11. PipeInOrder(queue)'
    <2>1. Gone(queue') = Gone(queue)
        BY <1>4 DEF Gone
    <2>2. \A i \in 1..Len(t) : t[i].lane = "critical" =>
              received < t[i].number /\ t[i].number <= Gone(queue)
        BY <1>3 DEF p, QueueInv, Tidy, Shape, PipeInOrder
    <2>3. ASSUME NEW i \in 1..Len(t), NEW j \in 1..Len(t), i < j,
                 t[i].lane = "critical", t[j].lane = "critical"
          PROVE  t[i].number < t[j].number
        <3>1. i + 1 < j + 1
            BY <2>3
        <3> QED
            BY <1>3, <2>3, <3>1 DEF p, QueueInv, Tidy, Shape, PipeInOrder
    <2> QED
        BY <1>4, <2>1, <2>2, <2>3 DEF QueueInv, Tidy, Shape, PipeInOrder
<1>12. NothingMissing(queue)'
    <2> SUFFICES ASSUME NEW m \in Nat, received < m, m <= Gone(queue)
                 PROVE  \E i \in 1..Len(t) : t[i] = Critical(m)
        BY <1>4 DEF NothingMissing, Gone
    <2>1. PICK i \in 1..Len(p) : p[i] = Critical(m)
        BY DEF p, QueueInv, Tidy, Shape, NothingMissing
    <2>2. i # 1
        BY <1>5, <2>1 DEF Critical
    <2>3. i - 1 \in 1..Len(t) /\ (i - 1) + 1 = i
        BY <1>1, <1>3, <2>2
    <2>4. t[i - 1] = Critical(m)
        BY <1>3, <2>1, <2>3
    <2> QED
        BY <2>3, <2>4
<1>13. NewestWaits(queue)'
    <2>1. ASSUME NEW i \in 1..Len(queue.latest)
          PROVE  shown'[queue.latest[i].key] < queue.latest[i].number
        <3>0. queue.latest[i] \in Volatiles
            BY <1>1, ElementOfSeq
        <3>1. queue.latest[i].key \in Keys
            BY <3>0 DEF Volatiles
        <3> QED
            BY <1>8, <1>9, <3>1 DEF QueueInv, Tidy, Shape, NewestWaits
    <2> QED
        BY <1>4, <2>1 DEF QueueInv, Tidy, Shape, NewestWaits
<1>14. VolatileInOrder(queue)'
    <2>1. ASSUME NEW i \in 1..Len(t), t[i].lane = "volatile"
          PROVE  /\ shown'[t[i].key] < t[i].number
                 /\ t[i].number <= queue.fresh[t[i].key]
        <3>1. /\ shown[t[i].key] < t[i].number
              /\ t[i].number <= queue.fresh[t[i].key]
            BY <1>3, <2>1 DEF p, QueueInv, Tidy, Shape, VolatileInOrder
        <3> QED
            BY <1>3, <1>8, <1>9, <1>10, <2>1, <3>1
    <2>2. ASSUME NEW i \in 1..Len(t), NEW j \in 1..Len(t), i < j,
                 t[i].lane = "volatile", t[j].lane = "volatile",
                 t[i].key = t[j].key
          PROVE  t[i].number < t[j].number
        <3>1. i + 1 < j + 1
            BY <2>2
        <3> QED
            BY <1>3, <2>2, <3>1 DEF p, QueueInv, Tidy, Shape, VolatileInOrder
    <2>3. \A i \in 1..Len(t), j \in 1..Len(queue.latest) :
              t[i].lane = "volatile" /\ t[i].key = queue.latest[j].key
                  => t[i].number < queue.latest[j].number
        BY <1>3 DEF p, QueueInv, Tidy, Shape, VolatileInOrder
    <2>4. queue'.pipe = t /\ queue'.latest = queue.latest /\ queue'.fresh = queue.fresh
        BY <1>4
    <2>5. \A i \in 1..Len(queue'.pipe) : queue'.pipe[i].lane = "volatile" =>
              /\ shown'[queue'.pipe[i].key] < queue'.pipe[i].number
              /\ queue'.pipe[i].number <= queue'.fresh[queue'.pipe[i].key]
        BY <2>1, <2>4
    <2>6. \A i, j \in 1..Len(queue'.pipe) :
              queue'.pipe[i].lane = "volatile" /\ queue'.pipe[j].lane = "volatile"
                /\ queue'.pipe[i].key = queue'.pipe[j].key /\ i < j
                  => queue'.pipe[i].number < queue'.pipe[j].number
        <3>1. \A i, j \in 1..Len(t) :
                  t[i].lane = "volatile" /\ t[j].lane = "volatile"
                    /\ t[i].key = t[j].key /\ i < j => t[i].number < t[j].number
            BY <2>2
        <3> QED
            BY ONLY <2>4, <3>1
    <2>7. \A i \in 1..Len(queue'.pipe), j \in 1..Len(queue'.latest) :
              queue'.pipe[i].lane = "volatile"
                /\ queue'.pipe[i].key = queue'.latest[j].key
                  => queue'.pipe[i].number < queue'.latest[j].number
        BY ONLY <2>3, <2>4
    <2> QED
        BY <2>5, <2>6, <2>7 DEF VolatileInOrder
<1>15. LaneInOrder(queue)' /\ EndsEmpty(queue)'
    BY <1>4 DEF QueueInv, Tidy, Shape, LaneInOrder, EndsEmpty, Gone
<1>16. Tidy(queue)'
    BY <1>4, <1>11, <1>12, <1>13, <1>14, <1>15 DEF QueueInv, Tidy, Shape, Waiting
<1>17. \A k \in Keys : shown'[k] <= queue.fresh[k]
    BY <1>5, <1>8, <1>9 DEF QueueInv
<1>18. \E k \in Keys : \E m \in (shown[k] + 1)..queue.fresh[k] :
           shown' = [shown EXCEPT ![k] = m]
    <2>1. n \in (shown[key] + 1)..queue.fresh[key]
        BY <1>1, <1>5, <1>9
    <2> QED
        BY <1>5, <1>6, <2>1
<1> QED
    BY <1>6, <1>16, <1>17, <1>18

-----------------------------------------------------------------------------
(* The invariant holds at first and every step keeps it.                   *)

\* What Tidy says of a record it says of the queue that becomes it, while
\* the client receives nothing.
LEMMA TidyBecomes ==
    ASSUME NEW r, Tidy(r), queue' = r, received' = received, shown' = shown
    PROVE  Tidy(queue)'
BY DEF Tidy, Shape, LaneInOrder, PipeInOrder, NothingMissing, NewestWaits,
       VolatileInOrder, EndsEmpty, Gone, Waiting

\* A flag no part of Tidy reads.
LEMMA FlagsApart ==
    ASSUME NEW q, Tidy(q), NEW r \in QueueRecords,
           r.critical = q.critical, r.latest = q.latest, r.pipe = q.pipe,
           r.accepted = q.accepted, r.fresh = q.fresh, r.wanted = q.wanted,
           r.ended = q.ended, r.finishing = q.finishing
    PROVE  Tidy(r)
BY DEF Tidy, Shape, LaneInOrder, PipeInOrder, NothingMissing, NewestWaits,
       VolatileInOrder, EndsEmpty, Gone, Waiting

LEMMA InitInv == Init => QueueInv
<1> SUFFICES ASSUME Init PROVE QueueInv
    OBVIOUS
<1>1. /\ queue.critical = <<>> /\ queue.latest = <<>> /\ queue.pipe = <<>>
      /\ queue.accepted = 0 /\ queue.fresh = [k \in Keys |-> 0]
      /\ queue.wanted = FALSE /\ queue.ended = FALSE /\ queue.finishing = FALSE
      /\ queue.cut = FALSE /\ queue.destroyed = FALSE
    BY DEF Init, NewQueue
<1>2. queue \in QueueRecords
    <2>1. <<>> \in Seq(Volatiles) /\ <<>> \in Seq(Frames) /\ <<>> \in Seq(Nat)
        BY EmptySeq
    <2>2. [k \in Keys |-> 0] \in [Keys -> Nat]
        OBVIOUS
    <2> QED
        BY <2>1, <2>2 DEF Init, NewQueue, QueueRecords
<1>3. received = 0 /\ shown = [k \in Keys |-> 0] /\ goodbye = FALSE
    BY DEF Init
<1>4. Len(<<>>) = 0
    BY EmptySeq
<1>5. Shape(queue)
    BY <1>1, <1>2, <1>3, <1>4, QueueAssumption
    DEF Shape, LaneInOrder, PipeInOrder, NothingMissing, NewestWaits,
        VolatileInOrder, EndsEmpty, Gone
<1>6. Tidy(queue)
    BY <1>1, <1>5 DEF Tidy
<1>7. ClientTypeOK
    BY <1>3 DEF ClientTypeOK
<1> QED
    BY <1>1, <1>3, <1>6, <1>7 DEF QueueInv

LEMMA Cutting ==
    ASSUME QueueInv, queue' = [queue EXCEPT !.cut = TRUE], Untouched, ~goodbye
    PROVE  QueueInv' /\ queue'.accepted = queue.accepted /\ queue'.fresh = queue.fresh
<1> DEFINE r == [queue EXCEPT !.cut = TRUE]
<1>1. /\ r \in QueueRecords
      /\ r.critical = queue.critical /\ r.latest = queue.latest
      /\ r.pipe = queue.pipe /\ r.accepted = queue.accepted
      /\ r.fresh = queue.fresh /\ r.wanted = queue.wanted
      /\ r.ended = queue.ended /\ r.finishing = queue.finishing
    BY DEF QueueInv, Tidy, Shape, QueueRecords
<1>2. queue' = r
    OBVIOUS
<1> HIDE DEF r
<1>3. Tidy(r)
    BY <1>1, FlagsApart DEF QueueInv
<1>4. Tidy(queue)'
    BY <1>2, <1>3, TidyBecomes DEF Untouched
<1> QED
    BY <1>1, <1>2, <1>4 DEF QueueInv, Untouched, ClientTypeOK

LEMMA NextInv == QueueInv /\ [Next]_queueVars => QueueInv'
<1> SUFFICES ASSUME QueueInv, [Next]_queueVars PROVE QueueInv'
    OBVIOUS
<1>0. /\ ClientTypeOK /\ Tidy(queue)
      /\ queue \in QueueRecords /\ queue.fresh \in [Keys -> Nat]
      /\ goodbye => queue.ended /\ queue.pipe = <<>>
      /\ queue.ended => queue.finishing
    BY DEF QueueInv, Tidy, Shape, EndsEmpty, QueueRecords
<1>1. CASE SendCritical
    <2>1. queue' = Enqueue(queue) /\ Untouched
        BY <1>1 DEF SendCritical
    <2>2. CASE Enqueue(queue) = queue
        <3>1. Tidy(queue)'
            BY <1>0, <2>1, <2>2, TidyBecomes DEF Untouched
        <3> QED
            BY <1>0, <2>1, <2>2, <3>1 DEF QueueInv, Untouched, ClientTypeOK
    <2>3. CASE Enqueue(queue) = [queue EXCEPT !.cut = TRUE] /\ ~queue.finishing
        BY <1>0, <2>1, <2>3, Cutting
    <2>4. CASE /\ Tidy(Enqueue(queue)) /\ ~queue.finishing
               /\ Enqueue(queue).fresh = queue.fresh
        <3>1. Tidy(queue)'
            BY <2>1, <2>4, TidyBecomes DEF Untouched
        <3> QED
            BY <1>0, <2>1, <2>4, <3>1 DEF QueueInv, Untouched, ClientTypeOK
    <2> QED
        BY <1>0, <2>2, <2>3, <2>4, EnqueueKeeps
<1>2. ASSUME NEW k \in Keys, SendVolatile(k) PROVE QueueInv'
    <2>1. queue' = EnqueueLatest(queue, k) /\ Untouched
        BY <1>2 DEF SendVolatile
    <2>2. CASE EnqueueLatest(queue, k) = queue
        <3>1. Tidy(queue)'
            BY <1>0, <2>1, <2>2, TidyBecomes DEF Untouched
        <3> QED
            BY <1>0, <2>1, <2>2, <3>1 DEF QueueInv, Untouched, ClientTypeOK
    <2>3. CASE /\ Tidy(EnqueueLatest(queue, k)) /\ ~queue.finishing
               /\ EnqueueLatest(queue, k).fresh = [queue.fresh EXCEPT ![k] = @ + 1]
        <3>1. Tidy(queue)'
            BY <2>1, <2>3, TidyBecomes DEF Untouched
        <3>2. queue'.fresh = [queue.fresh EXCEPT ![k] = @ + 1]
            BY <2>1, <2>3
        <3>3. \A m \in Keys : shown'[m] <= queue'.fresh[m]
            BY <1>0, <2>1, <3>2 DEF QueueInv, ClientTypeOK, Untouched
        <3> QED
            BY <1>0, <2>1, <2>3, <3>1, <3>3 DEF QueueInv, Untouched, ClientTypeOK
    <2>4. shown[k] <= queue.fresh[k]
        BY DEF QueueInv
    <2> QED
        BY <1>0, <2>2, <2>3, <2>4, EnqueueLatestKeeps
<1>3. CASE SendNoMore
    <2>1. queue' = Finish(queue) /\ Untouched /\ ~queue.finishing
        BY <1>3 DEF SendNoMore
    <2>2. /\ Tidy(Finish(queue)) /\ Finish(queue).fresh = queue.fresh
        BY <1>0, <2>1, FinishKeeps
    <2>3. Tidy(queue)'
        BY <2>1, <2>2, TidyBecomes DEF Untouched
    <2> QED
        BY <1>0, <2>1, <2>2, <2>3 DEF QueueInv, Untouched, ClientTypeOK
<1>4. CASE StreamReads
    <2>1. queue' = Read(queue) /\ Untouched /\ ~queue.ended
        BY <1>4 DEF StreamReads
    <2>2. Tidy(Read(queue)) /\ Same(queue, Read(queue))
        BY <1>0, <2>1, ReadKeeps
    <2>3. Tidy(queue)'
        BY <2>1, <2>2, TidyBecomes DEF Untouched
    <2> QED
        BY <1>0, <2>1, <2>2, <2>3 DEF QueueInv, Untouched, ClientTypeOK, Same
<1>5. CASE ClientReceives
    <2>1. /\ queue.pipe # <<>> /\ queue' = [queue EXCEPT !.pipe = Tail(@)]
          /\ goodbye' = goodbye
        BY <1>5 DEF ClientReceives
    <2>2. queue'.fresh = queue.fresh /\ ~goodbye
        BY <1>0, <2>1 DEF QueueRecords
    <2>3. CASE Head(queue.pipe).lane = "critical"
        <3>1. received' = Head(queue.pipe).number /\ shown' = shown
            BY <1>5, <2>3 DEF ClientReceives
        <3>2. Tidy(queue)' /\ received' \in Nat
            BY <2>1, <2>3, <3>1, CriticalReceived
        <3> QED
            BY <1>0, <2>1, <2>2, <3>1, <3>2 DEF QueueInv, ClientTypeOK
    <2>4. CASE Head(queue.pipe).lane # "critical"
        <3>1. /\ received' = received
              /\ shown' = [shown EXCEPT ![Head(queue.pipe).key] = Head(queue.pipe).number]
            BY <1>5, <2>4 DEF ClientReceives
        <3>2. /\ Tidy(queue)' /\ shown' \in [Keys -> Nat]
              /\ \A k \in Keys : shown'[k] <= queue.fresh[k]
            BY <2>1, <2>4, <3>1, VolatileReceived
        <3> QED
            BY <1>0, <2>1, <2>2, <3>1, <3>2 DEF QueueInv, ClientTypeOK
    <2> QED
        BY <2>3, <2>4
<1>6. CASE Cut
    BY <1>6, Cutting DEF Cut
<1>7. CASE ClientSeesEnd
    <2>1. Tidy(queue)'
        BY <1>0, <1>7, TidyBecomes DEF ClientSeesEnd
    <2> QED
        BY <1>0, <1>7, <2>1 DEF ClientSeesEnd, Alive, QueueInv, ClientTypeOK
<1>8. CASE Destroy
    <2> DEFINE r == [queue EXCEPT !.destroyed = TRUE]
    <2>1. /\ r \in QueueRecords
          /\ r.critical = queue.critical /\ r.latest = queue.latest
          /\ r.pipe = queue.pipe /\ r.accepted = queue.accepted
          /\ r.fresh = queue.fresh /\ r.wanted = queue.wanted
          /\ r.ended = queue.ended /\ r.finishing = queue.finishing
          /\ r.cut = queue.cut
        BY <1>0 DEF QueueRecords
    <2>2. queue' = r /\ Untouched
        BY <1>8 DEF Destroy
    <2> HIDE DEF r
    <2>3. Tidy(r)
        BY <1>0, <2>1, FlagsApart
    <2>4. Tidy(queue)'
        BY <2>2, <2>3, TidyBecomes DEF Untouched
    <2> QED
        BY <1>0, <2>1, <2>2, <2>4 DEF QueueInv, Untouched, ClientTypeOK
<1>9. CASE UNCHANGED queueVars
    BY <1>9 DEF queueVars, QueueInv, ClientTypeOK, Tidy, Shape, LaneInOrder,
        PipeInOrder, NothingMissing, NewestWaits, VolatileInOrder, EndsEmpty,
        Gone, Waiting
<1> QED
    BY <1>1, <1>2, <1>3, <1>4, <1>5, <1>6, <1>7, <1>8, <1>9 DEF Next

LEMMA SpecInv == Spec => []QueueInv
BY InitInv, NextInv, PTL DEF Spec

-----------------------------------------------------------------------------
(* What follows for a reader.                                              *)

LEMMA QueueInvSays ==
    ASSUME QueueInv
    PROVE  QueueTypeOK /\ BacklogIsBounded /\ NothingWaitsOnAnIdleSocket
<1>1. QueueTypeOK
    BY DEF QueueInv, ClientTypeOK, Tidy, Shape, QueueRecords, QueueTypeOK, Volatiles
<1>2. DOMAIN queue.latest = 1..Len(queue.latest)
    BY LenProperties DEF QueueInv, Tidy, Shape, QueueRecords
<1>3. BacklogIsBounded
    BY <1>2 DEF QueueInv, Tidy, Shape, NewestWaits, BacklogIsBounded
<1>4. NothingWaitsOnAnIdleSocket
    BY DEF QueueInv, Tidy, NothingWaitsOnAnIdleSocket
<1> QED
    BY <1>1, <1>3, <1>4

\* Whatever the values of the constants, the queue is always a record of the
\* right shape (the fields and the constructor of outbound.ts).
THEOREM QueueTypeCorrect == Spec => []QueueTypeOK
<1>1. QueueInv => QueueTypeOK
    BY QueueInvSays
<1> QED
    BY <1>1, SpecInv, PTL

\* However many frames are sent and however slow the client, what waits stays
\* within the limit and one frame per volatile event (enqueue, enqueueLatest).
THEOREM BacklogBounded == Spec => []BacklogIsBounded
<1>1. QueueInv => BacklogIsBounded
    BY QueueInvSays
<1> QED
    BY <1>1, SpecInv, PTL

\* A stream that asked and was not served never has a frame waiting for it,
\* so no frame depends on somebody else speaking to be sent (pump).
THEOREM NoLostWakeup == Spec => []NothingWaitsOnAnIdleSocket
<1>1. QueueInv => NothingWaitsOnAnIdleSocket
    BY QueueInvSays
<1> QED
    BY <1>1, SpecInv, PTL

-----------------------------------------------------------------------------
(* The queue implements FrameStream.                                       *)

LEMMA InitMaps == Init => Stream!Init
BY DEF Init, NewQueue, Stream!Init

\* Nothing the client can tell moved.
LEMMA Stutters ==
    ASSUME queue'.accepted = queue.accepted, queue'.fresh = queue.fresh,
           queue'.cut = queue.cut, goodbye' = goodbye, received' = received,
           shown' = shown
    PROVE  UNCHANGED Stream!streamVars
BY DEF Stream!streamVars

LEMMA CutMaps ==
    ASSUME QueueInv, queue' = [queue EXCEPT !.cut = TRUE], Untouched, ~goodbye
    PROVE  [Stream!Next]_(Stream!streamVars)
<1>1. /\ queue'.accepted = queue.accepted /\ queue'.fresh = queue.fresh
      /\ queue'.cut = TRUE
    BY DEF QueueInv, Tidy, Shape, QueueRecords
<1>2. received' = received /\ shown' = shown /\ goodbye' = goodbye
    BY DEF Untouched
<1>3. queue.accepted \in Nat /\ queue.fresh \in [Keys -> Nat] /\ queue.cut \in BOOLEAN
    BY DEF QueueInv, Tidy, Shape, QueueRecords
<1>4. CASE queue.cut
    BY <1>1, <1>2, <1>4, Stutters
<1>5. CASE ~queue.cut
    <2>1. queue'.accepted >= queue.accepted
          /\ \A k \in Keys : queue'.fresh[k] >= queue.fresh[k]
        BY <1>1, <1>3
    <2>2. Stream!Cut
        BY <1>1, <1>2, <1>5, <2>1 DEF Stream!Cut
    <2> QED
        BY <2>2 DEF Stream!Next
<1> QED
    BY <1>3, <1>4, <1>5

\* Nothing waits and nothing is on its way: the client has it all.
LEMMA AllReceived ==
    ASSUME QueueInv, queue.ended, queue.pipe = <<>>
    PROVE  received = queue.accepted
<1>1. /\ ClientTypeOK /\ Tidy(queue) /\ queue.accepted \in Nat
      /\ queue.critical = <<>>
    BY DEF QueueInv, Tidy, Shape, EndsEmpty, QueueRecords
<1>2. Len(queue.critical) = 0 /\ Len(queue.pipe) = 0
    BY <1>1, EmptySeq
<1>3. Gone(queue) = queue.accepted
    BY <1>1, <1>2 DEF Gone
<1>4. received <= queue.accepted /\ received \in Nat
    BY <1>1, <1>3 DEF Tidy, Shape, PipeInOrder, ClientTypeOK
<1>5. ~(received < queue.accepted)
    BY <1>1, <1>2, <1>3 DEF Tidy, Shape, NothingMissing
<1> QED
    BY <1>1, <1>4, <1>5

LEMMA StepMaps ==
    QueueInv /\ [Next]_queueVars => [Stream!Next]_(Stream!streamVars)
<1> SUFFICES ASSUME QueueInv, [Next]_queueVars
             PROVE  [Stream!Next]_(Stream!streamVars)
    OBVIOUS
<1>0. /\ ClientTypeOK /\ Tidy(queue)
      /\ queue \in QueueRecords /\ queue.fresh \in [Keys -> Nat]
      /\ queue.accepted \in Nat
      /\ goodbye => queue.ended /\ queue.pipe = <<>>
      /\ queue.ended => queue.finishing /\ queue.critical = <<>>
      /\ \A k \in Keys : shown[k] <= queue.fresh[k]
    BY DEF QueueInv, Tidy, Shape, EndsEmpty, QueueRecords
<1>1. CASE SendCritical
    <2>1. /\ queue' = Enqueue(queue)
          /\ received' = received /\ shown' = shown /\ goodbye' = goodbye
        BY <1>1 DEF SendCritical, Untouched
    <2>2. CASE Enqueue(queue) = queue
        BY <2>1, <2>2, Stutters
    <2>3. CASE Enqueue(queue) = [queue EXCEPT !.cut = TRUE] /\ ~queue.finishing
        BY <1>0, <2>1, <2>3, CutMaps DEF Untouched
    <2>4. CASE /\ ~queue.finishing
               /\ Enqueue(queue).accepted = queue.accepted + 1
               /\ Enqueue(queue).fresh = queue.fresh
               /\ Enqueue(queue).cut = queue.cut
        <3>1. ~goodbye
            BY <1>0, <2>4
        <3>2. queue'.accepted > queue.accepted
              /\ \A k \in Keys : queue'.fresh[k] >= queue.fresh[k]
            BY <1>0, <2>1, <2>4
        <3>3. Stream!Accept
            BY <2>1, <2>4, <3>1, <3>2 DEF Stream!Accept
        <3> QED
            BY <3>3 DEF Stream!Next
    <2> QED
        BY <1>0, <2>2, <2>3, <2>4, EnqueueKeeps
<1>2. ASSUME NEW k \in Keys, SendVolatile(k)
      PROVE  [Stream!Next]_(Stream!streamVars)
    <2>1. /\ queue' = EnqueueLatest(queue, k)
          /\ received' = received /\ shown' = shown /\ goodbye' = goodbye
        BY <1>2 DEF SendVolatile, Untouched
    <2>2. CASE EnqueueLatest(queue, k) = queue
        BY <2>1, <2>2, Stutters
    <2>3. CASE /\ EnqueueLatest(queue, k).accepted = queue.accepted
               /\ EnqueueLatest(queue, k).cut = queue.cut
               /\ EnqueueLatest(queue, k).fresh = [queue.fresh EXCEPT ![k] = @ + 1]
        <3>1. \A m \in Keys : queue'.fresh[m] >= queue.fresh[m]
            BY <1>0, <2>1, <2>3
        <3>2. Stream!Renew
            BY <2>1, <2>3, <3>1 DEF Stream!Renew
        <3> QED
            BY <3>2 DEF Stream!Next
    <2> QED
        BY <1>0, <2>2, <2>3, EnqueueLatestKeeps
<1>3. CASE SendNoMore
    <2>1. /\ Finish(queue).accepted = queue.accepted
          /\ Finish(queue).fresh = queue.fresh /\ Finish(queue).cut = queue.cut
        BY <1>0, <1>3, FinishKeeps DEF SendNoMore
    <2> QED
        BY <1>3, <2>1, Stutters DEF SendNoMore, Untouched
<1>4. CASE StreamReads
    <2>1. Same(queue, Read(queue))
        BY <1>0, <1>4, ReadKeeps DEF StreamReads
    <2> QED
        BY <1>4, <2>1, Stutters DEF StreamReads, Untouched, Same
<1>5. CASE ClientReceives
    <2>1. /\ queue.pipe # <<>> /\ queue' = [queue EXCEPT !.pipe = Tail(@)]
          /\ goodbye' = goodbye /\ ~queue.cut
        BY <1>5 DEF ClientReceives, Alive
    <2>2. /\ queue'.accepted = queue.accepted /\ queue'.fresh = queue.fresh
          /\ queue'.cut = queue.cut /\ ~goodbye
        BY <1>0, <2>1 DEF QueueRecords
    <2>3. CASE Head(queue.pipe).lane = "critical"
        <3>1. received' = Head(queue.pipe).number /\ shown' = shown
            BY <1>5, <2>3 DEF ClientReceives
        <3>2. received' = received + 1 /\ received < queue.accepted
            BY <2>1, <2>3, <3>1, CriticalReceived
        <3>3. Stream!ReceiveCritical
            BY <2>1, <2>2, <3>1, <3>2 DEF Stream!ReceiveCritical
        <3> QED
            BY <3>3 DEF Stream!Next
    <2>4. CASE Head(queue.pipe).lane # "critical"
        <3>1. /\ received' = received
              /\ shown' = [shown EXCEPT ![Head(queue.pipe).key] = Head(queue.pipe).number]
            BY <1>5, <2>4 DEF ClientReceives
        <3>2. PICK k \in Keys : \E n \in (shown[k] + 1)..queue.fresh[k] :
                  shown' = [shown EXCEPT ![k] = n]
            BY <2>1, <2>4, <3>1, VolatileReceived
        <3>3. Stream!ReceiveVolatile(k)
            BY <2>1, <2>2, <3>1, <3>2 DEF Stream!ReceiveVolatile
        <3> QED
            BY <3>3 DEF Stream!Next
    <2> QED
        BY <2>3, <2>4
<1>6. CASE Cut
    BY <1>6, CutMaps DEF Cut
<1>7. CASE ClientSeesEnd
    <2>1. /\ queue.ended /\ queue.pipe = <<>> /\ ~queue.cut /\ ~goodbye
          /\ goodbye' /\ queue' = queue /\ received' = received /\ shown' = shown
        BY <1>7 DEF ClientSeesEnd, Alive
    <2>6. received = queue.accepted
        BY <2>1, AllReceived
    <2>7. Stream!Complete
        BY <2>1, <2>6 DEF Stream!Complete
    <2> QED
        BY <2>7 DEF Stream!Next
<1>8. CASE Destroy
    <2>1. /\ queue'.accepted = queue.accepted /\ queue'.fresh = queue.fresh
          /\ queue'.cut = queue.cut
        BY <1>0, <1>8 DEF Destroy, QueueRecords
    <2> QED
        BY <1>8, <2>1, Stutters DEF Destroy, Untouched
<1>9. CASE UNCHANGED queueVars
    BY <1>9, Stutters DEF queueVars
<1> QED
    BY <1>1, <1>2, <1>3, <1>4, <1>5, <1>6, <1>7, <1>8, <1>9 DEF Next

\* Whatever the limit, the room of the socket and the order of the calls, a
\* client receives every accepted frame once and in order up to where its
\* connection is cut, and a polite end comes after the last of them
\* (outbound.ts, and close in session.ts:87-96).
THEOREM QueueKeepsStream == Spec => KeepsStream
<1>1. Init => Stream!Init
    BY InitMaps
<1>2. QueueInv /\ [Next]_queueVars => [Stream!Next]_(Stream!streamVars)
    BY StepMaps
<1> QED
    BY <1>1, <1>2, SpecInv, PTL DEF Spec, KeepsStream, Stream!Spec

-----------------------------------------------------------------------------
(* The session over the queue: what its frames say.                        *)

AnswerFrames ==
    [what : {"answer"}, request : Nat, how : {"ok", "failed", "refused"}]
EventFrames == [what : {"event"}, number : Nat, during : Nat]
Contents == AnswerFrames \cup EventFrames \cup {Speakers}

IsAnswer(c) == c.what = "answer"
IsEvent(c) == c.what = "event"

-----------------------------------------------------------------------------
(* The inductive invariant.                                                *)

SessionTypes ==
    /\ log \in Seq(Contents) /\ Len(log) = queue.accepted
    /\ inbox \in Seq(Requests)
    /\ sent \in Nat /\ raised \in Nat /\ snapshot \in 0..raised /\ refused \in Nat
    /\ handling \in Requests \cup {None}
    /\ result \in {None, "ok", "failed"}
    /\ {holding, identified, serverClose, killTimer} \subseteq BOOLEAN
    /\ held \in Seq(EventFrames \cup {Speakers})

\* Events are held exactly while a request is served; a connection that fell
\* is in no room.
Control ==
    /\ queue.finishing = serverClose
    /\ handling = None => result = None
    /\ holding => handling # None
    /\ handling # None /\ ~queue.destroyed => holding
    /\ ~holding => held = <<>>
    /\ identified => ~queue.destroyed
    /\ ~identified => held = <<>>

\* Requests are numbered as they were sent, and taken up in that order.
Numbered ==
    /\ Len(inbox) <= sent
    /\ \A i \in 1..Len(inbox) : inbox[i].id = (sent - Len(inbox)) + i
    /\ handling # None => Len(inbox) < sent /\ handling.id = sent - Len(inbox)

\* How many requests are done with.
Settled ==
    IF handling = None THEN sent - Len(inbox) ELSE (sent - Len(inbox)) - 1

\* Of the first d of a log: the answers are those to 1, 2, 3...
InTurn(lg, d) ==
    /\ \A i, j \in 1..d : IsAnswer(lg[i]) /\ IsAnswer(lg[j]) /\ i < j
           => lg[i].request < lg[j].request
    /\ \A i \in 1..d : IsAnswer(lg[i]) =>
           \A n \in 1..(lg[i].request - 1) :
               \E j \in 1..d : IsAnswer(lg[j]) /\ lg[j].request = n

\* Of the first d of a log: each event comes after its answer.
AfterAnswers(lg, d) ==
    \A i \in 1..d : IsEvent(lg[i]) =>
        /\ \E j \in 1..(i - 1) : IsAnswer(lg[j]) /\ lg[j].how = "ok"
        /\ lg[i].during # 0 =>
               \E j \in 1..(i - 1) : IsAnswer(lg[j]) /\ lg[j].request = lg[i].during

\* The log holds the answers to the first n requests, and no others.
AnsweredUpTo(lg, n) ==
    /\ \A i \in 1..Len(lg) : IsAnswer(lg[i]) => lg[i].request \in 1..n
    /\ \A m \in 1..n : \E i \in 1..Len(lg) : IsAnswer(lg[i]) /\ lg[i].request = m

\* The log and what is held after its first k are the events first..last.
Gapless(lg, hd, k, first, last) ==
    /\ \A i, j \in 1..Len(lg) : IsEvent(lg[i]) /\ IsEvent(lg[j]) /\ i < j
           => lg[i].number < lg[j].number
    /\ \A i, j \in (k + 1)..Len(hd) : IsEvent(hd[i]) /\ IsEvent(hd[j]) /\ i < j
           => hd[i].number < hd[j].number
    /\ \A i \in 1..Len(lg), j \in (k + 1)..Len(hd) : IsEvent(lg[i]) /\ IsEvent(hd[j])
           => lg[i].number < hd[j].number
    /\ \A i \in 1..Len(lg) : IsEvent(lg[i]) => lg[i].number \in first..last
    /\ \A j \in (k + 1)..Len(hd) : IsEvent(hd[j]) => hd[j].number \in first..last
    /\ \A n \in first..last :
           \/ \E i \in 1..Len(lg) : IsEvent(lg[i]) /\ lg[i].number = n
           \/ \E j \in (k + 1)..Len(hd) : IsEvent(hd[j]) /\ hd[j].number = n

Welcomed(lg) == \E i \in 1..Len(lg) : IsAnswer(lg[i]) /\ lg[i].how = "ok"

Refusal(lg, n) == \E i \in 1..Len(lg) : lg[i] = Answer([id |-> n], "refused")

\* What the log says of the requests, and of the room's events.
AnswersAreSound ==
    /\ InTurn(log, Deliverable)
    /\ ~Closing /\ ~queue.cut => AnsweredUpTo(log, Settled)
    /\ refused # 0 => Refusal(log, refused) \/ (queue.cut /\ ~goodbye)

EventsAreSound ==
    /\ AfterAnswers(log, Deliverable)
    /\ \A i \in 1..Len(held) : IsEvent(held[i]) => held[i].during = handling.id
    /\ ~identified /\ ~queue.destroyed =>
           \A i \in 1..Len(log) : ~IsEvent(log[i])
    /\ identified /\ ~Closing /\ ~queue.cut =>
           /\ Gapless(log, held, 0, snapshot + 1, raised)
           /\ Welcomed(log) \/ (holding /\ result = "ok")

SessionInv ==
    /\ QueueInv /\ SessionTypes /\ Control /\ Numbered
    /\ AnswersAreSound /\ EventsAreSound

-----------------------------------------------------------------------------
(* Contents of the log.                                                    *)

LEMMA ContentKinds ==
    /\ Speakers \in Contents /\ ~IsAnswer(Speakers) /\ ~IsEvent(Speakers)
    /\ \A c \in AnswerFrames :
           /\ c \in Contents /\ IsAnswer(c) /\ ~IsEvent(c) /\ c # Speakers
           /\ c.request \in Nat
    /\ \A c \in EventFrames :
           /\ c \in Contents /\ IsEvent(c) /\ ~IsAnswer(c) /\ c # Speakers
           /\ c.number \in Nat /\ c.during \in Nat
BY DEF Contents, AnswerFrames, EventFrames, Speakers, IsAnswer, IsEvent

LEMMA ContentIs ==
    ASSUME NEW c \in Contents
    PROVE  /\ IsAnswer(c) => c \in AnswerFrames
           /\ IsEvent(c) => c \in EventFrames
           /\ c # Speakers => c \in AnswerFrames \cup EventFrames
BY DEF Contents, AnswerFrames, EventFrames, Speakers, IsAnswer, IsEvent

-----------------------------------------------------------------------------
(* What the queue and its log may become.                                  *)

Records == [queue : QueueRecords, log : Seq(Contents)]

Sound(s) ==
    /\ s \in Records /\ Tidy(s.queue)
    /\ \A k \in Keys : shown[k] <= s.queue.fresh[k]
    /\ Len(s.log) = s.queue.accepted

Extends(lg, longer) ==
    Len(lg) <= Len(longer) /\ \A i \in 1..Len(lg) : longer[i] = lg[i]

\* Frames were accepted, or the connection cut; a queue that is closing is
\* as it was.
Grows(s, t) ==
    /\ Sound(t)
    /\ Extends(s.log, t.log)
    /\ s.queue.accepted <= t.queue.accepted
    /\ \A k \in Keys : s.queue.fresh[k] <= t.queue.fresh[k]
    /\ s.queue.cut => t.queue.cut
    /\ t.queue.finishing = s.queue.finishing
    /\ t.queue.destroyed = s.queue.destroyed
    /\ s.queue.finishing \/ s.queue.destroyed => t = s

LEMMA GrowsNot ==
    ASSUME NEW s, Sound(s)
    PROVE  Grows(s, s)
<1>1. /\ s.queue.accepted \in Nat /\ s.queue.fresh \in [Keys -> Nat]
      /\ Len(s.log) \in Nat
    BY LenProperties DEF Sound, Records, QueueRecords
<1> QED
    BY <1>1 DEF Grows, Extends

LEMMA GrowsOn ==
    ASSUME NEW s, NEW t, NEW u, Sound(s), Grows(s, t), Grows(t, u)
    PROVE  Grows(s, u)
<1>1. /\ \A x \in {s, t, u} :
             /\ x.queue.accepted \in Nat /\ x.queue.fresh \in [Keys -> Nat]
             /\ Len(x.log) \in Nat
    BY LenProperties DEF Grows, Sound, Records, QueueRecords
<1>2. Extends(s.log, u.log)
    BY <1>1 DEF Grows, Extends
<1>3. s.queue.accepted <= u.queue.accepted
    BY <1>1 DEF Grows
<1>4. \A k \in Keys : s.queue.fresh[k] <= u.queue.fresh[k]
    <2> SUFFICES ASSUME NEW k \in Keys
                 PROVE  s.queue.fresh[k] <= u.queue.fresh[k]
        OBVIOUS
    <2>1. s.queue.fresh[k] \in Nat /\ t.queue.fresh[k] \in Nat /\ u.queue.fresh[k] \in Nat
        BY <1>1
    <2>2. s.queue.fresh[k] <= t.queue.fresh[k] /\ t.queue.fresh[k] <= u.queue.fresh[k]
        BY DEF Grows
    <2> QED
        BY <2>1, <2>2
<1> QED
    BY <1>2, <1>3, <1>4 DEF Grows

\* One frame: it is the last of the log, or the queue is cut, or a value of
\* the speakers takes the place of another.
LEMMA PutGrows ==
    ASSUME ClientTypeOK, NEW s, Sound(s), NEW c \in Contents
    PROVE  /\ Grows(s, Put(s, c))
           /\ c = Speakers =>
                  /\ Put(s, c).log = s.log
                  /\ Put(s, c).queue.cut = s.queue.cut
           /\ c # Speakers /\ ~s.queue.finishing /\ ~s.queue.destroyed =>
                  \/ Put(s, c).log = s.log /\ Put(s, c).queue.cut
                  \/ /\ Put(s, c).log = Append(s.log, c)
                     /\ Put(s, c).queue.cut = s.queue.cut
<1>1. /\ s \in Records /\ s.queue \in QueueRecords /\ Tidy(s.queue)
      /\ s.queue.accepted \in Nat /\ s.queue.fresh \in [Keys -> Nat]
      /\ s.queue.cut \in BOOLEAN
      /\ s.log \in Seq(Contents) /\ Len(s.log) = s.queue.accepted
      /\ \A k \in Keys : shown[k] <= s.queue.fresh[k]
    BY DEF Sound, Records, QueueRecords
<1>a. \A k \in Keys : s.queue.fresh[k] <= s.queue.fresh[k]
    <2>1. \A k \in Keys : s.queue.fresh[k] \in Nat
        BY <1>1
    <2>2. \A n \in Nat : n <= n
        OBVIOUS
    <2> QED
        BY <2>1, <2>2
<1> DEFINE key == CHOOSE k \in Keys : TRUE
           q == IF c = Speakers THEN EnqueueLatest(s.queue, key)
                                ELSE Enqueue(s.queue)
<1>b. key \in Keys
    <2>1. \E k \in Keys : TRUE
        BY SessionAssumption
    <2> QED
        BY <2>1, Zenon
<1>3. PICK t : t = Put(s, c)
    OBVIOUS
<1>4. t = [queue |-> q,
           log |-> IF q.accepted > s.queue.accepted
                   THEN Append(s.log, c) ELSE s.log]
    BY <1>3 DEF Put
<1> HIDE DEF key
<1>2. /\ c = Speakers => q = EnqueueLatest(s.queue, key)
      /\ c # Speakers => q = Enqueue(s.queue)
    OBVIOUS
<1> HIDE DEF q
<1>5. t.queue = q /\ (~(q.accepted > s.queue.accepted) => t.log = s.log)
      /\ (q.accepted > s.queue.accepted => t.log = Append(s.log, c))
    BY <1>4
<1>6. CASE q = s.queue
    <2>1. t.log = s.log /\ t.queue = s.queue
        BY <1>1, <1>5, <1>6
    <2>2. t = s
        BY <1>1, <1>4, <2>1 DEF Records
    <2>3. Grows(s, t)
        BY <2>2, GrowsNot
    <2>4. c # Speakers /\ ~s.queue.finishing /\ ~s.queue.destroyed => s.queue.cut
        <3> SUFFICES ASSUME c # Speakers, ~s.queue.finishing, ~s.queue.destroyed
                     PROVE  s.queue.cut
            OBVIOUS
        <3>1. s.queue = Enqueue(s.queue)
            BY <1>2, <1>6
        <3>2. s.queue.accepted # s.queue.accepted + 1
            BY <1>1
        <3>3. CASE Enqueue(s.queue) = [s.queue EXCEPT !.cut = TRUE]
            <4>1. [s.queue EXCEPT !.cut = TRUE].cut
                BY <1>1 DEF QueueRecords
            <4> QED
                BY <3>1, <3>3, <4>1
        <3> QED
            BY <1>1, <3>1, <3>2, <3>3, EnqueueKeeps
    <2> QED
        BY <1>1, <1>3, <2>1, <2>3, <2>4
<1>7. CASE q # s.queue /\ c = Speakers
    <2>1. PICK k \in Keys : q = EnqueueLatest(s.queue, k)
        BY <1>2, <1>7, <1>b
    <2>2. /\ Tidy(q) /\ ~s.queue.finishing
          /\ q.accepted = s.queue.accepted /\ q.cut = s.queue.cut
          /\ q.finishing = s.queue.finishing /\ q.destroyed = s.queue.destroyed
          /\ q.fresh = [s.queue.fresh EXCEPT ![k] = @ + 1]
        BY <1>1, <1>7, <2>1, EnqueueLatestKeeps
    <2>3. ~s.queue.destroyed
        BY <1>7, <2>1 DEF EnqueueLatest
    <2>4. t.log = s.log /\ t.queue = q
        BY <1>1, <1>5, <2>2
    <2>5. \A m \in Keys : s.queue.fresh[m] <= q.fresh[m] /\ shown[m] <= q.fresh[m]
        <3> SUFFICES ASSUME NEW m \in Keys
                     PROVE  s.queue.fresh[m] <= q.fresh[m] /\ shown[m] <= q.fresh[m]
            OBVIOUS
        <3>1. s.queue.fresh[m] \in Nat /\ shown[m] \in Nat
            BY <1>1 DEF ClientTypeOK
        <3>2. q.fresh[m] \in {s.queue.fresh[m], s.queue.fresh[m] + 1}
            BY <1>1, <2>2
        <3>3. shown[m] <= s.queue.fresh[m]
            BY <1>1
        <3> QED
            BY <3>1, <3>2, <3>3
    <2>6. q \in QueueRecords
        BY <2>2 DEF Tidy, Shape
    <2>7. Sound(t)
        BY <1>1, <1>4, <2>2, <2>4, <2>5, <2>6 DEF Sound, Records
    <2>8. Len(s.log) \in Nat
        BY <1>1
    <2>9. Grows(s, t)
        BY <1>1, <2>2, <2>3, <2>4, <2>5, <2>7, <2>8 DEF Grows, Extends
    <2> QED
        BY <1>3, <1>7, <2>2, <2>4, <2>9
<1>8. CASE q # s.queue /\ c # Speakers
    <2>1. q = Enqueue(s.queue)
        BY <1>2, <1>8
    <2>2. ~s.queue.finishing /\ ~s.queue.destroyed
        BY <1>8, <2>1 DEF Enqueue
    <2>3. CASE q = [s.queue EXCEPT !.cut = TRUE]
        <3>1. /\ q \in QueueRecords /\ q.cut
              /\ q.critical = s.queue.critical /\ q.latest = s.queue.latest
              /\ q.pipe = s.queue.pipe /\ q.accepted = s.queue.accepted
              /\ q.fresh = s.queue.fresh /\ q.wanted = s.queue.wanted
              /\ q.ended = s.queue.ended /\ q.finishing = s.queue.finishing
              /\ q.destroyed = s.queue.destroyed
            BY <1>1, <2>3 DEF QueueRecords
        <3>2. Tidy(q)
            BY <1>1, <3>1, FlagsApart
        <3>3. t.log = s.log /\ t.queue = q
            BY <1>1, <1>5, <3>1
        <3>4. Sound(t)
            BY <1>1, <1>4, <3>1, <3>2, <3>3 DEF Sound, Records
        <3>5. Len(s.log) \in Nat
            BY <1>1
        <3>6. \A k \in Keys : s.queue.fresh[k] <= q.fresh[k]
            BY <1>a, <3>1
        <3>7. Grows(s, t)
            BY <1>1, <2>2, <3>1, <3>3, <3>4, <3>5, <3>6 DEF Grows, Extends
        <3> QED
            BY <1>3, <1>8, <3>1, <3>3, <3>7
    <2>4. CASE /\ Tidy(q)
               /\ q.accepted = s.queue.accepted + 1
               /\ q.fresh = s.queue.fresh /\ q.cut = s.queue.cut
               /\ q.finishing = s.queue.finishing
               /\ q.destroyed = s.queue.destroyed
        <3>1. t.log = Append(s.log, c) /\ t.queue = q
            BY <1>1, <1>5, <2>4
        <3>2. /\ t.log \in Seq(Contents) /\ Len(t.log) = Len(s.log) + 1
              /\ \A i \in 1..Len(s.log) : t.log[i] = s.log[i]
            BY <1>1, <3>1, AppendProperties
        <3>3. q \in QueueRecords
            BY <2>4 DEF Tidy, Shape
        <3>4. Sound(t)
            BY <1>1, <1>4, <2>4, <3>1, <3>2, <3>3 DEF Sound, Records
        <3>5. \A k \in Keys : s.queue.fresh[k] <= q.fresh[k]
            BY <1>a, <2>4
        <3>6. Grows(s, t)
            BY <1>1, <2>2, <2>4, <3>1, <3>2, <3>4, <3>5 DEF Grows, Extends
        <3> QED
            BY <1>3, <1>8, <2>4, <3>1, <3>6
    <2> QED
        BY <1>1, <1>8, <2>1, <2>3, <2>4, EnqueueKeeps
<1> QED
    BY <1>6, <1>7, <1>8

-----------------------------------------------------------------------------
(* The flush: the induction over what was held.                            *)

\* A set of naturals that is not empty has a least member.
LEMMA Least ==
    ASSUME NEW T \in SUBSET Nat, T # {}
    PROVE  \E x \in T : \A y \in T : x <= y
<1> DEFINE R == {ss \in Nat \X Nat : ss[1] < ss[2]}
<1>1. R = OpToRel(<, Nat)
    BY Zenon DEF OpToRel
<1>2. IsWellFoundedOn(R, Nat)
    BY <1>1, NatLessThanWellFounded, Zenon
<1>3. PICK x \in T : \A y \in T : ~(<<y, x>> \in R)
    <2> HIDE DEF R
    <2> QED
        BY <1>2, WFMin
<1>4. \A y \in T : ~(y < x)
    BY <1>3
<1> QED
    BY <1>4

IsRun(run, s, n) ==
    run = [i \in 0..n |-> IF i = 0 THEN s ELSE Put(run[i - 1], held[i])]

\* Of every length there is a run: the shortest length without one would have
\* one, the run before it and one step more.
LEMMA RunExists ==
    ASSUME NEW s, NEW m \in Nat
    PROVE  \E run : IsRun(run, s, m)
<1> DEFINE T == {n \in Nat : ~\E run : IsRun(run, s, n)}
<1>1. ASSUME T # {} PROVE FALSE
    <2>0. T \in SUBSET Nat
        OBVIOUS
    <2>1. PICK n \in T : \A y \in T : n <= y
        <3> HIDE DEF T
        <3> QED
            BY <1>1, <2>0, Least
    <2>2. n # 0
        <3>1. IsRun([i \in 0..0 |-> s], s, 0)
            BY DEF IsRun
        <3> QED
            BY <2>1, <3>1
    <2>3. n - 1 \in Nat /\ n - 1 \notin T
        BY <2>1, <2>2
    <2>4. PICK run : IsRun(run, s, n - 1)
        BY <2>3
    <2>5. PICK next : next = [i \in 0..n |-> IF i = n THEN Put(run[n - 1], held[n])
                                                      ELSE run[i]]
        OBVIOUS
    <2>6. ASSUME NEW i \in 0..n
          PROVE  next[i] = IF i = 0 THEN s ELSE Put(next[i - 1], held[i])
        <3>1. CASE i = n
            BY <2>2, <2>3, <2>5, <3>1
        <3>2. CASE i # n /\ i # 0
            <4>1. i \in 0..(n - 1) /\ i - 1 \in 0..(n - 1)
                BY <2>3, <3>2
            <4>2. run[i] = Put(run[i - 1], held[i])
                BY <2>4, <3>2, <4>1 DEF IsRun
            <4>3. next[i] = run[i] /\ next[i - 1] = run[i - 1]
                BY <2>5, <3>2, <4>1
            <4> QED
                BY <3>2, <4>2, <4>3
        <3>3. CASE i = 0
            <4>1. run[0] = s
                BY <2>3, <2>4 DEF IsRun
            <4> QED
                BY <2>2, <2>5, <3>3, <4>1
        <3> QED
            BY <3>1, <3>2, <3>3
    <2>7. IsRun(next, s, n)
        BY <2>5, <2>6 DEF IsRun
    <2> QED
        BY <2>1, <2>7
<1> QED
    BY <1>1

LEMMA FlushedIs ==
    ASSUME NEW s, Len(held) \in Nat
    PROVE  \E run : IsRun(run, s, Len(held)) /\ Flushed(s) = run[Len(held)]
<1>1. PICK run : IsRun(run, s, Len(held))
    BY RunExists
<1>2. \E f : f = [i \in 0..Len(held) |-> IF i = 0 THEN s ELSE Put(f[i - 1], held[i])]
    BY <1>1 DEF IsRun
<1> QED
    BY <1>2 DEF Flushed, IsRun

\* G[i] is a set of states that holds the one after the first i.
LEMMA FlushReaches ==
    ASSUME NEW s, Len(held) \in Nat, NEW G,
           s \in G[0],
           \A i \in 1..Len(held) : \A t \in G[i - 1] : Put(t, held[i]) \in G[i]
    PROVE  Flushed(s) \in G[Len(held)]
<1>1. PICK run : IsRun(run, s, Len(held)) /\ Flushed(s) = run[Len(held)]
    BY FlushedIs
<1> DEFINE T == {n \in 0..Len(held) : run[n] \notin G[n]}
<1>2. ASSUME T # {} PROVE FALSE
    <2>0. T \in SUBSET Nat
        OBVIOUS
    <2>1. PICK n \in T : \A y \in T : n <= y
        <3> HIDE DEF T
        <3> QED
            BY <1>2, <2>0, Least
    <2>2. run[0] = s
        BY <1>1 DEF IsRun
    <2>3. n # 0
        BY <2>1, <2>2
    <2>4. n - 1 \in 0..Len(held) /\ n \in 1..Len(held) /\ n - 1 \notin T
        BY <2>1, <2>3
    <2>5. run[n] = Put(run[n - 1], held[n])
        BY <1>1, <2>4 DEF IsRun
    <2> QED
        BY <2>1, <2>4, <2>5
<1> QED
    BY <1>1, <1>2

\* Nothing is flushed to a queue that closes, nor when nothing is held.
LEMMA FlushedNot ==
    ASSUME ClientTypeOK, NEW s, Sound(s), held \in Seq(EventFrames \cup {Speakers}),
           s.queue.finishing \/ s.queue.destroyed \/ held = <<>>
    PROVE  Flushed(s) = s
<1>1. Len(held) \in Nat
    BY LenProperties
<1> DEFINE G == [i \in 0..Len(held) |-> {s}]
<1>2. s \in G[0]
    BY <1>1
<1>3. ASSUME NEW i \in 1..Len(held), NEW t \in G[i - 1]
      PROVE  Put(t, held[i]) \in G[i]
    <2>1. t = s
        BY <1>1
    <2>2. s.queue.finishing \/ s.queue.destroyed
        BY <1>1, EmptySeq
    <2>3. held[i] \in Contents
        BY ElementOfSeq DEF Contents
    <2>4. Put(s, held[i]) = s
        BY <2>2, <2>3, PutGrows DEF Grows
    <2> QED
        BY <1>1, <2>1, <2>4
<1>4. G[Len(held)] = {s}
    BY <1>1
<1> HIDE DEF G
<1>5. Flushed(s) \in G[Len(held)]
    BY <1>1, <1>2, <1>3, FlushReaches
<1> QED
    BY <1>4, <1>5

-----------------------------------------------------------------------------
(* What one more frame makes of the log.                                   *)

\* A part of what was in turn is in turn.
LEMMA ShorterIsSound ==
    ASSUME NEW lg, NEW longer, NEW d \in Nat, NEW e \in 0..d,
           \A i \in 1..d : lg[i] \in Contents /\ longer[i] = lg[i]
    PROVE  /\ InTurn(lg, d) => InTurn(longer, e)
           /\ AfterAnswers(lg, d) => AfterAnswers(longer, e)
<1>1. e \in Nat /\ 1..e \subseteq 1..d /\ \A i \in 1..e : i - 1 \in 0..d
    OBVIOUS
<1>2. \A i \in 1..e : longer[i] = lg[i]
    BY <1>1
<1>3. ASSUME InTurn(lg, d) PROVE InTurn(longer, e)
    <2>1. \A i, j \in 1..e : IsAnswer(longer[i]) /\ IsAnswer(longer[j]) /\ i < j
              => longer[i].request < longer[j].request
        BY <1>1, <1>2, <1>3 DEF InTurn
    <2>2. ASSUME NEW i \in 1..e, IsAnswer(longer[i]),
                 NEW n \in 1..(longer[i].request - 1)
          PROVE  \E j \in 1..e : IsAnswer(longer[j]) /\ longer[j].request = n
        <3>1. i \in 1..d /\ lg[i] = longer[i] /\ lg[i] \in Contents
            BY <1>1, <1>2
        <3>2. lg[i].request \in Nat
            BY <2>2, <3>1, ContentIs, ContentKinds
        <3>3. PICK j \in 1..d : IsAnswer(lg[j]) /\ lg[j].request = n
            BY <1>3, <2>2, <3>1 DEF InTurn
        <3>4. ~(i < j)
            BY <1>3, <2>2, <3>1, <3>2, <3>3 DEF InTurn
        <3>5. j \in 1..e
            BY <1>1, <3>4
        <3> QED
            BY <1>2, <3>3, <3>5
    <2> QED
        BY <2>1, <2>2 DEF InTurn
<1>4. ASSUME AfterAnswers(lg, d) PROVE AfterAnswers(longer, e)
    <2> SUFFICES ASSUME NEW i \in 1..e, IsEvent(longer[i])
                 PROVE  /\ \E j \in 1..(i - 1) : IsAnswer(longer[j]) /\ longer[j].how = "ok"
                        /\ longer[i].during # 0 =>
                               \E j \in 1..(i - 1) : IsAnswer(longer[j])
                                   /\ longer[j].request = longer[i].during
        BY DEF AfterAnswers
    <2>1. i \in 1..d /\ longer[i] = lg[i]
        BY <1>1, <1>2
    <2>2. \A j \in 1..(i - 1) : longer[j] = lg[j]
        BY <1>1, <1>2
    <2> QED
        BY <1>4, <2>1, <2>2 DEF AfterAnswers
<1> QED
    BY <1>3, <1>4

\* The answer to the next request.
LEMMA AnswerAppended ==
    ASSUME NEW lg \in Seq(Contents), NEW n \in Nat, NEW c \in AnswerFrames,
           InTurn(lg, Len(lg)), AnsweredUpTo(lg, n), c.request = n + 1
    PROVE  /\ InTurn(Append(lg, c), Len(lg) + 1)
           /\ AnsweredUpTo(Append(lg, c), n + 1)
<1>1. PICK L : L = Append(lg, c)
    OBVIOUS
<1>2. /\ Len(lg) \in Nat /\ c \in Contents /\ IsAnswer(c)
      /\ Len(L) = Len(lg) + 1 /\ L[Len(lg) + 1] = c
      /\ \A i \in 1..Len(lg) : L[i] = lg[i]
    BY <1>1, LenProperties, AppendProperties, ContentKinds
<1>3. \A i \in 1..(Len(lg) + 1) : i \in 1..Len(lg) \/ i = Len(lg) + 1
    BY <1>2
<1>4. \A i \in 1..Len(lg) : IsAnswer(lg[i]) =>
          lg[i].request \in 1..n /\ lg[i].request < n + 1
    BY DEF AnsweredUpTo
<1>5. \A i, j \in 1..(Len(lg) + 1) : IsAnswer(L[i]) /\ IsAnswer(L[j]) /\ i < j
          => L[i].request < L[j].request
    <2> SUFFICES ASSUME NEW i \in 1..(Len(lg) + 1), NEW j \in 1..(Len(lg) + 1),
                        IsAnswer(L[i]), IsAnswer(L[j]), i < j
                 PROVE  L[i].request < L[j].request
        OBVIOUS
    <2>1. i \in 1..Len(lg)
        BY <1>2
    <2>2. CASE j = Len(lg) + 1
        BY <1>2, <1>4, <2>1, <2>2
    <2>3. CASE j \in 1..Len(lg)
        BY <1>2, <2>1, <2>3 DEF InTurn
    <2> QED
        BY <1>3, <2>2, <2>3
<1>6. \A m \in 1..(n + 1) : \E j \in 1..(Len(lg) + 1) : IsAnswer(L[j]) /\ L[j].request = m
    <2> SUFFICES ASSUME NEW m \in 1..(n + 1)
                 PROVE  \E j \in 1..(Len(lg) + 1) : IsAnswer(L[j]) /\ L[j].request = m
        OBVIOUS
    <2>1. CASE m = n + 1
        <3>1. Len(lg) + 1 \in 1..(Len(lg) + 1)
            BY <1>2
        <3> QED
            BY <1>2, <2>1, <3>1
    <2>2. CASE m \in 1..n
        <3>1. PICK j \in 1..Len(lg) : IsAnswer(lg[j]) /\ lg[j].request = m
            BY <2>2 DEF AnsweredUpTo
        <3>2. j \in 1..(Len(lg) + 1)
            BY <1>2
        <3> QED
            BY <1>2, <3>1, <3>2
    <2> QED
        BY <2>1, <2>2
<1>7. \A i \in 1..(Len(lg) + 1) : IsAnswer(L[i]) => L[i].request \in 1..(n + 1)
    <2> SUFFICES ASSUME NEW i \in 1..(Len(lg) + 1), IsAnswer(L[i])
                 PROVE  L[i].request \in 1..(n + 1)
        OBVIOUS
    <2>1. CASE i = Len(lg) + 1
        BY <1>2, <2>1
    <2>2. CASE i \in 1..Len(lg)
        <3>1. L[i].request \in 1..n
            BY <1>2, <1>4, <2>2
        <3> QED
            BY <3>1
    <2> QED
        BY <1>3, <2>1, <2>2
<1>8. \A i \in 1..(Len(lg) + 1) : IsAnswer(L[i]) =>
          \A m \in 1..(L[i].request - 1) :
              \E j \in 1..(Len(lg) + 1) : IsAnswer(L[j]) /\ L[j].request = m
    <2> SUFFICES ASSUME NEW i \in 1..(Len(lg) + 1), IsAnswer(L[i]),
                        NEW m \in 1..(L[i].request - 1)
                 PROVE  m \in 1..(n + 1)
        BY <1>6
    <2>1. L[i].request \in 1..(n + 1)
        BY <1>7
    <2> QED
        BY <2>1
<1> QED
    BY <1>1, <1>2, <1>5, <1>6, <1>7, <1>8 DEF InTurn, AnsweredUpTo

\* An event leaves the answers as they are.
LEMMA EventAppended ==
    ASSUME NEW lg \in Seq(Contents), NEW n \in Nat, NEW c \in EventFrames,
           InTurn(lg, Len(lg)), AnsweredUpTo(lg, n)
    PROVE  /\ InTurn(Append(lg, c), Len(lg) + 1)
           /\ AnsweredUpTo(Append(lg, c), n)
<1>1. PICK L : L = Append(lg, c)
    OBVIOUS
<1>2. /\ Len(lg) \in Nat /\ c \in Contents /\ ~IsAnswer(c)
      /\ Len(L) = Len(lg) + 1 /\ L[Len(lg) + 1] = c
      /\ \A i \in 1..Len(lg) : L[i] = lg[i]
    BY <1>1, LenProperties, AppendProperties, ContentKinds
<1>3. \A i \in 1..(Len(lg) + 1) : IsAnswer(L[i]) => i \in 1..Len(lg)
    BY <1>2
<1>4. 1..Len(lg) \subseteq 1..(Len(lg) + 1)
    BY <1>2
<1>5. InTurn(L, Len(lg) + 1)
    <2>1. \A i, j \in 1..(Len(lg) + 1) : IsAnswer(L[i]) /\ IsAnswer(L[j]) /\ i < j
              => L[i].request < L[j].request
        BY <1>2, <1>3 DEF InTurn
    <2>2. ASSUME NEW i \in 1..(Len(lg) + 1), IsAnswer(L[i]),
                 NEW m \in 1..(L[i].request - 1)
          PROVE  \E j \in 1..(Len(lg) + 1) : IsAnswer(L[j]) /\ L[j].request = m
        <3>1. i \in 1..Len(lg) /\ L[i] = lg[i]
            BY <1>2, <1>3, <2>2
        <3>2. PICK j \in 1..Len(lg) : IsAnswer(lg[j]) /\ lg[j].request = m
            BY <2>2, <3>1 DEF InTurn
        <3> QED
            BY <1>2, <1>4, <3>2
    <2> QED
        BY <2>1, <2>2 DEF InTurn
<1>6. AnsweredUpTo(L, n)
    <2>1. \A i \in 1..Len(L) : IsAnswer(L[i]) => L[i].request \in 1..n
        BY <1>2, <1>3 DEF AnsweredUpTo
    <2>2. ASSUME NEW m \in 1..n
          PROVE  \E i \in 1..Len(L) : IsAnswer(L[i]) /\ L[i].request = m
        <3>1. PICK j \in 1..Len(lg) : IsAnswer(lg[j]) /\ lg[j].request = m
            BY DEF AnsweredUpTo
        <3> QED
            BY <1>2, <1>4, <3>1
    <2> QED
        BY <2>1, <2>2 DEF AnsweredUpTo
<1> QED
    BY <1>1, <1>5, <1>6

\* Whatever comes, the events before it keep their place; an event has its
\* own when somebody was welcomed and its request answered.
LEMMA PlaceKept ==
    ASSUME NEW lg \in Seq(Contents), NEW c \in Contents,
           AfterAnswers(lg, Len(lg)),
           IsEvent(c) =>
               /\ Welcomed(lg)
               /\ c.during # 0 => \E j \in 1..Len(lg) :
                      IsAnswer(lg[j]) /\ lg[j].request = c.during
    PROVE  /\ AfterAnswers(Append(lg, c), Len(lg) + 1)
           /\ Welcomed(lg) => Welcomed(Append(lg, c))
           /\ IsAnswer(c) /\ c.how = "ok" => Welcomed(Append(lg, c))
<1>1. PICK L : L = Append(lg, c)
    OBVIOUS
<1>2. /\ Len(lg) \in Nat
      /\ Len(L) = Len(lg) + 1 /\ L[Len(lg) + 1] = c
      /\ \A i \in 1..Len(lg) : L[i] = lg[i]
    BY <1>1, LenProperties, AppendProperties
<1>3. ASSUME NEW i \in 1..(Len(lg) + 1), IsEvent(L[i])
      PROVE  /\ \E j \in 1..(i - 1) : IsAnswer(L[j]) /\ L[j].how = "ok"
             /\ L[i].during # 0 =>
                    \E j \in 1..(i - 1) : IsAnswer(L[j]) /\ L[j].request = L[i].during
    <2>1. CASE i \in 1..Len(lg)
        <3>1. L[i] = lg[i] /\ \A j \in 1..(i - 1) : L[j] = lg[j]
            BY <1>2, <2>1
        <3> QED
            BY <1>3, <2>1, <3>1 DEF AfterAnswers
    <2>2. CASE i = Len(lg) + 1
        <3>1. i - 1 = Len(lg) /\ L[i] = c /\ IsEvent(c)
            BY <1>2, <1>3, <2>2
        <3>2. \E j \in 1..Len(lg) : IsAnswer(lg[j]) /\ lg[j].how = "ok"
            BY <3>1 DEF Welcomed
        <3> QED
            BY <1>2, <3>1, <3>2
    <2> QED
        BY <1>2, <2>1, <2>2
<1>4. AfterAnswers(L, Len(lg) + 1)
    BY <1>3 DEF AfterAnswers
<1>5. 1..Len(lg) \subseteq 1..Len(L) /\ Len(lg) + 1 \in 1..Len(L)
    BY <1>2
<1>6. Welcomed(lg) => Welcomed(L)
    BY <1>2, <1>5 DEF Welcomed
<1>7. IsAnswer(c) /\ c.how = "ok" => Welcomed(L)
    BY <1>2, <1>5 DEF Welcomed
<1> QED
    BY <1>1, <1>4, <1>6, <1>7

-----------------------------------------------------------------------------
(* What one more frame makes of the events.                                *)

\* An answer is no event.
LEMMA GaplessAnswered ==
    ASSUME NEW lg \in Seq(Contents), NEW hd, NEW k, NEW first, NEW last,
           NEW c \in AnswerFrames, Gapless(lg, hd, k, first, last)
    PROVE  Gapless(Append(lg, c), hd, k, first, last)
<1>1. PICK L : L = Append(lg, c)
    OBVIOUS
<1>2. /\ Len(lg) \in Nat /\ c \in Contents /\ ~IsEvent(c)
      /\ Len(L) = Len(lg) + 1 /\ L[Len(lg) + 1] = c
      /\ \A i \in 1..Len(lg) : L[i] = lg[i]
    BY <1>1, LenProperties, AppendProperties, ContentKinds
<1>3. \A i \in 1..Len(L) : IsEvent(L[i]) => i \in 1..Len(lg) /\ L[i] = lg[i]
    BY <1>2
<1>4. \A i, j \in 1..Len(L) : IsEvent(L[i]) /\ IsEvent(L[j]) /\ i < j
          => L[i].number < L[j].number
    BY <1>3 DEF Gapless
<1>5. \A i \in 1..Len(L), j \in (k + 1)..Len(hd) : IsEvent(L[i]) /\ IsEvent(hd[j])
          => L[i].number < hd[j].number
    BY <1>3 DEF Gapless
<1>6. \A i \in 1..Len(L) : IsEvent(L[i]) => L[i].number \in first..last
    BY <1>3 DEF Gapless
<1>7. ASSUME NEW n \in first..last
      PROVE  \/ \E i \in 1..Len(L) : IsEvent(L[i]) /\ L[i].number = n
             \/ \E j \in (k + 1)..Len(hd) : IsEvent(hd[j]) /\ hd[j].number = n
    <2>1. CASE \E i \in 1..Len(lg) : IsEvent(lg[i]) /\ lg[i].number = n
        <3>1. PICK i \in 1..Len(lg) : IsEvent(lg[i]) /\ lg[i].number = n
            BY <2>1
        <3>2. i \in 1..Len(L) /\ L[i] = lg[i]
            BY <1>2
        <3> QED
            BY <3>1, <3>2
    <2> QED
        BY <2>1 DEF Gapless
<1> QED
    BY <1>1, <1>4, <1>5, <1>6, <1>7 DEF Gapless

\* A value of the speakers leaves the list.
LEMMA GaplessPassed ==
    ASSUME NEW lg, NEW hd, NEW k \in Nat, NEW first, NEW last,
           Len(hd) \in Nat, ~IsEvent(hd[k + 1]), Gapless(lg, hd, k, first, last)
    PROVE  Gapless(lg, hd, k + 1, first, last)
<1>1. (k + 2)..Len(hd) \subseteq (k + 1)..Len(hd) /\ (k + 1) + 1 = k + 2
    OBVIOUS
<1>2. \A j \in (k + 1)..Len(hd) : j # k + 1 => j \in (k + 2)..Len(hd)
    OBVIOUS
<1>3. \A n \in first..last :
          \/ \E i \in 1..Len(lg) : IsEvent(lg[i]) /\ lg[i].number = n
          \/ \E j \in (k + 2)..Len(hd) : IsEvent(hd[j]) /\ hd[j].number = n
    BY <1>2 DEF Gapless
<1>4. /\ \A i, j \in (k + 2)..Len(hd) : IsEvent(hd[i]) /\ IsEvent(hd[j]) /\ i < j
             => hd[i].number < hd[j].number
      /\ \A i \in 1..Len(lg), j \in (k + 2)..Len(hd) : IsEvent(lg[i]) /\ IsEvent(hd[j])
             => lg[i].number < hd[j].number
      /\ \A j \in (k + 2)..Len(hd) : IsEvent(hd[j]) => hd[j].number \in first..last
    BY <1>1 DEF Gapless
<1> QED
    BY <1>1, <1>3, <1>4 DEF Gapless

\* The oldest held event goes from the list to the log.
LEMMA GaplessFlushed ==
    ASSUME NEW lg \in Seq(Contents), NEW hd, NEW k \in Nat, NEW first, NEW last,
           Len(hd) \in Nat, k + 1 <= Len(hd), hd[k + 1] \in EventFrames,
           Gapless(lg, hd, k, first, last)
    PROVE  Gapless(Append(lg, hd[k + 1]), hd, k + 1, first, last)
<1>1. PICK c \in EventFrames : c = hd[k + 1]
    OBVIOUS
<1>2. PICK L : L = Append(lg, c)
    OBVIOUS
<1>3. /\ Len(lg) \in Nat /\ c \in Contents /\ IsEvent(c)
      /\ Len(L) = Len(lg) + 1 /\ L[Len(lg) + 1] = c
      /\ \A i \in 1..Len(lg) : L[i] = lg[i]
    BY <1>2, LenProperties, AppendProperties, ContentKinds
<1>4. \A i \in 1..Len(L) : (i \in 1..Len(lg) /\ L[i] = lg[i]) \/ (i = Len(lg) + 1 /\ L[i] = c)
    BY <1>3
<1>5. (k + 2)..Len(hd) \subseteq (k + 1)..Len(hd) /\ (k + 1) + 1 = k + 2
      /\ k + 1 \in (k + 1)..Len(hd) /\ \A j \in (k + 2)..Len(hd) : k + 1 < j
    OBVIOUS
<1>6. \A j \in (k + 1)..Len(hd) : j # k + 1 => j \in (k + 2)..Len(hd)
    OBVIOUS
<1>7. \A i \in 1..Len(lg) : IsEvent(lg[i]) => lg[i].number < c.number
    BY <1>1, <1>3, <1>5 DEF Gapless
<1>8. c.number \in first..last
    BY <1>1, <1>3, <1>5 DEF Gapless
<1>9. \A j \in (k + 2)..Len(hd) : IsEvent(hd[j]) => c.number < hd[j].number
    BY <1>1, <1>3, <1>5 DEF Gapless
<1>10. \A i, j \in 1..Len(L) : IsEvent(L[i]) /\ IsEvent(L[j]) /\ i < j
           => L[i].number < L[j].number
    <2> SUFFICES ASSUME NEW i \in 1..Len(L), NEW j \in 1..Len(L),
                        IsEvent(L[i]), IsEvent(L[j]), i < j
                 PROVE  L[i].number < L[j].number
        OBVIOUS
    <2>1. i \in 1..Len(lg) /\ L[i] = lg[i]
        BY <1>3, <1>4
    <2>2. CASE j \in 1..Len(lg) /\ L[j] = lg[j]
        BY <2>1, <2>2 DEF Gapless
    <2>3. CASE L[j] = c
        BY <1>7, <2>1, <2>3
    <2> QED
        BY <1>4, <2>2, <2>3
<1>11. \A i \in 1..Len(L), j \in (k + 2)..Len(hd) : IsEvent(L[i]) /\ IsEvent(hd[j])
           => L[i].number < hd[j].number
    <2> SUFFICES ASSUME NEW i \in 1..Len(L), NEW j \in (k + 2)..Len(hd),
                        IsEvent(L[i]), IsEvent(hd[j])
                 PROVE  L[i].number < hd[j].number
        OBVIOUS
    <2>1. CASE i \in 1..Len(lg) /\ L[i] = lg[i]
        BY <1>5, <2>1 DEF Gapless
    <2>2. CASE L[i] = c
        BY <1>9, <2>2
    <2> QED
        BY <1>4, <2>1, <2>2
<1>12. \A i \in 1..Len(L) : IsEvent(L[i]) => L[i].number \in first..last
    BY <1>4, <1>8 DEF Gapless
<1>13. \A i, j \in (k + 2)..Len(hd) : IsEvent(hd[i]) /\ IsEvent(hd[j]) /\ i < j
           => hd[i].number < hd[j].number
    BY <1>5 DEF Gapless
<1>14. \A j \in (k + 2)..Len(hd) : IsEvent(hd[j]) => hd[j].number \in first..last
    BY <1>5 DEF Gapless
<1>15. ASSUME NEW n \in first..last
       PROVE  \/ \E i \in 1..Len(L) : IsEvent(L[i]) /\ L[i].number = n
              \/ \E j \in (k + 2)..Len(hd) : IsEvent(hd[j]) /\ hd[j].number = n
    <2>1. CASE \E i \in 1..Len(lg) : IsEvent(lg[i]) /\ lg[i].number = n
        <3>1. PICK i \in 1..Len(lg) : IsEvent(lg[i]) /\ lg[i].number = n
            BY <2>1
        <3>2. i \in 1..Len(L) /\ L[i] = lg[i]
            BY <1>3
        <3> QED
            BY <3>1, <3>2
    <2>2. CASE \E j \in (k + 1)..Len(hd) : IsEvent(hd[j]) /\ hd[j].number = n
        <3>1. PICK j \in (k + 1)..Len(hd) : IsEvent(hd[j]) /\ hd[j].number = n
            BY <2>2
        <3>2. CASE j = k + 1
            <4>1. Len(lg) + 1 \in 1..Len(L)
                BY <1>3
            <4> QED
                BY <1>1, <1>3, <3>1, <3>2, <4>1
        <3> QED
            BY <1>6, <3>1, <3>2
    <2> QED
        BY <2>1, <2>2 DEF Gapless
<1>16. Gapless(L, hd, k + 1, first, last)
    BY <1>5, <1>10, <1>11, <1>12, <1>13, <1>14, <1>15 DEF Gapless
<1> QED
    BY <1>1, <1>2, <1>16

\* A new event, delivered at once.
LEMMA GaplessDelivered ==
    ASSUME NEW lg \in Seq(Contents), NEW hd, Len(hd) = 0,
           NEW first \in Nat, NEW last \in Nat, first <= last + 1,
           NEW c \in EventFrames, c.number = last + 1,
           Gapless(lg, hd, 0, first, last)
    PROVE  Gapless(Append(lg, c), hd, 0, first, last + 1)
<1>1. PICK L : L = Append(lg, c)
    OBVIOUS
<1>2. /\ Len(lg) \in Nat /\ c \in Contents /\ IsEvent(c)
      /\ Len(L) = Len(lg) + 1 /\ L[Len(lg) + 1] = c
      /\ \A i \in 1..Len(lg) : L[i] = lg[i]
    BY <1>1, LenProperties, AppendProperties, ContentKinds
<1>3. \A i \in 1..Len(L) : (i \in 1..Len(lg) /\ L[i] = lg[i]) \/ (i = Len(lg) + 1 /\ L[i] = c)
    BY <1>2
<1>4. \A j \in (0 + 1)..Len(hd) : FALSE
    OBVIOUS
<1>5. \A i \in 1..Len(lg) : IsEvent(lg[i]) =>
          lg[i].number \in first..(last + 1) /\ lg[i].number < c.number
    <2> SUFFICES ASSUME NEW i \in 1..Len(lg), IsEvent(lg[i])
                 PROVE  lg[i].number \in first..(last + 1) /\ lg[i].number < c.number
        OBVIOUS
    <2>1. lg[i].number \in first..last
        BY DEF Gapless
    <2> QED
        BY <2>1
<1>6. c.number \in first..(last + 1)
    OBVIOUS
<1>7. \A i, j \in 1..Len(L) : IsEvent(L[i]) /\ IsEvent(L[j]) /\ i < j
          => L[i].number < L[j].number
    <2> SUFFICES ASSUME NEW i \in 1..Len(L), NEW j \in 1..Len(L),
                        IsEvent(L[i]), IsEvent(L[j]), i < j
                 PROVE  L[i].number < L[j].number
        OBVIOUS
    <2>1. i \in 1..Len(lg) /\ L[i] = lg[i]
        BY <1>2, <1>3
    <2>2. CASE j \in 1..Len(lg) /\ L[j] = lg[j]
        BY <2>1, <2>2 DEF Gapless
    <2>3. CASE L[j] = c
        BY <1>5, <2>1, <2>3
    <2> QED
        BY <1>3, <2>2, <2>3
<1>8. \A i \in 1..Len(L) : IsEvent(L[i]) => L[i].number \in first..(last + 1)
    BY <1>3, <1>5, <1>6
<1>9. ASSUME NEW n \in first..(last + 1)
      PROVE  \E i \in 1..Len(L) : IsEvent(L[i]) /\ L[i].number = n
    <2>1. CASE n = last + 1
        <3>1. Len(lg) + 1 \in 1..Len(L)
            BY <1>2
        <3> QED
            BY <1>2, <2>1, <3>1
    <2>2. CASE n \in first..last
        <3>1. PICK i \in 1..Len(lg) : IsEvent(lg[i]) /\ lg[i].number = n
            BY <1>4, <2>2 DEF Gapless
        <3>2. i \in 1..Len(L) /\ L[i] = lg[i]
            BY <1>2
        <3> QED
            BY <3>1, <3>2
    <2> QED
        BY <2>1, <2>2
<1> QED
    BY <1>1, <1>4, <1>7, <1>8, <1>9 DEF Gapless

\* A new frame, held: the event after the last, or no event.
LEMMA GaplessHeld ==
    ASSUME NEW lg, NEW hd \in Seq(EventFrames \cup {Speakers}),
           NEW c \in EventFrames \cup {Speakers},
           NEW first \in Nat, NEW last \in Nat, NEW next \in Nat,
           IF IsEvent(c) THEN next = last + 1 /\ c.number = next /\ first <= next
                         ELSE next = last,
           Gapless(lg, hd, 0, first, last)
    PROVE  Gapless(lg, Append(hd, c), 0, first, next)
<1>1. PICK H : H = Append(hd, c)
    OBVIOUS
<1>2. /\ Len(hd) \in Nat
      /\ Len(H) = Len(hd) + 1 /\ H[Len(hd) + 1] = c
      /\ \A i \in 1..Len(hd) : H[i] = hd[i]
    BY <1>1, LenProperties, AppendProperties
<1>3. \A i \in 1..Len(H) : (i \in 1..Len(hd) /\ H[i] = hd[i]) \/ (i = Len(hd) + 1 /\ H[i] = c)
    BY <1>2
<1>4. /\ first..last \subseteq first..next
      /\ \A n \in first..last : n <= next
      /\ IsEvent(c) => \A n \in first..last : n < next
    OBVIOUS
<1>5. IsEvent(c) => c.number \in first..next
    OBVIOUS
<1>6. /\ \A i \in 1..Len(hd) : IsEvent(hd[i]) => hd[i].number \in first..last
      /\ \A i \in 1..Len(lg) : IsEvent(lg[i]) => lg[i].number \in first..last
      /\ \A i, j \in 1..Len(lg) : IsEvent(lg[i]) /\ IsEvent(lg[j]) /\ i < j
             => lg[i].number < lg[j].number
      /\ \A i, j \in 1..Len(hd) : IsEvent(hd[i]) /\ IsEvent(hd[j]) /\ i < j
             => hd[i].number < hd[j].number
      /\ \A i \in 1..Len(lg), j \in 1..Len(hd) : IsEvent(lg[i]) /\ IsEvent(hd[j])
             => lg[i].number < hd[j].number
      /\ \A n \in first..last :
             \/ \E i \in 1..Len(lg) : IsEvent(lg[i]) /\ lg[i].number = n
             \/ \E j \in 1..Len(hd) : IsEvent(hd[j]) /\ hd[j].number = n
    BY DEF Gapless
<1>7. \A i, j \in 1..Len(H) : IsEvent(H[i]) /\ IsEvent(H[j]) /\ i < j
          => H[i].number < H[j].number
    <2> SUFFICES ASSUME NEW i \in 1..Len(H), NEW j \in 1..Len(H),
                        IsEvent(H[i]), IsEvent(H[j]), i < j
                 PROVE  H[i].number < H[j].number
        OBVIOUS
    <2>1. i \in 1..Len(hd) /\ H[i] = hd[i]
        BY <1>2, <1>3
    <2>2. CASE j \in 1..Len(hd) /\ H[j] = hd[j]
        BY <1>6, <2>1, <2>2
    <2>3. CASE H[j] = c
        BY <1>4, <1>6, <2>1, <2>3
    <2> QED
        BY <1>3, <2>2, <2>3
<1>8. \A i \in 1..Len(lg), j \in 1..Len(H) : IsEvent(lg[i]) /\ IsEvent(H[j])
          => lg[i].number < H[j].number
    <2> SUFFICES ASSUME NEW i \in 1..Len(lg), NEW j \in 1..Len(H),
                        IsEvent(lg[i]), IsEvent(H[j])
                 PROVE  lg[i].number < H[j].number
        OBVIOUS
    <2>1. CASE j \in 1..Len(hd) /\ H[j] = hd[j]
        BY <1>6, <2>1
    <2>2. CASE H[j] = c
        BY <1>4, <1>6, <2>2
    <2> QED
        BY <1>3, <2>1, <2>2
<1>9. \A i \in 1..Len(lg) : IsEvent(lg[i]) => lg[i].number \in first..next
    BY <1>4, <1>6
<1>10. \A j \in 1..Len(H) : IsEvent(H[j]) => H[j].number \in first..next
    BY <1>3, <1>4, <1>5, <1>6
<1>11. ASSUME NEW n \in first..next
       PROVE  \/ \E i \in 1..Len(lg) : IsEvent(lg[i]) /\ lg[i].number = n
              \/ \E j \in 1..Len(H) : IsEvent(H[j]) /\ H[j].number = n
    <2>1. CASE IsEvent(c) /\ n = next
        <3>1. Len(hd) + 1 \in 1..Len(H)
            BY <1>2
        <3> QED
            BY <1>2, <2>1, <3>1
    <2>2. CASE \E i \in 1..Len(lg) : IsEvent(lg[i]) /\ lg[i].number = n
        BY <2>2
    <2>3. CASE \E j \in 1..Len(hd) : IsEvent(hd[j]) /\ hd[j].number = n
        <3>1. PICK j \in 1..Len(hd) : IsEvent(hd[j]) /\ hd[j].number = n
            BY <2>3
        <3>2. j \in 1..Len(H) /\ H[j] = hd[j]
            BY <1>2
        <3> QED
            BY <3>1, <3>2
    <2>4. ~(IsEvent(c) /\ n = next) => n \in first..last
        OBVIOUS
    <2> QED
        BY <1>6, <2>1, <2>2, <2>3, <2>4
<1>12. 0 + 1 = 1
    OBVIOUS
<1>13. Gapless(lg, H, 0, first, next)
    BY <1>6, <1>7, <1>8, <1>9, <1>10, <1>11, <1>12 DEF Gapless
<1> QED
    BY <1>1, <1>13

-----------------------------------------------------------------------------
(* The answer to the request being served, and the flush after it.         *)

LEMMA StateIsSound ==
    ASSUME SessionInv
    PROVE  /\ Sound(State) /\ State.queue = queue /\ State.log = log
           /\ ClientTypeOK /\ Tidy(queue) /\ queue \in QueueRecords
           /\ Len(log) \in Nat /\ Len(held) \in Nat /\ Len(inbox) \in Nat
           /\ received <= Len(log) /\ received \in Nat
           /\ Deliverable \in received..Len(log)
<1>1. /\ ClientTypeOK /\ Tidy(queue) /\ queue \in QueueRecords
      /\ log \in Seq(Contents) /\ Len(log) = queue.accepted
      /\ \A k \in Keys : shown[k] <= queue.fresh[k]
    BY DEF SessionInv, QueueInv, SessionTypes, Tidy, Shape
<1>2. State.queue = queue /\ State.log = log /\ State \in Records
    BY <1>1 DEF State, Records
<1>3. Sound(State)
    BY <1>1, <1>2 DEF Sound
<1>4. Len(log) \in Nat /\ Len(held) \in Nat /\ Len(inbox) \in Nat
    BY LenProperties DEF SessionInv, SessionTypes
<1>5. /\ received \in Nat /\ received <= Gone(queue)
      /\ queue.accepted \in Nat /\ Len(queue.critical) \in Nat
    BY <1>1, LenProperties DEF Tidy, Shape, PipeInOrder, ClientTypeOK, QueueRecords
<1>6. received <= Len(log)
    BY <1>1, <1>5 DEF Gone
<1>7. Deliverable \in received..Len(log)
    BY <1>4, <1>5, <1>6 DEF Deliverable
<1> QED
    BY <1>1, <1>2, <1>3, <1>4, <1>5, <1>6, <1>7

\* What the log says after the answer and the first i of what was held.
Progress(lg, i) ==
    /\ InTurn(lg, Len(lg)) /\ AnsweredUpTo(lg, handling.id)
    /\ AfterAnswers(lg, Len(lg))
    /\ identified => Welcomed(lg) /\ Gapless(lg, held, i, snapshot + 1, raised)

LEMMA Answering ==
    ASSUME SessionInv, handling # None, result # None
    PROVE  /\ Answer(handling, result) \in AnswerFrames
           /\ Answer(handling, result).request = handling.id
           /\ Answer(handling, result).how = result
           /\ handling.id \in Nat \ {0}
           /\ Settled + 1 = handling.id /\ Settled \in Nat
<1>1. handling \in Requests /\ result \in {"ok", "failed"} /\ sent \in Nat
    BY DEF SessionInv, SessionTypes
<1>2. Len(inbox) \in Nat /\ Len(inbox) < sent /\ handling.id = sent - Len(inbox)
    BY StateIsSound DEF SessionInv, Numbered
<1>3. handling.id \in Nat \ {0} /\ Settled + 1 = handling.id /\ Settled \in Nat
    BY <1>1, <1>2 DEF Settled
<1> QED
    BY <1>1, <1>3 DEF Answer, AnswerFrames

\* The answer goes before what was held.
LEMMA AnswerGoes ==
    ASSUME SessionInv, handling # None, result # None, ~Closing,
           NEW s, s = Put(State, Answer(handling, result)), ~s.queue.cut
    PROVE  /\ s.log = Append(log, Answer(handling, result))
           /\ Progress(s.log, 0)
<1>1. PICK c \in AnswerFrames : c = Answer(handling, result)
    BY Answering
<1>2. /\ c.request = handling.id /\ c.how = result
      /\ Settled + 1 = handling.id /\ Settled \in Nat
      /\ c \in Contents /\ IsAnswer(c) /\ ~IsEvent(c) /\ c # Speakers
    BY <1>1, Answering, ContentKinds
<1>3. /\ Sound(State) /\ State.queue = queue /\ State.log = log
      /\ ClientTypeOK /\ log \in Seq(Contents) /\ Len(log) \in Nat
    BY StateIsSound DEF SessionInv, SessionTypes
<1>4. ~queue.destroyed /\ ~queue.finishing
    BY DEF SessionInv, Control, Closing
<1>5. s.log = Append(log, c) /\ s.queue.cut = queue.cut
    BY <1>1, <1>2, <1>3, <1>4, PutGrows
<1>6. ~queue.cut /\ Len(s.log) = Len(log) + 1
    BY <1>2, <1>3, <1>5, AppendProperties
<1>7. Deliverable = Len(log)
    BY <1>6 DEF Deliverable
<1>8. /\ InTurn(log, Len(log)) /\ AnsweredUpTo(log, Settled)
      /\ AfterAnswers(log, Len(log))
    BY <1>6, <1>7 DEF SessionInv, AnswersAreSound, EventsAreSound
<1>9. InTurn(s.log, Len(log) + 1) /\ AnsweredUpTo(s.log, handling.id)
    BY <1>2, <1>3, <1>5, <1>8, AnswerAppended
<1>10. /\ AfterAnswers(s.log, Len(log) + 1)
       /\ Welcomed(log) => Welcomed(s.log)
       /\ c.how = "ok" => Welcomed(s.log)
    BY <1>2, <1>3, <1>5, <1>8, PlaceKept
<1>11. ASSUME identified
       PROVE  Welcomed(s.log) /\ Gapless(s.log, held, 0, snapshot + 1, raised)
    <2>1. /\ Gapless(log, held, 0, snapshot + 1, raised)
          /\ Welcomed(log) \/ result = "ok"
        BY <1>6, <1>11 DEF SessionInv, EventsAreSound
    <2>2. Gapless(s.log, held, 0, snapshot + 1, raised)
        BY <1>3, <1>5, <2>1, GaplessAnswered
    <2> QED
        BY <1>2, <1>10, <2>1, <2>2
<1> QED
    BY <1>1, <1>5, <1>6, <1>9, <1>10, <1>11 DEF Progress

\* One more of what was held.
LEMMA HeldGoes ==
    ASSUME SessionInv, handling # None, result # None,
           NEW t, Sound(t), ~t.queue.finishing, ~t.queue.destroyed,
           NEW i \in 1..Len(held), Progress(t.log, i - 1),
           NEW u, u = Put(t, held[i]), ~u.queue.cut
    PROVE  Progress(u.log, i)
<1>1. /\ i \in Nat /\ i - 1 \in Nat /\ (i - 1) + 1 = i /\ i <= Len(held)
      /\ Len(held) \in Nat /\ held \in Seq(EventFrames \cup {Speakers})
      /\ t.log \in Seq(Contents) /\ Len(t.log) \in Nat /\ ClientTypeOK
    BY StateIsSound, LenProperties DEF SessionInv, SessionTypes, Sound, Records
<1>2. held[i] \in EventFrames \cup {Speakers} /\ held[i] \in Contents
    BY <1>1, ElementOfSeq DEF Contents
<1>3. identified
    BY <1>1, EmptySeq DEF SessionInv, Control
<1>4. /\ Welcomed(t.log) /\ Gapless(t.log, held, i - 1, snapshot + 1, raised)
      /\ InTurn(t.log, Len(t.log)) /\ AnsweredUpTo(t.log, handling.id)
      /\ AfterAnswers(t.log, Len(t.log))
    BY <1>3 DEF Progress
<1>5. CASE held[i] = Speakers
    <2>1. u.log = t.log
        BY <1>1, <1>2, <1>5, PutGrows
    <2>2. ~IsEvent(held[(i - 1) + 1])
        BY <1>1, <1>5, ContentKinds
    <2>3. Gapless(t.log, held, i, snapshot + 1, raised)
        BY <1>1, <1>4, <2>2, GaplessPassed
    <2> QED
        BY <1>4, <2>1, <2>3 DEF Progress
<1>6. CASE held[i] # Speakers
    <2>1. PICK c \in EventFrames : c = held[i]
        BY <1>2, <1>6
    <2>2. u.log = Append(t.log, c) /\ c \in Contents /\ IsEvent(c)
        BY <1>1, <1>2, <1>6, <2>1, PutGrows, ContentKinds
    <2>3. Len(u.log) = Len(t.log) + 1
        BY <1>1, <2>2, AppendProperties
    <2>4. handling.id \in Nat \ {0}
        BY Answering
    <2>5. InTurn(u.log, Len(u.log)) /\ AnsweredUpTo(u.log, handling.id)
        BY <1>1, <1>4, <2>2, <2>3, <2>4, EventAppended
    <2>6. c.during = handling.id
        BY <1>1, <2>1, <2>2 DEF SessionInv, EventsAreSound
    <2>7. \E j \in 1..Len(t.log) : IsAnswer(t.log[j]) /\ t.log[j].request = handling.id
        <3>1. handling.id \in 1..handling.id
            BY <2>4
        <3> QED
            BY <1>4, <3>1 DEF AnsweredUpTo
    <2>8. AfterAnswers(u.log, Len(u.log)) /\ Welcomed(u.log)
        BY <1>1, <1>4, <2>2, <2>3, <2>6, <2>7, PlaceKept
    <2>9. Gapless(u.log, held, i, snapshot + 1, raised)
        BY <1>1, <1>4, <2>1, <2>2, GaplessFlushed
    <2> QED
        BY <2>5, <2>8, <2>9 DEF Progress
<1> QED
    BY <1>5, <1>6

\* Whatever happens on the way, the queue only grows; unless it was cut, the
\* answer and all that was held are in the log.
LEMMA RespondedIs ==
    ASSUME SessionInv, handling # None, result # None,
           NEW t, t = Responded(State, Answer(handling, result))
    PROVE  /\ Grows(State, t)
           /\ ~Closing /\ ~t.queue.cut => Progress(t.log, Len(held))
           /\ ~identified => \/ t.log = log
                             \/ t.log = Append(log, Answer(handling, result))
<1>1. /\ Sound(State) /\ State.queue = queue /\ State.log = log
      /\ ClientTypeOK /\ Len(held) \in Nat /\ log \in Seq(Contents)
      /\ held \in Seq(EventFrames \cup {Speakers})
    BY StateIsSound DEF SessionInv, SessionTypes
<1>2. Answer(handling, result) \in Contents /\ Answer(handling, result) # Speakers
    BY Answering, ContentKinds
<1>3. PICK s : s = Put(State, Answer(handling, result))
    OBVIOUS
<1>4. Grows(State, s) /\ Sound(s)
    BY <1>1, <1>2, <1>3, PutGrows DEF Grows
<1>5. t = Flushed(s)
    BY <1>3 DEF Responded
<1>6. queue.finishing = serverClose
    BY DEF SessionInv, Control
<1>7. CASE Closing
    <2>1. s = State
        BY <1>1, <1>4, <1>6, <1>7 DEF Closing, Grows
    <2>2. t = s
        BY <1>1, <1>4, <1>5, <1>6, <1>7, <2>1, FlushedNot DEF Closing
    <2> QED
        BY <1>1, <1>4, <1>7, <2>1, <2>2
<1>8. CASE ~Closing
    <2> DEFINE G == [i \in 0..Len(held) |->
                        {x \in Records : /\ Grows(s, x)
                                         /\ ~x.queue.cut => Progress(x.log, i)}]
    <2>1. s \in G[0]
        <3>1. s \in Records /\ Grows(s, s)
            BY <1>4, GrowsNot DEF Sound
        <3>2. ~s.queue.cut => Progress(s.log, 0)
            BY <1>3, <1>8, AnswerGoes
        <3> QED
            BY <1>1, <3>1, <3>2
    <2>2. ASSUME NEW i \in 1..Len(held), NEW x \in G[i - 1]
          PROVE  Put(x, held[i]) \in G[i]
        <3>1. i - 1 \in 0..Len(held) /\ i \in 0..Len(held)
            BY <1>1
        <3>2. Grows(s, x) /\ Sound(x) /\ (~x.queue.cut => Progress(x.log, i - 1))
            BY <2>2, <3>1 DEF Grows
        <3>3. held[i] \in Contents
            BY <1>1, ElementOfSeq DEF Contents
        <3>4. PICK u : u = Put(x, held[i])
            OBVIOUS
        <3>5. Grows(x, u)
            BY <1>1, <3>2, <3>3, <3>4, PutGrows
        <3>6. Grows(s, u) /\ u \in Records
            BY <1>4, <3>2, <3>5, GrowsOn DEF Grows, Sound
        <3>7. ASSUME ~u.queue.cut PROVE Progress(u.log, i)
            <4>1. ~x.queue.cut
                BY <3>5, <3>7 DEF Grows
            <4>2. ~x.queue.finishing /\ ~x.queue.destroyed
                BY <1>1, <1>4, <1>6, <1>8, <3>2 DEF Grows, Closing
            <4> QED
                BY <3>2, <3>4, <3>7, <4>1, <4>2, HeldGoes
        <3> QED
            BY <3>1, <3>4, <3>6, <3>7
    <2>3. \A x \in G[Len(held)] :
              Grows(s, x) /\ (~x.queue.cut => Progress(x.log, Len(held)))
        BY <1>1
    <2> HIDE DEF G
    <2>4. t \in G[Len(held)]
        BY <1>1, <1>5, <2>1, <2>2, FlushReaches
    <2>5. Grows(State, t) /\ (~t.queue.cut => Progress(t.log, Len(held)))
        BY <1>1, <1>4, <2>3, <2>4, GrowsOn
    <2>6. ASSUME ~identified
          PROVE  t.log = log \/ t.log = Append(log, Answer(handling, result))
        <3>1. held = <<>>
            BY <2>6 DEF SessionInv, Control
        <3>2. t = s
            BY <1>1, <1>4, <1>5, <3>1, FlushedNot
        <3>3. ~queue.finishing /\ ~queue.destroyed
            BY <1>6, <1>8 DEF Closing
        <3> QED
            BY <1>1, <1>2, <1>3, <3>2, <3>3, PutGrows
    <2> QED
        BY <2>5, <2>6
<1> QED
    BY <1>7, <1>8

-----------------------------------------------------------------------------
(* What a step of the server does to the queue and its log.                *)

Advances ==
    /\ Untouched
    /\ log' \in Seq(Contents) /\ Len(log') = queue'.accepted
    /\ Extends(log, log')
    /\ queue.accepted <= queue'.accepted
    /\ \A k \in Keys : queue.fresh[k] <= queue'.fresh[k]
    /\ queue.cut => queue'.cut
    /\ goodbye => log' = log

LEMMA Enlarged ==
    ASSUME SessionInv, Untouched, NEW t, Grows(State, t), Becomes(t)
    PROVE  /\ QueueInv' /\ Advances
           /\ queue'.finishing = queue.finishing
           /\ queue'.destroyed = queue.destroyed
           /\ queue' = t.queue /\ log' = t.log
<1>1. /\ queue' = t.queue /\ log' = t.log
      /\ received' = received /\ shown' = shown /\ goodbye' = goodbye
    BY DEF Becomes, Untouched
<1>2. /\ Sound(t) /\ Tidy(t.queue) /\ t.log \in Seq(Contents)
      /\ Len(t.log) = t.queue.accepted
      /\ \A k \in Keys : shown[k] <= t.queue.fresh[k]
    BY DEF Grows, Sound, Records
<1>3. /\ State.queue = queue /\ State.log = log /\ ClientTypeOK
      /\ queue \in QueueRecords
    BY StateIsSound
<1>4. Tidy(queue)'
    BY <1>1, <1>2, TidyBecomes
<1>5. goodbye => t = State
    BY <1>3 DEF SessionInv, QueueInv, Tidy, Shape, EndsEmpty, Grows
<1>6. QueueInv'
    <2>1. goodbye' => queue'.ended /\ queue'.pipe = <<>>
        BY <1>1, <1>3, <1>5 DEF SessionInv, QueueInv
    <2> QED
        BY <1>1, <1>2, <1>3, <1>4, <2>1 DEF QueueInv, ClientTypeOK
<1>7. Advances
    BY <1>1, <1>2, <1>3, <1>5 DEF Advances, Grows
<1> QED
    BY <1>1, <1>3, <1>6, <1>7 DEF Grows

\* The polite close.
LEMMA HungUp ==
    ASSUME SessionInv, Untouched, NEW t, Grows(State, t), ~queue.finishing,
           Becomes(ClosedPolitely(t))
    PROVE  /\ QueueInv' /\ Advances
           /\ queue'.finishing
           /\ queue'.destroyed = queue.destroyed
           /\ queue'.cut = t.queue.cut /\ log' = t.log
<1>1. /\ State.queue = queue /\ State.log = log /\ ClientTypeOK
      /\ queue \in QueueRecords
    BY StateIsSound
<1>2. /\ t \in Records /\ Tidy(t.queue) /\ t.log \in Seq(Contents)
      /\ Len(t.log) = t.queue.accepted
      /\ \A k \in Keys : shown[k] <= t.queue.fresh[k]
      /\ t.queue.finishing = queue.finishing
      /\ t.queue.destroyed = queue.destroyed
    BY <1>1 DEF Grows, Sound, Records
<1>3. PICK q : q = Finish(t.queue)
    OBVIOUS
<1>4. /\ Tidy(q) /\ q.finishing
      /\ q.accepted = t.queue.accepted /\ q.fresh = t.queue.fresh
      /\ q.cut = t.queue.cut /\ q.destroyed = t.queue.destroyed
    BY <1>1, <1>2, <1>3, FinishKeeps
<1>5. /\ queue' = q /\ log' = t.log
      /\ received' = received /\ shown' = shown /\ goodbye' = goodbye
    BY <1>2, <1>3 DEF Becomes, ClosedPolitely, Untouched, Records
<1>6. Tidy(queue)'
    BY <1>4, <1>5, TidyBecomes
<1>7. ~goodbye
    BY DEF SessionInv, QueueInv, Tidy, Shape, EndsEmpty
<1>8. QueueInv'
    BY <1>1, <1>2, <1>4, <1>5, <1>6, <1>7 DEF QueueInv, ClientTypeOK
<1>9. Advances
    BY <1>1, <1>2, <1>4, <1>5, <1>7 DEF Advances, Grows
<1> QED
    BY <1>2, <1>4, <1>5, <1>8, <1>9

LEMMA StandsStill ==
    ASSUME SessionInv, UNCHANGED <<queueVars, log>>
    PROVE  QueueInv' /\ Advances
<1>1. QueueInv'
    BY NextInv DEF SessionInv
<1>2. /\ queue' = queue /\ log' = log
      /\ received' = received /\ shown' = shown /\ goodbye' = goodbye
    BY DEF queueVars
<1>3. Sound(State) /\ State.queue = queue /\ State.log = log
    BY StateIsSound
<1>4. Grows(State, State)
    BY <1>3, GrowsNot
<1>5. log \in Seq(Contents) /\ Len(log) = queue.accepted
    BY DEF SessionInv, SessionTypes
<1>6. Advances
    BY <1>2, <1>3, <1>4, <1>5 DEF Advances, Grows, Untouched
<1> QED
    BY <1>1, <1>6

\* What the client may receive is no more than before, or all as before.
LEMMA LogStands ==
    ASSUME SessionInv, Advances, QueueInv', queue'.cut \/ log' = log
    PROVE  InTurn(log', Deliverable') /\ AfterAnswers(log', Deliverable')
<1>1. /\ Deliverable \in Nat /\ Deliverable \in received..Len(log)
      /\ Len(log) \in Nat /\ received \in Nat /\ log \in Seq(Contents)
    BY StateIsSound DEF SessionInv, SessionTypes
<1>2. received' = received /\ Extends(log, log') /\ (queue.cut => queue'.cut)
    BY DEF Advances, Untouched
<1>3. Deliverable' \in 0..Deliverable
    <2>1. CASE queue'.cut
        BY <1>1, <1>2, <2>1 DEF Deliverable
    <2>2. CASE ~queue'.cut
        <3>1. Deliverable = Len(log) /\ Deliverable' = Len(log')
            BY <1>2, <2>2 DEF Deliverable
        <3> QED
            BY <1>1, <2>2, <3>1
    <2> QED
        BY <2>1, <2>2
<1>4. ASSUME NEW i \in 1..Deliverable
      PROVE  log[i] \in Contents /\ log'[i] = log[i]
    <2>1. i \in 1..Len(log)
        BY <1>1
    <2> QED
        BY <1>1, <1>2, <2>1, ElementOfSeq DEF Extends
<1> QED
    BY <1>1, <1>3, <1>4, ShorterIsSound DEF SessionInv, AnswersAreSound, EventsAreSound

LEMMA RefusalStays ==
    ASSUME SessionInv, Advances, NEW n, Refusal(log, n)
    PROVE  Refusal(log', n)
<1>1. PICK i \in 1..Len(log) : log[i] = Answer([id |-> n], "refused")
    BY DEF Refusal
<1>2. Len(log) \in Nat /\ Len(log') \in Nat
    BY LenProperties, StateIsSound DEF Advances
<1>3. i \in 1..Len(log') /\ log'[i] = log[i]
    BY <1>2 DEF Advances, Extends
<1> QED
    BY <1>1, <1>3 DEF Refusal

\* A step that accepts nothing and settles no request.
LEMMA AnswersStand ==
    ASSUME SessionInv, Advances, QueueInv', log' = log,
           ~Closing' => ~Closing, Closing' \/ Settled' = Settled,
           refused' = refused
    PROVE  AnswersAreSound'
<1>1. InTurn(log', Deliverable')
    BY LogStands
<1>2. /\ goodbye' = goodbye /\ (queue.cut => queue'.cut)
    BY DEF Advances, Untouched
<1>3. ~Closing' /\ ~queue'.cut => AnsweredUpTo(log', Settled')
    BY <1>2 DEF SessionInv, AnswersAreSound
<1>4. refused' # 0 => Refusal(log', refused') \/ (queue'.cut /\ ~goodbye')
    BY <1>2 DEF SessionInv, AnswersAreSound
<1> QED
    BY <1>1, <1>3, <1>4 DEF AnswersAreSound

LEMMA EventsStand ==
    ASSUME SessionInv, Advances, QueueInv', log' = log,
           ~Closing' => ~Closing, identified' => identified,
           ~identified' /\ ~queue'.destroyed => ~identified /\ ~queue.destroyed,
           held' = <<>> \/ (held' = held /\ handling' = handling),
           \/ Closing' \/ ~identified'
           \/ /\ held' = held /\ snapshot' = snapshot /\ raised' = raised
              /\ (holding /\ result = "ok") => (holding' /\ result' = "ok")
    PROVE  EventsAreSound'
<1>1. AfterAnswers(log', Deliverable')
    BY LogStands
<1>2. queue.cut => queue'.cut
    BY DEF Advances, Untouched
<1>3. \A i \in 1..Len(held') : IsEvent(held'[i]) => held'[i].during = handling'.id
    <2>1. CASE held' = <<>>
        BY <2>1, EmptySeq
    <2>2. CASE held' = held /\ handling' = handling
        BY <2>2 DEF SessionInv, EventsAreSound
    <2> QED
        BY <2>1, <2>2
<1>4. ~identified' /\ ~queue'.destroyed => \A i \in 1..Len(log') : ~IsEvent(log'[i])
    BY DEF SessionInv, EventsAreSound
<1>5. identified' /\ ~Closing' /\ ~queue'.cut =>
          /\ Gapless(log', held', 0, snapshot' + 1, raised')
          /\ Welcomed(log') \/ (holding' /\ result' = "ok")
    BY <1>2 DEF SessionInv, EventsAreSound
<1> QED
    BY <1>1, <1>3, <1>4, <1>5 DEF EventsAreSound

-----------------------------------------------------------------------------
(* Every step keeps the invariant.                                         *)

LEMMA InitSession == SessionInit => SessionInv
<1> SUFFICES ASSUME SessionInit PROVE SessionInv
    OBVIOUS
<1>1. QueueInv
    BY InitInv DEF SessionInit
<1>2. /\ log = <<>> /\ inbox = <<>> /\ sent = 0 /\ handling = None
      /\ result = None /\ holding = FALSE /\ held = <<>> /\ identified = FALSE
      /\ serverClose = FALSE /\ killTimer = FALSE /\ raised = 0 /\ snapshot = 0
      /\ refused = 0
    BY DEF SessionInit
<1>3. /\ queue.accepted = 0 /\ ~queue.cut /\ ~queue.finishing /\ ~queue.destroyed
      /\ queue.finishing = FALSE /\ received = 0
    BY DEF SessionInit, Init, NewQueue
<1>4. Len(log) = 0 /\ Len(inbox) = 0 /\ Len(held) = 0
    BY <1>2, EmptySeq
<1>a. /\ sent = 0 /\ handling = None /\ result = None /\ raised = 0
      /\ snapshot = 0 /\ refused = 0 /\ serverClose = FALSE
      /\ holding = FALSE /\ identified = FALSE /\ killTimer = FALSE
    BY <1>2
<1>5. SessionTypes
    <2>1. /\ log \in Seq(Contents) /\ inbox \in Seq(Requests)
          /\ held \in Seq(EventFrames \cup {Speakers})
        BY <1>2, EmptySeq
    <2>2. {holding, identified, serverClose, killTimer} \subseteq BOOLEAN
        BY <1>a
    <2>3. result \in {None, "ok", "failed"} /\ handling \in Requests \cup {None}
        BY <1>a
    <2> QED
        BY <1>3, <1>4, <1>a, <2>1, <2>2, <2>3 DEF SessionTypes
<1>6. Control
    <2>1. held = <<>>
        BY <1>2
    <2> QED
        BY <1>3, <1>a, <2>1 DEF Control
<1>b. Numbered
    BY <1>4, <1>a DEF Numbered
<1>7. Deliverable = 0 /\ Settled = 0
    <2>1. Deliverable = 0
        BY <1>3, <1>4 DEF Deliverable
    <2>2. Settled = 0
        BY <1>4, <1>a DEF Settled
    <2> QED
        BY <2>1, <2>2
<1>8. AnswersAreSound
    BY <1>2, <1>4, <1>7 DEF AnswersAreSound, InTurn, AnsweredUpTo
<1>9. EventsAreSound
    BY <1>2, <1>4, <1>7 DEF EventsAreSound, AfterAnswers
<1> QED
    BY <1>1, <1>5, <1>6, <1>8, <1>9, <1>b DEF SessionInv

LEMMA SendsKeeps ==
    ASSUME SessionInv, NEW kind \in Kinds, ClientSends(kind)
    PROVE  SessionInv' /\ Advances
<1>1. /\ UNCHANGED <<queueVars, log, handling, result, holding, held, identified,
                     serverClose, killTimer, raised, snapshot, refused>>
      /\ sent' = sent + 1 /\ inbox' = Append(inbox, [id |-> sent + 1, kind |-> kind])
    BY DEF ClientSends
<1>2. QueueInv' /\ Advances /\ queue' = queue /\ log' = log
    BY <1>1, StandsStill DEF queueVars
<1>3. [id |-> sent + 1, kind |-> kind] \in Requests
    BY DEF SessionInv, SessionTypes, Requests
<1>4. /\ inbox' \in Seq(Requests) /\ Len(inbox') = Len(inbox) + 1
      /\ inbox'[Len(inbox) + 1].id = sent + 1
      /\ \A i \in 1..Len(inbox) : inbox'[i] = inbox[i]
      /\ Len(inbox) \in Nat /\ sent \in Nat /\ sent' \in Nat
    <2>1. inbox \in Seq(Requests) /\ sent \in Nat /\ Len(inbox) \in Nat
        BY StateIsSound DEF SessionInv, SessionTypes
    <2>2. [id |-> sent + 1, kind |-> kind].id = sent + 1
        OBVIOUS
    <2> QED
        BY <1>1, <1>3, <2>1, <2>2, AppendProperties
<1>5. SessionTypes'
    BY <1>1, <1>2, <1>4 DEF SessionInv, SessionTypes, Advances
<1>6. Control'
    BY <1>1, <1>2 DEF SessionInv, Control
<1>7. sent' - Len(inbox') = sent - Len(inbox)
    BY <1>1, <1>4
<1>8. Numbered'
    <2>1. \A i \in 1..Len(inbox') : inbox'[i].id = (sent' - Len(inbox')) + i
        <3> SUFFICES ASSUME NEW i \in 1..Len(inbox')
                     PROVE  inbox'[i].id = (sent - Len(inbox)) + i
            BY <1>7
        <3>1. CASE i = Len(inbox) + 1
            BY <1>4, <3>1
        <3>2. CASE i \in 1..Len(inbox)
            BY <1>4, <3>2 DEF SessionInv, Numbered
        <3> QED
            BY <1>4, <3>1, <3>2
    <2>2. Len(inbox') <= sent' /\ (Len(inbox) < sent => Len(inbox') < sent')
        BY <1>1, <1>4 DEF SessionInv, Numbered
    <2> QED
        BY <1>1, <1>7, <2>1, <2>2 DEF SessionInv, Numbered
<1>9. Settled' = Settled /\ Closing' = Closing
    BY <1>1, <1>2, <1>7 DEF Settled, Closing
<1>10. AnswersAreSound'
    BY <1>1, <1>2, <1>9, AnswersStand
<1>11. EventsAreSound'
    BY <1>1, <1>2, <1>9, EventsStand
<1> QED
    BY <1>2, <1>5, <1>6, <1>8, <1>10, <1>11 DEF SessionInv

\* The oldest request leaves the inbox.
LEMMA Taking ==
    ASSUME SessionInv, NEW r, TakenFromInbox(r), sent' = sent
    PROVE  /\ inbox' \in Seq(Requests) /\ Len(inbox') \in Nat
           /\ Len(inbox') < sent' /\ sent' \in Nat
           /\ \A i \in 1..Len(inbox') : inbox'[i].id = (sent' - Len(inbox')) + i
           /\ r \in Requests /\ r.id = sent' - Len(inbox')
           /\ handling = None /\ result = None /\ ~holding /\ held = <<>>
           /\ Settled = (sent' - Len(inbox')) - 1 /\ Settled \in Nat
<1>1. /\ inbox # <<>> /\ handling = None /\ r = Head(inbox) /\ inbox' = Tail(inbox)
    BY DEF TakenFromInbox
<1>2. /\ inbox \in Seq(Requests) /\ sent \in Nat /\ Len(inbox) \in Nat
      /\ Len(inbox) <= sent
      /\ \A i \in 1..Len(inbox) : inbox[i].id = (sent - Len(inbox)) + i
    BY StateIsSound DEF SessionInv, SessionTypes, Numbered
<1>3. Len(inbox) >= 1 /\ Head(inbox) = inbox[1] /\ inbox[1] \in Requests
    <2>1. Len(inbox) >= 1
        BY <1>1, <1>2, EmptySeq
    <2> QED
        BY <1>2, <2>1, ElementOfSeq
<1>4. /\ inbox' \in Seq(Requests) /\ Len(inbox') = Len(inbox) - 1
      /\ \A i \in 1..Len(inbox') : inbox'[i] = inbox[i + 1]
    BY <1>1, <1>2, HeadTailProperties
<1>5. sent' - Len(inbox') = (sent - Len(inbox)) + 1
    BY <1>2, <1>4
<1>6. ASSUME NEW i \in 1..Len(inbox')
      PROVE  inbox'[i].id = (sent' - Len(inbox')) + i
    <2>1. i + 1 \in 1..Len(inbox)
        BY <1>2, <1>4
    <2>2. inbox[i + 1].id = (sent - Len(inbox)) + (i + 1)
        BY <1>2, <2>1
    <2> QED
        BY <1>2, <1>4, <1>5, <2>2
<1>7. r \in Requests /\ r.id = sent' - Len(inbox')
    BY <1>1, <1>2, <1>3, <1>5
<1>8. result = None /\ ~holding /\ held = <<>>
    BY <1>1 DEF SessionInv, Control
<1>9. Settled = (sent' - Len(inbox')) - 1 /\ Settled \in Nat
    BY <1>1, <1>2, <1>5 DEF Settled
<1> QED
    BY <1>1, <1>2, <1>3, <1>4, <1>6, <1>7, <1>8, <1>9

LEMMA DropKeeps ==
    ASSUME SessionInv, NEW r, DropWhileClosing(r)
    PROVE  SessionInv' /\ Advances
<1>1. /\ TakenFromInbox(r) /\ Closing
      /\ UNCHANGED <<queueVars, log, sent, handling, result, holding, held,
                     identified, serverClose, killTimer, raised, snapshot, refused>>
    BY DEF DropWhileClosing
<1>2. QueueInv' /\ Advances /\ queue' = queue /\ log' = log
    BY <1>1, StandsStill DEF queueVars
<1>3. /\ inbox' \in Seq(Requests) /\ Len(inbox') \in Nat
      /\ Len(inbox') < sent' /\ sent' \in Nat /\ handling = None
      /\ \A i \in 1..Len(inbox') : inbox'[i].id = (sent' - Len(inbox')) + i
    BY <1>1, Taking
<1>4. SessionTypes'
    BY <1>1, <1>2, <1>3 DEF SessionInv, SessionTypes, Advances
<1>5. Control'
    BY <1>1, <1>2 DEF SessionInv, Control
<1>6. Numbered'
    BY <1>1, <1>3 DEF Numbered
<1>7. Closing'
    BY <1>1, <1>2 DEF Closing
<1>8. AnswersAreSound'
    BY <1>1, <1>2, <1>7, AnswersStand
<1>9. EventsAreSound'
    BY <1>1, <1>2, <1>7, EventsStand
<1> QED
    BY <1>2, <1>4, <1>5, <1>6, <1>8, <1>9 DEF SessionInv

LEMMA TakeUpKeeps ==
    ASSUME SessionInv, NEW r, TakeUp(r)
    PROVE  SessionInv' /\ Advances
<1>1. /\ TakenFromInbox(r) /\ ~Closing
      /\ handling' = r /\ result' = None /\ holding' = TRUE
      /\ UNCHANGED <<queueVars, log, sent, held, identified, serverClose,
                     killTimer, raised, snapshot, refused>>
    BY DEF TakeUp
<1>2. QueueInv' /\ Advances /\ queue' = queue /\ log' = log
    BY <1>1, StandsStill DEF queueVars
<1>3. /\ inbox' \in Seq(Requests) /\ Len(inbox') \in Nat
      /\ Len(inbox') < sent' /\ sent' \in Nat /\ handling = None
      /\ r \in Requests /\ r.id = sent' - Len(inbox')
      /\ result = None /\ ~holding /\ held = <<>>
      /\ Settled = (sent' - Len(inbox')) - 1
      /\ \A i \in 1..Len(inbox') : inbox'[i].id = (sent' - Len(inbox')) + i
    BY <1>1, Taking
<1>4. r # None
    BY <1>3, SessionAssumption, Zenon
<1>5. SessionTypes'
    BY <1>1, <1>2, <1>3 DEF SessionInv, SessionTypes, Advances
<1>6. Control'
    BY <1>1, <1>2, <1>3, <1>4 DEF SessionInv, Control
<1>7. Numbered'
    BY <1>1, <1>3 DEF Numbered
<1>8. Closing' = Closing /\ Settled' = Settled
    BY <1>1, <1>2, <1>3, <1>4 DEF Closing, Settled
<1>9. AnswersAreSound'
    BY <1>1, <1>2, <1>8, AnswersStand
<1>10. EventsAreSound'
    BY <1>1, <1>2, <1>3, <1>8, EventsStand
<1> QED
    BY <1>2, <1>5, <1>6, <1>7, <1>9, <1>10 DEF SessionInv

LEMMA RefuseMalformedKeeps ==
    ASSUME SessionInv, NEW r, RefuseMalformed(r)
    PROVE  SessionInv' /\ Advances
<1>1. /\ TakenFromInbox(r) /\ ~Closing
      /\ Becomes(ClosedPolitely(State))
      /\ serverClose' = TRUE /\ killTimer' = TRUE /\ Untouched
      /\ UNCHANGED <<sent, handling, result, holding, held, identified, raised,
                     snapshot, refused>>
    BY DEF RefuseMalformed
<1>2. /\ Grows(State, State) /\ State.log = log
      /\ ~queue.finishing /\ ~queue.destroyed
    BY <1>1, StateIsSound, GrowsNot DEF SessionInv, Control, Closing
<1>3. /\ QueueInv' /\ Advances /\ queue'.finishing
      /\ ~queue'.destroyed /\ log' = log
    BY <1>1, <1>2, HungUp
<1>4. /\ inbox' \in Seq(Requests) /\ Len(inbox') \in Nat
      /\ Len(inbox') < sent' /\ sent' \in Nat
      /\ handling = None /\ result = None /\ ~holding /\ held = <<>>
      /\ \A i \in 1..Len(inbox') : inbox'[i].id = (sent' - Len(inbox')) + i
    BY <1>1, Taking
<1>5. SessionTypes'
    BY <1>1, <1>3, <1>4 DEF SessionInv, SessionTypes, Advances
<1>a. queue'.finishing = serverClose'
    BY <1>1, <1>3 DEF QueueInv, Tidy, Shape, QueueRecords
<1>6. Control'
    BY <1>1, <1>3, <1>4, <1>a DEF SessionInv, Control
<1>7. Numbered'
    BY <1>1, <1>4 DEF Numbered
<1>8. Closing'
    BY <1>1 DEF Closing
<1>9. AnswersAreSound'
    BY <1>1, <1>3, <1>8, AnswersStand
<1>10. EventsAreSound'
    BY <1>1, <1>2, <1>3, <1>4, <1>8, EventsStand
<1> QED
    BY <1>3, <1>5, <1>6, <1>7, <1>9, <1>10 DEF SessionInv

LEMMA ServerClosesKeeps ==
    ASSUME SessionInv, ServerCloses
    PROVE  SessionInv' /\ Advances
<1>1. /\ ~Closing
      /\ Becomes(ClosedPolitely(State))
      /\ serverClose' = TRUE /\ killTimer' = TRUE /\ Untouched
      /\ UNCHANGED <<inbox, sent, handling, result, holding, held, identified,
                     raised, snapshot, refused>>
    BY DEF ServerCloses
<1>2. /\ Grows(State, State) /\ State.log = log
      /\ ~queue.finishing /\ ~queue.destroyed
    BY <1>1, StateIsSound, GrowsNot DEF SessionInv, Control, Closing
<1>3. /\ QueueInv' /\ Advances /\ queue'.finishing
      /\ ~queue'.destroyed /\ log' = log
    BY <1>1, <1>2, HungUp
<1>5. SessionTypes'
    BY <1>1, <1>3 DEF SessionInv, SessionTypes, Advances
<1>a. queue'.finishing = serverClose'
    BY <1>1, <1>3 DEF QueueInv, Tidy, Shape, QueueRecords
<1>6. Control'
    BY <1>1, <1>2, <1>3, <1>a DEF SessionInv, Control
<1>7. Numbered'
    BY <1>1 DEF SessionInv, Numbered
<1>8. Closing'
    BY <1>1 DEF Closing
<1>9. AnswersAreSound'
    BY <1>1, <1>3, <1>8, AnswersStand
<1>10. EventsAreSound'
    BY <1>1, <1>2, <1>3, <1>8, EventsStand
<1> QED
    BY <1>3, <1>5, <1>6, <1>7, <1>9, <1>10 DEF SessionInv

\* A step of the queue and the timer alone.
LEMMA Elsewhere ==
    ASSUME SessionInv, QueueInv', Advances, log' = log,
           queue'.finishing = queue.finishing, queue'.destroyed = queue.destroyed,
           UNCHANGED <<inbox, sent, handling, result, holding, held, identified,
                       serverClose, raised, snapshot, refused>>,
           killTimer' \in BOOLEAN
    PROVE  SessionInv'
<1>1. SessionTypes'
    BY DEF SessionInv, SessionTypes, Advances
<1>2. Control' /\ Numbered'
    BY DEF SessionInv, Control, Numbered
<1>3. Closing' = Closing /\ Settled' = Settled
    BY DEF Closing, Settled
<1>4. AnswersAreSound'
    BY <1>3, AnswersStand
<1>5. EventsAreSound'
    BY <1>3, EventsStand
<1> QED
    BY <1>1, <1>2, <1>4, <1>5 DEF SessionInv

LEMMA FlagRaised ==
    ASSUME SessionInv, Untouched, log' = log,
           \/ queue' = [queue EXCEPT !.cut = TRUE]
           \/ queue' = [queue EXCEPT !.destroyed = TRUE]
    PROVE  /\ QueueInv' /\ Advances /\ queue'.finishing = queue.finishing
           /\ queue'.cut = queue.cut \/ queue'.destroyed = queue.destroyed
           /\ queue' = [queue EXCEPT !.cut = TRUE] => queue'.destroyed = queue.destroyed
           /\ queue' = [queue EXCEPT !.destroyed = TRUE] => queue'.destroyed
<1>1. /\ ClientTypeOK /\ Tidy(queue) /\ queue \in QueueRecords
      /\ log \in Seq(Contents) /\ Len(log) = queue.accepted /\ Len(log) \in Nat
      /\ received' = received /\ shown' = shown /\ goodbye' = goodbye
    BY StateIsSound DEF SessionInv, SessionTypes, Untouched
<1>2. PICK r : r = queue'
    OBVIOUS
<1>3. /\ r \in QueueRecords
      /\ r.critical = queue.critical /\ r.latest = queue.latest
      /\ r.pipe = queue.pipe /\ r.accepted = queue.accepted
      /\ r.fresh = queue.fresh /\ r.wanted = queue.wanted
      /\ r.ended = queue.ended /\ r.finishing = queue.finishing
      /\ (queue.cut => r.cut)
    BY <1>1, <1>2 DEF QueueRecords
<1>4. Tidy(r)
    BY <1>1, <1>3, FlagsApart
<1>5. Tidy(queue)'
    BY <1>1, <1>2, <1>4, TidyBecomes
<1>6. QueueInv'
    BY <1>1, <1>2, <1>3, <1>5 DEF SessionInv, QueueInv, ClientTypeOK
<1>7. Grows(State, State) /\ State.queue = queue /\ State.log = log
    BY StateIsSound, GrowsNot
<1>8. Advances
    BY <1>1, <1>2, <1>3, <1>7 DEF Advances, Grows
<1>9. /\ queue'.cut = queue.cut \/ queue'.destroyed = queue.destroyed
      /\ queue' = [queue EXCEPT !.cut = TRUE] => queue'.destroyed = queue.destroyed
      /\ queue' = [queue EXCEPT !.destroyed = TRUE] => queue'.destroyed
    BY <1>1 DEF QueueRecords
<1> QED
    BY <1>2, <1>3, <1>6, <1>8, <1>9

LEMMA KillTimerKeeps ==
    ASSUME SessionInv, KillTimerFires
    PROVE  SessionInv' /\ Advances
<1>1. /\ queue' = [queue EXCEPT !.cut = TRUE] /\ Untouched /\ killTimer' = FALSE
      /\ UNCHANGED <<log, inbox, sent, handling, result, holding, held,
                     identified, serverClose, raised, snapshot, refused>>
    BY DEF KillTimerFires
<1>2. /\ QueueInv' /\ Advances /\ queue'.finishing = queue.finishing
      /\ queue'.destroyed = queue.destroyed
    BY <1>1, FlagRaised
<1> QED
    BY <1>1, <1>2, Elsewhere

LEMMA ClosedKeeps ==
    ASSUME SessionInv, ConnectionClosed
    PROVE  SessionInv' /\ Advances
<1>1. /\ queue' = [queue EXCEPT !.destroyed = TRUE] /\ Untouched
      /\ holding' = FALSE /\ held' = <<>> /\ killTimer' = FALSE /\ identified' = FALSE
      /\ UNCHANGED <<log, inbox, sent, handling, result, serverClose, raised,
                     snapshot, refused>>
    BY DEF ConnectionClosed
<1>2. /\ QueueInv' /\ Advances /\ queue'.finishing = queue.finishing
      /\ queue'.destroyed
    BY <1>1, FlagRaised
<1>3. SessionTypes'
    <2>1. held' \in Seq(EventFrames \cup {Speakers})
        BY <1>1, EmptySeq
    <2> QED
        BY <1>1, <1>2, <2>1 DEF SessionInv, SessionTypes, Advances
<1>4. Control' /\ Numbered'
    BY <1>1, <1>2 DEF SessionInv, Control, Numbered
<1>5. Closing' /\ Settled' = Settled
    BY <1>1, <1>2 DEF Closing, Settled
<1>6. AnswersAreSound'
    BY <1>1, <1>2, <1>5, AnswersStand
<1>7. EventsAreSound'
    BY <1>1, <1>2, <1>5, EventsStand
<1> QED
    BY <1>2, <1>3, <1>4, <1>6, <1>7 DEF SessionInv

LEMMA IdentifyKeeps ==
    ASSUME SessionInv, IdentifyEnds
    PROVE  SessionInv' /\ Advances
<1>1. /\ handling # None /\ result = None /\ ~identified /\ ~queue.destroyed
      /\ identified' = TRUE /\ snapshot' = raised /\ result' = "ok"
      /\ UNCHANGED <<queueVars, log, inbox, sent, handling, holding, held,
                     serverClose, killTimer, raised, refused>>
    BY DEF IdentifyEnds
<1>2. QueueInv' /\ Advances /\ queue' = queue /\ log' = log
    BY <1>1, StandsStill DEF queueVars
<1>3. SessionTypes'
    BY <1>1, <1>2 DEF SessionInv, SessionTypes, Advances
<1>4. Control' /\ Numbered'
    BY <1>1, <1>2 DEF SessionInv, Control, Numbered
<1>5. Closing' = Closing /\ Settled' = Settled
    BY <1>1, <1>2 DEF Closing, Settled
<1>6. AnswersAreSound'
    BY <1>1, <1>2, <1>5, AnswersStand
<1>7. EventsAreSound'
    <2>1. AfterAnswers(log', Deliverable')
        BY <1>2, LogStands
    <2>2. held = <<>> /\ Len(held) = 0 /\ holding /\ raised \in Nat
        BY <1>1, EmptySeq DEF SessionInv, Control, SessionTypes
    <2>3. \A i \in 1..Len(log) : ~IsEvent(log[i])
        BY <1>1 DEF SessionInv, EventsAreSound
    <2>4. Gapless(log, held, 0, raised + 1, raised)
        <3>1. (0 + 1)..Len(held) = {} /\ (raised + 1)..raised = {}
            BY <2>2
        <3> QED
            BY <2>3, <3>1 DEF Gapless
    <2>5. \A i \in 1..Len(held') : FALSE
        BY <1>1, <2>2
    <2> QED
        BY <1>1, <1>2, <2>1, <2>2, <2>4, <2>5 DEF EventsAreSound
<1> QED
    BY <1>2, <1>3, <1>4, <1>6, <1>7 DEF SessionInv

LEMMA HandlerKeeps ==
    ASSUME SessionInv, NEW how \in {"ok", "failed"}, HandlerEnds(how)
    PROVE  SessionInv' /\ Advances
<1>1. /\ handling # None /\ result = None /\ result' = how
      /\ UNCHANGED <<queueVars, log, inbox, sent, handling, holding, held,
                     identified, serverClose, killTimer, raised, snapshot, refused>>
    BY DEF HandlerEnds
<1>2. QueueInv' /\ Advances /\ queue' = queue /\ log' = log
    BY <1>1, StandsStill DEF queueVars
<1>3. SessionTypes'
    BY <1>1, <1>2 DEF SessionInv, SessionTypes, Advances
<1>4. Control' /\ Numbered'
    BY <1>1, <1>2 DEF SessionInv, Control, Numbered
<1>5. Closing' = Closing /\ Settled' = Settled
    BY <1>1, <1>2 DEF Closing, Settled
<1>6. AnswersAreSound'
    BY <1>1, <1>2, <1>5, AnswersStand
<1>7. result # "ok"
    BY <1>1, SessionAssumption
<1>8. EventsAreSound'
    BY <1>1, <1>2, <1>5, <1>7, EventsStand
<1> QED
    BY <1>2, <1>3, <1>4, <1>6, <1>8 DEF SessionInv

LEMMA TransportKeeps ==
    ASSUME SessionInv, Transport
    PROVE  SessionInv'
<1>1. /\ StreamReads \/ ClientReceives \/ Cut \/ ClientSeesEnd
      /\ UNCHANGED <<log, inbox, sent, handling, result, holding, held, identified,
                     serverClose, killTimer, raised, snapshot, refused>>
    BY DEF Transport, sessionVars
<1>2. QueueInv'
    BY <1>1, NextInv DEF SessionInv, Next
<1>3. /\ ClientTypeOK /\ Tidy(queue) /\ queue \in QueueRecords
      /\ log \in Seq(Contents) /\ Len(log) = queue.accepted
      /\ killTimer \in BOOLEAN
    BY StateIsSound DEF SessionInv, SessionTypes
<1>4. CASE StreamReads
    <2>1. queue' = Read(queue) /\ ~queue.ended /\ Untouched
        BY <1>4 DEF StreamReads
    <2>2. /\ queue'.accepted = queue.accepted /\ queue'.fresh = queue.fresh
          /\ queue'.cut = queue.cut /\ queue'.finishing = queue.finishing
          /\ queue'.destroyed = queue.destroyed
        BY <1>3, <2>1, ReadKeeps DEF Same
    <2>3. Grows(State, State) /\ State.queue = queue /\ State.log = log
        BY StateIsSound, GrowsNot
    <2>4. Advances
        BY <1>1, <1>3, <2>1, <2>2, <2>3 DEF Advances, Grows
    <2> QED
        BY <1>1, <1>2, <1>3, <2>2, <2>4, Elsewhere
<1>5. CASE Cut
    <2>1. queue' = [queue EXCEPT !.cut = TRUE] /\ Untouched
        BY <1>5 DEF Cut
    <2>2. /\ QueueInv' /\ Advances /\ queue'.finishing = queue.finishing
          /\ queue'.destroyed = queue.destroyed
        BY <1>1, <2>1, FlagRaised
    <2> QED
        BY <1>1, <1>3, <2>2, Elsewhere
<1>6. CASE ClientReceives \/ ClientSeesEnd
    <2>1. /\ ~queue.cut
          /\ queue' = queue \/ queue' = [queue EXCEPT !.pipe = Tail(@)]
        BY <1>6 DEF ClientReceives, ClientSeesEnd, Alive
    <2>2. /\ queue'.accepted = queue.accepted /\ queue'.cut = queue.cut
          /\ queue'.finishing = queue.finishing
          /\ queue'.destroyed = queue.destroyed
        BY <1>3, <2>1 DEF QueueRecords
    <2>3. Deliverable' = Deliverable /\ Settled' = Settled /\ Closing' = Closing
        BY <1>1, <2>1, <2>2 DEF Deliverable, Settled, Closing
    <2>4. SessionTypes'
        BY <1>1, <2>2 DEF SessionInv, SessionTypes
    <2>5. Control' /\ Numbered'
        BY <1>1, <2>2 DEF SessionInv, Control, Numbered
    <2>6. AnswersAreSound'
        BY <1>1, <2>1, <2>2, <2>3 DEF SessionInv, AnswersAreSound
    <2>7. EventsAreSound'
        BY <1>1, <2>1, <2>2, <2>3 DEF SessionInv, EventsAreSound
    <2> QED
        BY <1>2, <2>4, <2>5, <2>6, <2>7 DEF SessionInv
<1> QED
    BY <1>1, <1>4, <1>5, <1>6

LEMMA RefuseStrangerKeeps ==
    ASSUME SessionInv, NEW r, RefuseStranger(r)
    PROVE  SessionInv' /\ Advances
<1>1. /\ TakenFromInbox(r) /\ ~Closing /\ ~identified
      /\ Becomes(ClosedPolitely(Responded(State, Answer(r, "refused"))))
      /\ holding' = FALSE /\ held' = <<>>
      /\ serverClose' = TRUE /\ killTimer' = TRUE /\ Untouched
      /\ UNCHANGED <<sent, handling, result, identified, raised, snapshot>>
      /\ refused' = r.id
    BY DEF RefuseStranger
<1>2. /\ inbox' \in Seq(Requests) /\ Len(inbox') \in Nat
      /\ Len(inbox') < sent' /\ sent' \in Nat
      /\ r \in Requests /\ r.id = sent' - Len(inbox')
      /\ handling = None /\ result = None /\ held = <<>>
      /\ Settled + 1 = r.id /\ Settled \in Nat
      /\ \A i \in 1..Len(inbox') : inbox'[i].id = (sent' - Len(inbox')) + i
    BY <1>1, Taking
<1>3. /\ Sound(State) /\ State.queue = queue /\ State.log = log
      /\ ClientTypeOK /\ log \in Seq(Contents) /\ Len(log) \in Nat
      /\ ~queue.finishing /\ ~queue.destroyed
      /\ held \in Seq(EventFrames \cup {Speakers})
    BY <1>1, StateIsSound DEF SessionInv, SessionTypes, Control, Closing
<1>4. PICK c \in AnswerFrames : c = Answer(r, "refused")
    BY <1>2 DEF Answer, AnswerFrames, Requests
<1>5. /\ c.request = Settled + 1 /\ c = Answer([id |-> r.id], "refused")
      /\ c \in Contents /\ IsAnswer(c) /\ ~IsEvent(c) /\ c # Speakers
    BY <1>2, <1>4, ContentKinds DEF Answer
<1>6. PICK t : t = Put(State, c)
    OBVIOUS
<1>7. /\ Grows(State, t) /\ Sound(t)
      /\ \/ t.log = log /\ t.queue.cut
         \/ t.log = Append(log, c) /\ t.queue.cut = queue.cut
    BY <1>3, <1>5, <1>6, PutGrows DEF Grows
<1>8. Responded(State, Answer(r, "refused")) = t
    BY <1>2, <1>3, <1>4, <1>6, <1>7, FlushedNot DEF Responded
<1>9. /\ QueueInv' /\ Advances /\ queue'.finishing
      /\ ~queue'.destroyed /\ queue'.cut = t.queue.cut /\ log' = t.log
    BY <1>1, <1>3, <1>7, <1>8, HungUp
<1>10. SessionTypes'
    <2>1. held' \in Seq(EventFrames \cup {Speakers}) /\ refused' \in Nat
        BY <1>1, <1>2, EmptySeq DEF Requests
    <2> QED
        BY <1>1, <1>2, <1>9, <2>1 DEF SessionInv, SessionTypes, Advances
<1>11. Control'
    <2>1. queue'.finishing = serverClose'
        BY <1>1, <1>9 DEF QueueInv, Tidy, Shape, QueueRecords
    <2> QED
        BY <1>1, <1>2, <1>9, <2>1 DEF SessionInv, Control
<1>12. Numbered' /\ Closing'
    BY <1>1, <1>2 DEF Numbered, Closing
<1>13. /\ InTurn(log', Deliverable') /\ AfterAnswers(log', Deliverable')
       /\ Refusal(log', refused') \/ (queue'.cut /\ ~goodbye')
       /\ \A i \in 1..Len(log') : ~IsEvent(log'[i])
    <2>1. \A i \in 1..Len(log) : ~IsEvent(log[i])
        BY <1>1, <1>3 DEF SessionInv, EventsAreSound
    <2>2. ~goodbye'
        BY <1>1, <1>3 DEF SessionInv, QueueInv, Tidy, Shape, EndsEmpty, Untouched
    <2>3. CASE log' = log /\ queue'.cut
        BY <1>9, <2>1, <2>2, <2>3, LogStands
    <2>4. CASE log' = Append(log, c) /\ queue'.cut = queue.cut
        <3>1. /\ Len(log') = Len(log) + 1 /\ log'[Len(log) + 1] = c
              /\ \A i \in 1..Len(log) : log'[i] = log[i]
            BY <1>3, <1>5, <2>4, AppendProperties
        <3>2. \A i \in 1..Len(log') : ~IsEvent(log'[i])
            BY <1>3, <1>5, <2>1, <3>1
        <3>3. Refusal(log', refused')
            <4>1. Len(log) + 1 \in 1..Len(log')
                BY <1>3, <3>1
            <4> QED
                BY <1>1, <1>5, <3>1, <4>1 DEF Refusal
        <3>4. CASE queue.cut
            BY <1>9, <2>4, <3>2, <3>3, <3>4, LogStands
        <3>5. CASE ~queue.cut
            <4>1. Deliverable = Len(log) /\ Deliverable' = Len(log) + 1
                BY <2>4, <3>1, <3>5 DEF Deliverable
            <4>2. /\ InTurn(log, Len(log)) /\ AnsweredUpTo(log, Settled)
                  /\ AfterAnswers(log, Len(log))
                BY <1>1, <3>5, <4>1 DEF SessionInv, AnswersAreSound, EventsAreSound
            <4>3. InTurn(log', Len(log) + 1)
                BY <1>2, <1>3, <1>5, <2>4, <4>2, AnswerAppended
            <4>4. AfterAnswers(log', Len(log) + 1)
                BY <1>3, <1>5, <2>4, <4>2, PlaceKept
            <4> QED
                BY <3>2, <3>3, <4>1, <4>3, <4>4
        <3> QED
            BY <3>4, <3>5
    <2> QED
        BY <1>7, <1>9, <2>3, <2>4
<1>14. AnswersAreSound'
    BY <1>12, <1>13 DEF AnswersAreSound
<1>15. EventsAreSound'
    <2>1. \A i \in 1..Len(held') : FALSE
        BY <1>1, EmptySeq
    <2> QED
        BY <1>12, <1>13, <2>1 DEF EventsAreSound
<1> QED
    BY <1>9, <1>10, <1>11, <1>12, <1>14, <1>15 DEF SessionInv

\* Nothing is left to flush.
LEMMA GaplessEmptied ==
    ASSUME NEW lg, NEW hd, NEW first, NEW last, Len(hd) \in Nat,
           Gapless(lg, hd, Len(hd), first, last)
    PROVE  Gapless(lg, <<>>, 0, first, last)
<1>1. (Len(hd) + 1)..Len(hd) = {} /\ (0 + 1)..Len(<<>>) = {}
    BY EmptySeq
<1> QED
    BY <1>1 DEF Gapless

LEMMA RespondKeeps ==
    ASSUME SessionInv, Respond
    PROVE  SessionInv' /\ Advances
<1> DEFINE hangsUp == handling.kind = "identify" /\ result = "failed" /\ ~Closing
<1>1. PICK t : t = Responded(State, Answer(handling, result))
    OBVIOUS
<1>2. /\ handling # None /\ result # None
      /\ Becomes(IF hangsUp THEN ClosedPolitely(t) ELSE t)
      /\ serverClose' = (serverClose \/ hangsUp)
      /\ killTimer' = (killTimer \/ hangsUp)
      /\ holding' = FALSE /\ held' = <<>> /\ handling' = None /\ result' = None
      /\ Untouched
      /\ UNCHANGED <<inbox, sent, identified, raised, snapshot, refused>>
    BY <1>1 DEF Respond
<1>3. /\ State.queue = queue /\ State.log = log
      /\ log \in Seq(Contents) /\ Len(log) \in Nat /\ Len(held) \in Nat
      /\ queue.finishing = serverClose /\ hangsUp \in BOOLEAN
      /\ serverClose \in BOOLEAN /\ killTimer \in BOOLEAN
      /\ queue.finishing \in BOOLEAN
    BY StateIsSound DEF SessionInv, SessionTypes, Control, QueueRecords
<1>4. /\ Grows(State, t)
      /\ ~Closing /\ ~t.queue.cut => Progress(t.log, Len(held))
      /\ ~identified => \/ t.log = log
                        \/ t.log = Append(log, Answer(handling, result))
    BY <1>1, <1>2, RespondedIs
<1>5. hangsUp => ~queue.finishing
    BY <1>3 DEF Closing
<1> HIDE DEF hangsUp
<1>6. /\ QueueInv' /\ Advances
      /\ queue'.finishing = serverClose' /\ queue'.destroyed = queue.destroyed
      /\ queue'.cut = t.queue.cut /\ log' = t.log
    <2>1. CASE hangsUp
        <3>1. Becomes(ClosedPolitely(t)) /\ serverClose' = TRUE
            BY <1>2, <2>1
        <3>2. /\ QueueInv' /\ Advances /\ queue'.finishing
              /\ queue'.destroyed = queue.destroyed
              /\ queue'.cut = t.queue.cut /\ log' = t.log
            BY <1>2, <1>4, <1>5, <2>1, <3>1, HungUp
        <3>3. queue'.finishing \in BOOLEAN
            BY <3>2 DEF QueueInv, Tidy, Shape, QueueRecords
        <3> QED
            BY <3>1, <3>2, <3>3
    <2>2. CASE ~hangsUp
        <3>1. Becomes(t) /\ serverClose' = serverClose
            BY <1>2, <1>3, <2>2
        <3> QED
            BY <1>2, <1>3, <1>4, <3>1, Enlarged
    <2> QED
        BY <2>1, <2>2
<1>7. ~Closing' => ~Closing
    BY <1>2, <1>3, <1>6 DEF Closing
<1>8. /\ handling.id = sent - Len(inbox) /\ Len(inbox) < sent
      /\ Settled' = handling.id
    BY <1>2 DEF SessionInv, Numbered, Settled
<1>9. SessionTypes'
    <2>1. held' \in Seq(EventFrames \cup {Speakers})
        BY <1>2, EmptySeq
    <2>2. serverClose' \in BOOLEAN /\ killTimer' \in BOOLEAN
        BY <1>2, <1>3
    <2> QED
        BY <1>2, <1>6, <2>1, <2>2 DEF SessionInv, SessionTypes, Advances
<1>10. Control'
    BY <1>2, <1>6 DEF SessionInv, Control
<1>11. Numbered'
    BY <1>2 DEF SessionInv, Numbered
<1>12. InTurn(log', Deliverable') /\ AfterAnswers(log', Deliverable')
    <2>1. CASE queue'.cut
        BY <1>6, <2>1, LogStands
    <2>2. CASE ~queue'.cut /\ Closing
        <3>1. log' = log
            BY <1>3, <1>4, <1>6, <2>2 DEF Grows, Closing
        <3> QED
            BY <1>6, <3>1, LogStands
    <2>3. CASE ~queue'.cut /\ ~Closing
        BY <1>4, <1>6, <2>3 DEF Progress, Deliverable
    <2> QED
        BY <2>1, <2>2, <2>3
<1>13. AnswersAreSound'
    <2>1. ~Closing' /\ ~queue'.cut => AnsweredUpTo(log', Settled')
        BY <1>4, <1>6, <1>7, <1>8 DEF Progress
    <2>2. refused' # 0 => Refusal(log', refused') \/ (queue'.cut /\ ~goodbye')
        <3> SUFFICES ASSUME refused # 0
                     PROVE  Refusal(log', refused) \/ (queue'.cut /\ ~goodbye')
            BY <1>2
        <3>1. Refusal(log, refused) \/ (queue.cut /\ ~goodbye)
            BY DEF SessionInv, AnswersAreSound
        <3> QED
            BY <1>6, <3>1, RefusalStays DEF Advances, Untouched
    <2> QED
        BY <1>12, <2>1, <2>2 DEF AnswersAreSound
<1>14. EventsAreSound'
    <2>1. \A i \in 1..Len(held') : FALSE
        BY <1>2, EmptySeq
    <2>2. ASSUME ~identified', ~queue'.destroyed
          PROVE  \A i \in 1..Len(log') : ~IsEvent(log'[i])
        <3>1. \A i \in 1..Len(log) : ~IsEvent(log[i])
            BY <1>2, <1>6, <2>2 DEF SessionInv, EventsAreSound
        <3>2. CASE log' = Append(log, Answer(handling, result))
            <4>1. PICK c \in AnswerFrames : c = Answer(handling, result)
                BY <1>2, Answering
            <4>2. c \in Contents /\ ~IsEvent(c)
                BY ContentKinds
            <4>3. /\ Len(log') = Len(log) + 1 /\ log'[Len(log) + 1] = c
                  /\ \A i \in 1..Len(log) : log'[i] = log[i]
                BY <1>3, <3>2, <4>1, <4>2, AppendProperties
            <4> QED
                BY <1>3, <3>1, <4>2, <4>3
        <3> QED
            BY <1>2, <1>4, <1>6, <2>2, <3>1, <3>2
    <2>3. ASSUME identified', ~Closing', ~queue'.cut
          PROVE  Gapless(log', held', 0, snapshot' + 1, raised') /\ Welcomed(log')
        <3>1. Progress(log', Len(held)) /\ identified
            BY <1>2, <1>4, <1>6, <1>7, <2>3
        <3>2. Gapless(log', held, Len(held), snapshot + 1, raised) /\ Welcomed(log')
            BY <3>1 DEF Progress
        <3>3. Gapless(log', <<>>, 0, snapshot + 1, raised)
            BY <1>3, <3>2, GaplessEmptied
        <3> QED
            BY <1>2, <3>2, <3>3
    <2> QED
        BY <1>12, <2>1, <2>2, <2>3 DEF EventsAreSound
<1> QED
    BY <1>6, <1>9, <1>10, <1>11, <1>13, <1>14 DEF SessionInv

LEMMA RoomEventKeeps ==
    ASSUME SessionInv, RoomEvent
    PROVE  SessionInv' /\ Advances
<1>1. PICK e : e = Event(raised + 1, handling)
    OBVIOUS
<1>2. /\ raised' = raised + 1
      /\ IF identified THEN Deliver(e) ELSE UNCHANGED <<queue, log, held>>
      /\ Untouched
      /\ UNCHANGED <<inbox, sent, handling, result, holding, identified,
                     serverClose, killTimer, snapshot, refused>>
    BY <1>1 DEF RoomEvent
<1>3. /\ raised \in Nat /\ snapshot \in 0..raised /\ raised' \in Nat
      /\ snapshot' \in 0..raised' /\ handling \in Requests \cup {None}
      /\ log \in Seq(Contents) /\ held \in Seq(EventFrames \cup {Speakers})
      /\ Len(log) \in Nat /\ Len(held) \in Nat
    BY <1>2, StateIsSound DEF SessionInv, SessionTypes
<1>4. /\ e \in EventFrames /\ e.number = raised + 1
      /\ e.during = IF handling = None THEN 0 ELSE handling.id
    BY <1>1, <1>3 DEF Event, EventFrames, Requests
<1>5. /\ e \in Contents /\ IsEvent(e) /\ e # Speakers
    BY <1>4, ContentKinds
<1>6. Settled' = Settled
    BY <1>2 DEF Settled
<1>7. CASE UNCHANGED <<queue, log, held>> /\ (~identified \/ Closing)
    <2>1. QueueInv' /\ Advances /\ queue' = queue /\ log' = log /\ held' = held
        BY <1>2, <1>7, StandsStill DEF queueVars, Untouched
    <2>2. SessionTypes'
        BY <1>2, <1>3, <2>1 DEF SessionInv, SessionTypes, Advances
    <2>3. Control' /\ Numbered'
        BY <1>2, <2>1 DEF SessionInv, Control, Numbered
    <2>4. Closing' = Closing
        BY <1>2, <2>1 DEF Closing
    <2>5. AnswersAreSound'
        BY <1>2, <1>6, <2>1, <2>4, AnswersStand
    <2>6. EventsAreSound'
        BY <1>2, <1>7, <2>1, <2>4, EventsStand
    <2> QED
        BY <2>1, <2>2, <2>3, <2>5, <2>6 DEF SessionInv
<1>8. CASE identified /\ ~Closing /\ holding
    <2>1. held' = Append(held, e) /\ UNCHANGED <<queue, log>>
        BY <1>2, <1>8 DEF Deliver
    <2>2. QueueInv' /\ Advances /\ queue' = queue /\ log' = log
        BY <1>2, <2>1, StandsStill DEF queueVars, Untouched
    <2>3. /\ held' \in Seq(EventFrames \cup {Speakers})
          /\ Len(held') = Len(held) + 1 /\ held'[Len(held) + 1] = e
          /\ \A i \in 1..Len(held) : held'[i] = held[i]
        BY <1>3, <1>4, <2>1, AppendProperties
    <2>4. SessionTypes'
        BY <1>2, <1>3, <2>2, <2>3 DEF SessionInv, SessionTypes, Advances
    <2>5. Control' /\ Numbered'
        BY <1>2, <1>8, <2>2 DEF SessionInv, Control, Numbered
    <2>6. Closing' = Closing
        BY <1>2, <2>2 DEF Closing
    <2>7. AnswersAreSound'
        BY <1>2, <1>6, <2>2, <2>6, AnswersStand
    <2>8. EventsAreSound'
        <3>1. AfterAnswers(log', Deliverable')
            BY <2>2, LogStands
        <3>2. handling # None
            BY <1>8 DEF SessionInv, Control
        <3>3. \A i \in 1..Len(held') : IsEvent(held'[i]) => held'[i].during = handling'.id
            <4>1. \A i \in 1..Len(held) : IsEvent(held[i]) => held[i].during = handling.id
                BY DEF SessionInv, EventsAreSound
            <4>2. \A i \in 1..Len(held') : i \in 1..Len(held) \/ i = Len(held) + 1
                BY <1>3, <2>3
            <4>3. e.during = handling.id /\ handling' = handling
                BY <1>2, <1>4, <3>2
            <4> QED
                BY <2>3, <4>1, <4>2, <4>3
        <3>4. ASSUME ~queue'.cut
              PROVE  /\ Gapless(log', held', 0, snapshot' + 1, raised')
                     /\ Welcomed(log') \/ (holding' /\ result' = "ok")
            <4>1. /\ Gapless(log, held, 0, snapshot + 1, raised)
                  /\ Welcomed(log) \/ (holding /\ result = "ok")
                BY <1>8, <2>2, <3>4 DEF SessionInv, EventsAreSound
            <4>2. /\ snapshot + 1 \in Nat /\ raised + 1 \in Nat
                  /\ snapshot + 1 <= raised + 1
                BY <1>3
            <4>3. Gapless(log, Append(held, e), 0, snapshot + 1, raised + 1)
                BY <1>3, <1>4, <1>5, <4>1, <4>2, GaplessHeld
            <4> QED
                BY <1>2, <2>1, <2>2, <4>1, <4>3
        <3>5. identified'
            BY <1>2, <1>8
        <3> QED
            BY <3>1, <3>3, <3>4, <3>5 DEF EventsAreSound
    <2> QED
        BY <2>2, <2>4, <2>5, <2>7, <2>8 DEF SessionInv
<1>9. CASE identified /\ ~Closing /\ ~holding
    <2>1. Becomes(Put(State, e)) /\ held' = held
        BY <1>2, <1>9 DEF Deliver
    <2>2. PICK t : t = Put(State, e)
        OBVIOUS
    <2>3. /\ Sound(State) /\ State.queue = queue /\ State.log = log /\ ClientTypeOK
          /\ ~queue.finishing /\ ~queue.destroyed
        BY <1>9, StateIsSound DEF SessionInv, Control, Closing
    <2>4. /\ Grows(State, t)
          /\ \/ t.log = log /\ t.queue.cut
             \/ t.log = Append(log, e) /\ t.queue.cut = queue.cut
        BY <1>5, <2>2, <2>3, PutGrows
    <2>5. /\ QueueInv' /\ Advances
          /\ queue'.finishing = queue.finishing /\ queue'.destroyed = queue.destroyed
          /\ queue' = t.queue /\ log' = t.log
        BY <1>2, <2>1, <2>2, <2>4, Enlarged
    <2>6. handling = None /\ held = <<>> /\ Len(held) = 0 /\ e.during = 0
        BY <1>4, <1>9, <2>3, EmptySeq DEF SessionInv, Control
    <2>7. SessionTypes'
        BY <1>2, <1>3, <2>1, <2>5 DEF SessionInv, SessionTypes, Advances
    <2>8. Control' /\ Numbered'
        BY <1>2, <2>1, <2>5 DEF SessionInv, Control, Numbered
    <2>9. Closing' = Closing /\ identified'
        BY <1>2, <1>9, <2>5 DEF Closing
    <2>10. ASSUME ~queue'.cut
           PROVE  /\ InTurn(log', Deliverable') /\ AnsweredUpTo(log', Settled')
                  /\ AfterAnswers(log', Deliverable')
                  /\ Gapless(log', held', 0, snapshot' + 1, raised') /\ Welcomed(log')
        <3>1. log' = Append(log, e) /\ ~queue.cut
            BY <2>4, <2>5, <2>10
        <3>2. Deliverable = Len(log) /\ Deliverable' = Len(log) + 1
            BY <1>3, <1>5, <2>10, <3>1, AppendProperties DEF Deliverable
        <3>3. /\ InTurn(log, Len(log)) /\ AnsweredUpTo(log, Settled)
              /\ AfterAnswers(log, Len(log))
              /\ Gapless(log, held, 0, snapshot + 1, raised) /\ Welcomed(log)
            BY <1>9, <3>1, <3>2 DEF SessionInv, AnswersAreSound, EventsAreSound
        <3>4. Settled \in Nat
            BY <2>6, StateIsSound DEF SessionInv, SessionTypes, Numbered, Settled
        <3>5. InTurn(log', Len(log) + 1) /\ AnsweredUpTo(log', Settled)
            BY <1>3, <1>4, <3>1, <3>3, <3>4, EventAppended
        <3>6. AfterAnswers(log', Len(log) + 1) /\ Welcomed(log')
            BY <1>3, <1>5, <2>6, <3>1, <3>3, PlaceKept
        <3>7. /\ snapshot + 1 \in Nat /\ snapshot + 1 <= raised + 1
            BY <1>3
        <3>8. Gapless(log', held, 0, snapshot + 1, raised + 1)
            BY <1>3, <1>4, <2>6, <3>1, <3>3, <3>7, GaplessDelivered
        <3> QED
            BY <1>2, <1>6, <2>1, <3>2, <3>5, <3>6, <3>8
    <2>11. InTurn(log', Deliverable') /\ AfterAnswers(log', Deliverable')
        BY <2>5, <2>10, LogStands
    <2>12. AnswersAreSound'
        <3>1. refused' # 0 => Refusal(log', refused') \/ (queue'.cut /\ ~goodbye')
            BY <1>2, <2>5, RefusalStays
            DEF SessionInv, AnswersAreSound, Advances, Untouched
        <3> QED
            BY <2>10, <2>11, <3>1 DEF AnswersAreSound
    <2>13. EventsAreSound'
        <3>1. \A i \in 1..Len(held') : FALSE
            BY <2>1, <2>6
        <3> QED
            BY <2>9, <2>10, <2>11, <3>1 DEF EventsAreSound
    <2> QED
        BY <2>5, <2>7, <2>8, <2>12, <2>13 DEF SessionInv
<1>10. ~identified \/ Closing => UNCHANGED <<queue, log, held>>
    BY <1>2 DEF Deliver
<1> QED
    BY <1>7, <1>8, <1>9, <1>10

LEMMA RoomSpeaksKeeps ==
    ASSUME SessionInv, RoomSpeaks
    PROVE  SessionInv' /\ Advances
<1>1. /\ identified /\ Deliver(Speakers) /\ Untouched
      /\ UNCHANGED <<inbox, sent, handling, result, holding, identified,
                     serverClose, killTimer, raised, snapshot, refused>>
    BY DEF RoomSpeaks
<1>2. /\ Speakers \in Contents /\ ~IsEvent(Speakers)
      /\ raised \in Nat /\ snapshot \in 0..raised /\ killTimer \in BOOLEAN
      /\ held \in Seq(EventFrames \cup {Speakers}) /\ Len(held) \in Nat
    BY StateIsSound, ContentKinds DEF SessionInv, SessionTypes
<1>3. CASE Closing
    <2>1. UNCHANGED <<queue, log, held>>
        BY <1>1, <1>3 DEF Deliver
    <2>2. QueueInv' /\ Advances /\ queue' = queue /\ log' = log
        BY <1>1, <2>1, StandsStill DEF queueVars, Untouched
    <2> QED
        BY <1>1, <1>2, <2>1, <2>2, Elsewhere
<1>4. CASE ~Closing /\ holding
    <2>1. held' = Append(held, Speakers) /\ UNCHANGED <<queue, log>>
        BY <1>1, <1>4 DEF Deliver
    <2>2. QueueInv' /\ Advances /\ queue' = queue /\ log' = log
        BY <1>1, <2>1, StandsStill DEF queueVars, Untouched
    <2>3. /\ held' \in Seq(EventFrames \cup {Speakers})
          /\ Len(held') = Len(held) + 1 /\ held'[Len(held) + 1] = Speakers
          /\ \A i \in 1..Len(held) : held'[i] = held[i]
        BY <1>2, <2>1, AppendProperties
    <2>4. SessionTypes'
        BY <1>1, <2>2, <2>3 DEF SessionInv, SessionTypes, Advances
    <2>5. Control' /\ Numbered'
        BY <1>1, <1>4, <2>2 DEF SessionInv, Control, Numbered
    <2>6. Closing' = Closing /\ Settled' = Settled
        BY <1>1, <2>2 DEF Closing, Settled
    <2>7. AnswersAreSound'
        BY <1>1, <2>2, <2>6, AnswersStand
    <2>8. EventsAreSound'
        <3>1. AfterAnswers(log', Deliverable')
            BY <2>2, LogStands
        <3>2. \A i \in 1..Len(held') : IsEvent(held'[i]) => held'[i].during = handling'.id
            BY <1>1, <1>2, <2>3 DEF SessionInv, EventsAreSound
        <3>3. ASSUME ~queue'.cut
              PROVE  /\ Gapless(log', held', 0, snapshot' + 1, raised')
                     /\ Welcomed(log') \/ (holding' /\ result' = "ok")
            <4>1. /\ Gapless(log, held, 0, snapshot + 1, raised)
                  /\ Welcomed(log) \/ (holding /\ result = "ok")
                BY <1>1, <1>4, <2>2, <3>3 DEF SessionInv, EventsAreSound
            <4>2. snapshot + 1 \in Nat
                BY <1>2
            <4>3. Gapless(log, Append(held, Speakers), 0, snapshot + 1, raised)
                BY <1>2, <4>1, <4>2, GaplessHeld
            <4> QED
                BY <1>1, <2>1, <2>2, <4>1, <4>3
        <3>4. identified'
            BY <1>1
        <3> QED
            BY <3>1, <3>2, <3>3, <3>4 DEF EventsAreSound
    <2> QED
        BY <2>2, <2>4, <2>5, <2>7, <2>8 DEF SessionInv
<1>5. CASE ~Closing /\ ~holding
    <2>1. Becomes(Put(State, Speakers)) /\ held' = held
        BY <1>1, <1>5 DEF Deliver
    <2>2. PICK t : t = Put(State, Speakers)
        OBVIOUS
    <2>3. Sound(State) /\ State.queue = queue /\ State.log = log /\ ClientTypeOK
        BY StateIsSound
    <2>4. Grows(State, t) /\ t.log = log
        BY <1>2, <2>2, <2>3, PutGrows
    <2>5. /\ QueueInv' /\ Advances
          /\ queue'.finishing = queue.finishing /\ queue'.destroyed = queue.destroyed
          /\ log' = log
        BY <1>1, <2>1, <2>2, <2>4, Enlarged
    <2> QED
        BY <1>1, <1>2, <2>1, <2>5, Elsewhere
<1> QED
    BY <1>3, <1>4, <1>5

\* A step of the server advances the queue; the rest of the chain moves by
\* steps of the queue's own.
LEMMA StepIs ==
    ASSUME SessionInv, SessionNext
    PROVE  SessionInv' /\ (Advances \/ Transport)
<1>1. ASSUME NEW kind \in Kinds, ClientSends(kind) PROVE SessionInv' /\ Advances
    BY <1>1, SendsKeeps
<1>2. ASSUME NEW r, Serve(r) PROVE SessionInv' /\ Advances
    BY <1>2, DropKeeps, RefuseStrangerKeeps, RefuseMalformedKeeps, TakeUpKeeps DEF Serve
<1>3. CASE IdentifyEnds
    BY <1>3, IdentifyKeeps
<1>4. ASSUME NEW how \in {"ok", "failed"}, HandlerEnds(how)
      PROVE  SessionInv' /\ Advances
    BY <1>4, HandlerKeeps
<1>5. CASE Respond
    BY <1>5, RespondKeeps
<1>6. CASE RoomEvent
    BY <1>6, RoomEventKeeps
<1>7. CASE RoomSpeaks
    BY <1>7, RoomSpeaksKeeps
<1>8. CASE ServerCloses
    BY <1>8, ServerClosesKeeps
<1>9. CASE KillTimerFires
    BY <1>9, KillTimerKeeps
<1>10. CASE ConnectionClosed
    BY <1>10, ClosedKeeps
<1>11. CASE Transport
    BY <1>11, TransportKeeps
<1> QED
    BY <1>1, <1>2, <1>3, <1>4, <1>5, <1>6, <1>7, <1>8, <1>9, <1>10, <1>11
    DEF SessionNext

LEMMA NextSession == SessionInv /\ [SessionNext]_vars => SessionInv'
<1> SUFFICES ASSUME SessionInv, [SessionNext]_vars PROVE SessionInv'
    OBVIOUS
<1>1. CASE SessionNext
    BY <1>1, StepIs
<1>2. CASE UNCHANGED vars
    <2>1. /\ UNCHANGED <<queueVars, log>>
          /\ UNCHANGED <<inbox, sent, handling, result, holding, held, identified,
                         serverClose, killTimer, raised, snapshot, refused>>
        BY <1>2 DEF vars, sessionVars
    <2>2. QueueInv' /\ Advances /\ queue' = queue
        BY <2>1, StandsStill DEF queueVars
    <2>3. killTimer' \in BOOLEAN
        BY <2>1 DEF SessionInv, SessionTypes
    <2> QED
        BY <2>1, <2>2, <2>3, Elsewhere
<1> QED
    BY <1>1, <1>2

LEMMA SessionSpecInv == SessionSpec => []SessionInv
BY InitSession, NextSession, PTL DEF SessionSpec

-----------------------------------------------------------------------------
(* What follows for a reader.                                              *)

LEMMA SessionTyped == SessionInv => SessionTypeOK
<1> SUFFICES ASSUME SessionInv PROVE SessionTypeOK
    OBVIOUS
<1>1. QueueTypeOK
    BY QueueInvSays DEF SessionInv
<1>2. /\ Len(log) = queue.accepted /\ inbox \in Seq(Requests)
      /\ handling \in Requests \cup {None} /\ result \in {None, "ok", "failed"}
      /\ {holding, identified, serverClose, killTimer} \subseteq BOOLEAN
    BY DEF SessionInv, SessionTypes
<1>3. {sent, raised, snapshot, refused} \subseteq Nat
    BY DEF SessionInv, SessionTypes
<1>4. (handling = None => result = None) /\ (~holding => held = <<>>)
    BY DEF SessionInv, Control
<1> QED
    BY <1>1, <1>2, <1>3, <1>4 DEF SessionTypeOK

\* However many requests are asked while others are served, the client reads
\* the answers in the order it asked and misses none before a later one
\* (the Writable of dispatcher.ts, respond in session.ts).
THEOREM AnswersInTurn == SessionSpec => []AnsweredInTurn
<1>1. SessionInv => AnsweredInTurn
    <2> SUFFICES ASSUME SessionInv PROVE AnsweredInTurn
        OBVIOUS
    <2>1. SessionTypeOK
        BY SessionTyped
    <2>2. InTurn(log, Deliverable)
        BY DEF SessionInv, AnswersAreSound
    <2> QED
        BY <2>1, <2>2 DEF AnsweredInTurn, InTurn, IsAnswer
<1> QED
    BY <1>1, SessionSpecInv, PTL

\* What is accepted and what is held are, one after the other, the events
\* since the picture of the room.
LEMMA NoGap == SessionInv => NoGapAfterReady
<1> SUFFICES ASSUME SessionInv, identified, ~Closing, ~queue.cut
             PROVE  LET all == log \o held
                        events == {i \in DOMAIN all : all[i].what = "event"}
                    IN  /\ \A i, j \in events : i < j => all[i].number < all[j].number
                        /\ {all[i].number : i \in events} = (snapshot + 1)..raised
    BY DEF NoGapAfterReady
<1>1. Gapless(log, held, 0, snapshot + 1, raised)
    BY DEF SessionInv, EventsAreSound
<1>2. PICK all : all = log \o held
    OBVIOUS
<1>3. /\ log \in Seq(Contents) /\ held \in Seq(EventFrames \cup {Speakers})
      /\ Len(log) \in Nat /\ Len(held) \in Nat
    BY StateIsSound DEF SessionInv, SessionTypes
<1>4. held \in Seq(Contents)
    <2>1. EventFrames \cup {Speakers} \subseteq Contents
        BY DEF Contents
    <2> QED
        BY <1>3, <2>1
<1>5. /\ all \in Seq(Contents) /\ Len(all) = Len(log) + Len(held)
      /\ \A i \in 1..(Len(log) + Len(held)) :
             all[i] = IF i <= Len(log) THEN log[i] ELSE held[i - Len(log)]
    BY <1>2, <1>3, <1>4, ConcatProperties
<1>6. DOMAIN all = 1..(Len(log) + Len(held))
    BY <1>5, LenProperties
<1>7. \A i \in 1..Len(log) : all[i] = log[i] /\ i \in DOMAIN all
    BY <1>3, <1>5, <1>6
<1>8. ASSUME NEW j \in 1..Len(held)
      PROVE  all[Len(log) + j] = held[j] /\ Len(log) + j \in DOMAIN all
    <2>1. /\ Len(log) + j \in 1..(Len(log) + Len(held)) /\ ~(Len(log) + j <= Len(log))
          /\ (Len(log) + j) - Len(log) = j
        BY <1>3
    <2>2. all[Len(log) + j] = held[(Len(log) + j) - Len(log)]
        BY <1>5, <2>1
    <2> QED
        BY <1>6, <2>1, <2>2
<1>9. \A i \in DOMAIN all :
          \/ i \in 1..Len(log)
          \/ i - Len(log) \in 1..Len(held) /\ all[i] = held[i - Len(log)]
    BY <1>3, <1>5, <1>6
<1>10. 0 + 1 = 1
    OBVIOUS
<1>11. ASSUME NEW i \in DOMAIN all, NEW j \in DOMAIN all, i < j,
              all[i].what = "event", all[j].what = "event"
       PROVE  all[i].number < all[j].number
    <2>1. i \in Nat /\ j \in Nat
        BY <1>3, <1>6
    <2>2. CASE j \in 1..Len(log)
        <3>1. i \in 1..Len(log)
            BY <1>3, <1>6, <1>11, <2>2
        <3> QED
            BY <1>1, <1>7, <1>11, <2>2, <3>1 DEF Gapless, IsEvent
    <2>3. CASE i \in 1..Len(log) /\ j \notin 1..Len(log)
        <3>1. PICK m \in 1..Len(held) : all[j] = held[m]
            BY <1>9, <2>3
        <3>2. IsEvent(held[m]) /\ IsEvent(log[i]) /\ all[i] = log[i]
            BY <1>7, <1>11, <2>3, <3>1 DEF IsEvent
        <3> QED
            BY <1>1, <1>10, <2>3, <3>1, <3>2 DEF Gapless
    <2>4. CASE i \notin 1..Len(log) /\ j \notin 1..Len(log)
        <3>1. PICK l, m \in 1..Len(held) :
                  l = i - Len(log) /\ m = j - Len(log) /\ all[i] = held[l] /\ all[j] = held[m]
            BY <1>9, <2>4
        <3>2. l < m
            BY <1>3, <1>11, <2>1, <3>1
        <3>3. IsEvent(held[l]) /\ IsEvent(held[m])
            BY <1>11, <3>1 DEF IsEvent
        <3> QED
            BY <1>1, <1>10, <3>1, <3>2, <3>3 DEF Gapless
    <2> QED
        BY <2>2, <2>3, <2>4
<1> DEFINE events == {i \in DOMAIN all : all[i].what = "event"}
<1>12. ASSUME NEW i \in DOMAIN all, all[i].what = "event"
       PROVE  all[i].number \in (snapshot + 1)..raised
    <2>1. CASE i \in 1..Len(log)
        BY <1>1, <1>7, <1>12, <2>1 DEF Gapless, IsEvent
    <2>2. CASE i \notin 1..Len(log)
        <3>1. PICK m \in 1..Len(held) : all[i] = held[m]
            BY <1>9, <2>2
        <3> QED
            BY <1>1, <1>10, <1>12, <3>1 DEF Gapless, IsEvent
    <2> QED
        BY <2>1, <2>2
<1>13. ASSUME NEW n \in (snapshot + 1)..raised
       PROVE  \E i \in events : all[i].number = n
    <2>1. CASE \E i \in 1..Len(log) : IsEvent(log[i]) /\ log[i].number = n
        BY <1>7, <2>1 DEF IsEvent
    <2>2. CASE \E j \in 1..Len(held) : IsEvent(held[j]) /\ held[j].number = n
        <3>1. PICK j \in 1..Len(held) : IsEvent(held[j]) /\ held[j].number = n
            BY <2>2
        <3>2. PICK i \in DOMAIN all : all[i] = held[j]
            BY <1>8
        <3>3. all[i].what = "event" /\ all[i].number = n
            BY <3>1, <3>2 DEF IsEvent
        <3> QED
            BY <3>3
    <2> QED
        BY <1>1, <1>10, <2>1, <2>2 DEF Gapless
<1>14. {all[i].number : i \in events} = (snapshot + 1)..raised
    BY <1>12, <1>13
<1> QED
    BY <1>2, <1>11, <1>14

\* An event a request brings about never overtakes its answer, and from the
\* picture `ready` carries the client misses none and sees none twice, however
\* the events fall between the steps of a request and whatever waits
\* (deliver, respond and identify in session.ts and server.ts).
THEOREM EventsInPlace == SessionSpec => []EventsInTheirPlace
<1>1. SessionInv => EventsInTheirPlace
    <2> SUFFICES ASSUME SessionInv PROVE EventsInTheirPlace
        OBVIOUS
    <2>1. AfterAnswers(log, Deliverable)
        BY DEF SessionInv, EventsAreSound
    <2>2. EventsFollowTheirAnswer
        BY <2>1 DEF EventsFollowTheirAnswer, AfterAnswers, IsAnswer, IsEvent
    <2> QED
        BY <2>2, NoGap DEF EventsInTheirPlace
<1> QED
    BY <1>1, SessionSpecInv, PTL

\* Whoever sees the closing frame has read everything the server accepted for
\* it, the refusal that explains the close included (close in session.ts, the
\* refusal of a stranger in dispatcher.ts).
THEOREM EndExplained == SessionSpec => []EndIsExplained
<1>1. SessionInv => EndIsExplained
    <2> SUFFICES ASSUME SessionInv, goodbye
                 PROVE  /\ received = Len(log)
                        /\ refused # 0 => Refusal(log, refused)
        BY DEF EndIsExplained, Refusal
    <2>1. received = queue.accepted
        BY AllReceived DEF SessionInv, QueueInv
    <2>2. Len(log) = queue.accepted
        BY DEF SessionInv, SessionTypes
    <2>3. refused # 0 => Refusal(log, refused)
        BY DEF SessionInv, AnswersAreSound
    <2> QED
        BY <2>1, <2>2, <2>3
<1> QED
    BY <1>1, SessionSpecInv, PTL

\* The queue's own limits hold of a connection too, where a step may queue an
\* answer and all the events it held (respond in session.ts, enqueue and
\* enqueueLatest in outbound.ts).
THEOREM SessionBacklogBounded == SessionSpec => []BacklogIsBounded
<1>1. SessionInv => BacklogIsBounded
    BY QueueInvSays DEF SessionInv
<1> QED
    BY <1>1, SessionSpecInv, PTL

\* No answer and no event waits for a socket that asked for a frame and was
\* given none (pump in outbound.ts, as the session uses it).
THEOREM SessionNoLostWakeup == SessionSpec => []NothingWaitsOnAnIdleSocket
<1>1. SessionInv => NothingWaitsOnAnIdleSocket
    BY QueueInvSays DEF SessionInv
<1> QED
    BY <1>1, SessionSpecInv, PTL

-----------------------------------------------------------------------------
(* A connection implements FrameStream.                                    *)

LEMMA AdvancesMaps ==
    ASSUME SessionInv, QueueInv', Advances
    PROVE  [Stream!Next]_(Stream!streamVars)
<1>1. /\ received' = received /\ shown' = shown /\ goodbye' = goodbye
      /\ queue.accepted \in Nat /\ queue'.accepted \in Nat
      /\ queue.accepted <= queue'.accepted
      /\ queue.cut => queue'.cut
      /\ goodbye => queue'.accepted = queue.accepted
    BY DEF Advances, Untouched, SessionInv, SessionTypes, QueueInv, Tidy, Shape, QueueRecords
<1>2. \A k \in Keys : queue'.fresh[k] >= queue.fresh[k]
    <2>1. queue.fresh \in [Keys -> Nat] /\ queue'.fresh \in [Keys -> Nat]
        BY DEF SessionInv, QueueInv, Tidy, Shape, QueueRecords
    <2>2. \A k \in Keys : queue.fresh[k] <= queue'.fresh[k]
        BY DEF Advances
    <2>3. ASSUME NEW k \in Keys PROVE queue'.fresh[k] >= queue.fresh[k]
        <3>1. queue.fresh[k] \in Nat /\ queue'.fresh[k] \in Nat
            BY <2>1
        <3> QED
            BY <2>2, <3>1
    <2> QED
        BY <2>3
<1>3. CASE ~goodbye /\ ~queue.cut /\ queue'.cut
    <2>1. queue'.accepted >= queue.accepted
        BY <1>1
    <2>2. Stream!Cut
        BY <1>1, <1>2, <1>3, <2>1 DEF Stream!Cut
    <2> QED
        BY <2>2 DEF Stream!Next
<1>4. CASE goodbye \/ queue.cut \/ ~queue'.cut
    <2>1. (IF goodbye' THEN "complete" ELSE IF queue'.cut THEN "cut" ELSE "open")
              = (IF goodbye THEN "complete" ELSE IF queue.cut THEN "cut" ELSE "open")
        BY <1>1, <1>4
    <2>2. CASE queue'.accepted = queue.accepted
        <3>1. Stream!Renew
            BY <1>1, <1>2, <2>1, <2>2 DEF Stream!Renew
        <3> QED
            BY <3>1 DEF Stream!Next
    <2>3. CASE queue'.accepted # queue.accepted
        <3>1. ~goodbye /\ queue'.accepted > queue.accepted
            BY <1>1, <2>3
        <3>2. Stream!Accept
            BY <1>1, <1>2, <2>1, <3>1 DEF Stream!Accept
        <3> QED
            BY <3>2 DEF Stream!Next
    <2> QED
        BY <2>2, <2>3
<1> QED
    BY <1>3, <1>4

LEMMA SessionMaps ==
    SessionInv /\ [SessionNext]_vars => [Stream!Next]_(Stream!streamVars)
<1> SUFFICES ASSUME SessionInv, [SessionNext]_vars
             PROVE  [Stream!Next]_(Stream!streamVars)
    OBVIOUS
<1>1. CASE SessionNext
    <2>1. CASE Advances
        BY <1>1, <2>1, StepIs, AdvancesMaps DEF SessionInv
    <2>2. CASE Transport
        BY <2>2, StepMaps DEF SessionInv, Transport, Next
    <2> QED
        BY <1>1, <2>1, <2>2, StepIs
<1>2. CASE UNCHANGED vars
    BY <1>2, StepMaps DEF SessionInv, vars
<1> QED
    BY <1>1, <1>2

\* A whole connection keeps the promise its queue keeps alone, though one of
\* its steps may queue an answer, flush what was held and hang up: the frames
\* arrive in order, none twice and none missing, until the connection is cut
\* (session.ts over outbound.ts).
THEOREM SessionKeepsStream == SessionSpec => KeepsStream
<1>1. SessionInit => Stream!Init
    BY InitMaps DEF SessionInit
<1>2. SessionInv /\ [SessionNext]_vars => [Stream!Next]_(Stream!streamVars)
    BY SessionMaps
<1> QED
    BY <1>1, <1>2, SessionSpecInv, PTL DEF SessionSpec, KeepsStream, Stream!Spec
=============================================================================
