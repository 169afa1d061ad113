------------------------------ MODULE ApiProofs ------------------------------
(***************************************************************************)
(* Proofs about what the API keeps in its database.                        *)
(*                                                                         *)
(* MediaSessions, for any number of people, of requests at once and of     *)
(* events: in order, a stay whose ends were handled is one session with    *)
(* those ends, nothing is left open past the end of the room, and in any   *)
(* order an entry counts once.                                             *)
(*                                                                         *)
(* Catalog, for any number of rooms, channels, users and requests at once: *)
(* an owner stays a member and a room stands in a channel that is there,   *)
(* but for what the late end of an overtaken request does to that very     *)
(* owner, or that very room.                                               *)
(***************************************************************************)
EXTENDS MediaSessions, Catalog, FiniteSetTheorems, TLAPS

-----------------------------------------------------------------------------
(* MediaSessions: the inductive invariant.                                 *)

\* Event k is the exit of the stay that event n began.
IsExit(n, k) ==
    /\ k \in n + 1 .. Len(history)
    /\ Of(k, "left", history[n].who)
    /\ \A j \in n + 1 .. k - 1 : ~Of(j, "left", history[n].who)

Joined(n) == history[n].kind = "joined"

\* What LiveKit tells of one room: nobody enters twice, and it finishes empty.
HistoryMakesSense ==
    /\ \A n \in 1 .. Len(history) : Joined(n) => history[n].who \in People
    /\ \A n, k \in 1 .. Len(history) :
          (n < k /\ Joined(n) /\ Of(k, "joined", history[n].who))
          => \E j \in n + 1 .. k - 1 : Of(j, "left", history[n].who)
    /\ \A n \in 1 .. Len(history) :
          (Joined(n) /\ ~StillIn(n)) => \E k \in 1 .. Len(history) : IsExit(n, k)
    /\ \A n, f \in 1 .. Len(history) :
          (n < f /\ Joined(n) /\ history[f].kind = "finished")
          => \E j \in n + 1 .. f - 1 : Of(j, "left", history[n].who)

Stages == {"idle", "touching", "creating", "recording", "finding", "closing"}

\* A request is at a stage of the handler of its event.
TasksMakeSense ==
    /\ tasks \in [Tasks -> [event : 0 .. Len(history), at : Stages,
                            found : SUBSET (DOMAIN sessions)]]
    /\ \A t \in Tasks :
          tasks[t] = Idle \/ (tasks[t].event \in 1 .. Len(history) /\ tasks[t].at # "idle")

\* Only who created the session records the entry, once.
OneRecorder ==
    /\ entries \in [Numbers -> 0 .. 1]
    /\ \A n \in Numbers : entries[n] = 1 => n \in DOMAIN sessions
    /\ \A t \in Tasks : tasks[t].at = "recording" =>
          tasks[t].event \in DOMAIN sessions /\ entries[tasks[t].event] = 0
    /\ \A t, u \in Tasks :
          (tasks[t].at = "recording" /\ tasks[u].at = "recording"
             /\ tasks[t].event = tasks[u].event) => t = u

\* In order: one request, of the first event owed, and nothing known of later ones.
InTurn ==
    /\ \A t, u \in Serving : t = u
    /\ \A t \in Serving : tasks[t].event \in owed /\ \A m \in owed : tasks[t].event <= m
    /\ \A m \in owed : /\ \A n \in done : n <= m
                       /\ \A n \in DOMAIN sessions : n <= m /\ sessions[n] <= m

ClosedBy(f) == {n \in DOMAIN sessions : sessions[n] = f}

\* In order: what a request is about to close.
AboutToClose ==
    \A t \in Serving : tasks[t].at = "closing" =>
        /\ tasks[t].found \subseteq AnyOpen
        /\ history[tasks[t].event].kind = "left" =>
               /\ tasks[t].found \subseteq Open(history[tasks[t].event].who)
               /\ \A n \in tasks[t].found : \A k \in Open(history[tasks[t].event].who) : k <= n
        /\ history[tasks[t].event].kind = "finished" =>
               \/ AnyOpen \subseteq tasks[t].found
               \/ Cardinality(tasks[t].found \cup ClosedBy(tasks[t].event)) >= Take

\* In order: sessions and stays.
SessionsFollow ==
    /\ \A n \in done : Joined(n) => n \in DOMAIN sessions
    /\ \A n \in DOMAIN sessions : sessions[n] # 0 =>
          \E k \in 1 .. Len(history) : IsExit(n, k) /\ k <= sessions[n]
    /\ \A n, k \in done : (Joined(n) /\ IsExit(n, k)) => sessions[n] = k
    /\ \A f \in done : history[f].kind = "finished" =>
          \/ Cardinality(ClosedBy(f)) >= Take
          \/ \A n \in DOMAIN sessions : n < f => sessions[n] \in 1 .. f

SessionsInv ==
    /\ TypeOK /\ Len(history) <= MaxEvents
    /\ HistoryMakesSense /\ TasksMakeSense /\ OneRecorder
    /\ orderly => InTurn /\ AboutToClose /\ SessionsFollow

-----------------------------------------------------------------------------

LEMMA InitInv == Init => SessionsInv
  <1> SUFFICES ASSUME Init PROVE SessionsInv
    OBVIOUS
  <1>1. /\ history = <<>> /\ owed = {} /\ orderly \in BOOLEAN
        /\ sessions = <<>> /\ entries = [n \in Numbers |-> 0]
        /\ tasks = [t \in Tasks |-> Idle] /\ done = {}
    BY DEF Init
  <1>2. Len(history) = 0 /\ DOMAIN sessions = {}
    BY <1>1
  <1>3. Serving = {}
    BY <1>1 DEF Serving
  <1>4. tasks \in [Tasks -> [event : 0 .. Len(history), at : Stages,
                            found : SUBSET (DOMAIN sessions)]]
    BY <1>1, <1>2 DEF Idle, Stages
  <1>5. TypeOK /\ Len(history) <= MaxEvents
    BY <1>1, <1>2, <1>4, MediaSessionsAssumption DEF TypeOK, Stages
  <1>6. HistoryMakesSense /\ TasksMakeSense
    BY <1>1, <1>2, <1>4 DEF HistoryMakesSense, TasksMakeSense
  <1>7. OneRecorder
    BY <1>1, <1>2 DEF OneRecorder, Idle
  <1>8. InTurn /\ AboutToClose /\ SessionsFollow
    BY <1>1, <1>2, <1>3 DEF InTurn, AboutToClose, SessionsFollow
  <1>9. QED
    BY <1>5, <1>6, <1>7, <1>8 DEF SessionsInv

-----------------------------------------------------------------------------
(* What happens in the room, at LiveKit.                                   *)

\* The past stays as it was.
LEMMA PastIsKept ==
    ASSUME SessionsInv, NEW kind, NEW who, Happens(kind, who),
           kind \in {"joined", "left", "finished"}, who \in People \cup {Nobody}
    PROVE  /\ Len(history) \in Nat /\ Len(history') = Len(history) + 1
           /\ Len(history') <= MaxEvents
           /\ \A n \in 1 .. Len(history) : history'[n] = history[n]
           /\ history'[Len(history) + 1] = [kind |-> kind, who |-> who]
           /\ history' \in Seq([kind : {"joined", "left", "finished"}, who : People \cup {Nobody}])
  <1>1. history \in Seq([kind : {"joined", "left", "finished"}, who : People \cup {Nobody}])
    BY DEF SessionsInv, TypeOK
  <1>2. history' = Append(history, [kind |-> kind, who |-> who])
    BY DEF Happens
  <1>3. Len(history) < MaxEvents
    BY <1>1, MediaSessionsAssumption DEF Happens
  <1>4. QED
    BY <1>1, <1>2, <1>3, MediaSessionsAssumption

LEMMA HappensHistory ==
    ASSUME SessionsInv, NEW kind, NEW who, Happens(kind, who),
           \/ kind = "joined" /\ who \in People \ Inside
           \/ kind = "left" /\ who \in Inside
           \/ kind = "finished" /\ who = Nobody /\ Inside = {}
    PROVE  HistoryMakesSense'
  <1>1. kind \in {"joined", "left", "finished"} /\ who \in People \cup {Nobody}
    BY DEF Inside
  <1>2. PICK e \in Nat : e = Len(history) + 1
    BY <1>1, PastIsKept
  <1>3. /\ Len(history) \in Nat /\ e = Len(history) + 1 /\ Len(history') = e
        /\ \A n \in 1 .. Len(history) : history'[n] = history[n]
        /\ history'[e] = [kind |-> kind, who |-> who]
    BY <1>1, <1>2, PastIsKept
  <1>4. HistoryMakesSense
    BY DEF SessionsInv
  <1>5. \A n \in 1 .. Len(history) : Joined(n) => history[n].who \in People
    BY <1>4 DEF HistoryMakesSense
  <1>6. \A n \in 1 .. Len(history) : \A knd, p : Of(n, knd, p)' <=> Of(n, knd, p)
    BY <1>3 DEF Of
  <1>7. \A n \in 1 .. Len(history) : Joined(n)' <=> Joined(n)
    BY <1>3 DEF Joined
  \* Nobody who is in enters, and the room finishes only when nobody is in.
  <1>8. ASSUME NEW n \in 1 .. Len(history), Joined(n), kind = "finished" \/ (kind = "joined" /\ who = history[n].who)
        PROVE  \E j \in n + 1 .. Len(history) : Of(j, "left", history[n].who)
    <2>1. history[n].who \notin Inside
      BY <1>8, <1>5
    <2>2. ~StillIn(n)
      BY <1>8, <1>5, <2>1 DEF Inside, Of, Joined
    <2>3. QED
      BY <1>8, <2>2 DEF StillIn, Joined
  <1>9. ASSUME NEW n \in 1 .. e, NEW k \in 1 .. e, n < k, Joined(n)', Of(k, "joined", history[n].who)'
        PROVE  \E j \in n + 1 .. k - 1 : Of(j, "left", history[n].who)'
    <2>1. n \in 1 .. Len(history) /\ Joined(n) /\ history'[n] = history[n]
      BY <1>3, <1>9, <1>7
    <2>2. CASE k = e
      <3>1. kind = "joined" /\ who = history[n].who
        BY <1>3, <1>9, <2>1, <2>2 DEF Of
      <3>2. PICK j \in n + 1 .. Len(history) : Of(j, "left", history[n].who)
        BY <1>8, <2>1, <3>1
      <3>3. j \in n + 1 .. k - 1 /\ Of(j, "left", history[n].who)'
        BY <1>3, <2>1, <2>2, <3>2 DEF Of
      <3>4. QED
        BY <3>3
    <2>3. CASE k # e
      <3>1. k \in 1 .. Len(history) /\ Of(k, "joined", history[n].who)
        BY <1>3, <1>9, <2>1, <2>3 DEF Of
      <3>2. PICK j \in n + 1 .. k - 1 : Of(j, "left", history[n].who)
        BY <1>4, <1>9, <2>1, <3>1 DEF HistoryMakesSense
      <3>3. Of(j, "left", history[n].who)'
        BY <1>3, <2>1, <3>1, <3>2 DEF Of
      <3>4. QED
        BY <3>3
    <2>4. QED
      BY <2>2, <2>3
  <1>10. ASSUME NEW n \in 1 .. e, Joined(n)', ~StillIn(n)'
        PROVE  \E k \in 1 .. e : IsExit(n, k)'
    <2>1. PICK j \in n + 1 .. e : Of(j, "left", history[n].who)'
      BY <1>3, <1>10 DEF StillIn, Joined
    <2>2. n \in 1 .. Len(history) /\ Joined(n) /\ history'[n] = history[n]
      BY <1>3, <1>10, <1>7, <2>1
    <2>3. CASE StillIn(n)
      <3>1. \A i \in n + 1 .. Len(history) : ~Of(i, "left", history[n].who)'
        <4>1. \A i \in n + 1 .. Len(history) : ~Of(i, "left", history[n].who)
          BY <2>3 DEF StillIn
        <4>2. n + 1 .. Len(history) \subseteq 1 .. Len(history)
          BY <1>3, <2>2
        <4>3. QED
          BY <1>6, <2>2, <4>1, <4>2
      <3>2. j = e
        BY <1>3, <2>1, <2>2, <3>1
      <3>3. IsExit(n, e)'
        BY <1>3, <2>1, <2>2, <3>1, <3>2 DEF IsExit
      <3>4. QED
        BY <1>3, <3>3
    <2>4. CASE ~StillIn(n)
      <3>1. PICK k \in 1 .. Len(history) : IsExit(n, k)
        BY <1>4, <2>2, <2>4 DEF HistoryMakesSense
      <3>2. IsExit(n, k)'
        BY <1>3, <2>2, <3>1 DEF IsExit, Of
      <3>3. QED
        BY <1>3, <3>2
    <2>5. QED
      BY <2>3, <2>4
  <1>11. ASSUME NEW n \in 1 .. e, NEW f \in 1 .. e, n < f, Joined(n)', (history[f].kind = "finished")'
        PROVE  \E j \in n + 1 .. f - 1 : Of(j, "left", history[n].who)'
    <2>1. n \in 1 .. Len(history) /\ Joined(n) /\ history'[n] = history[n]
      BY <1>3, <1>11, <1>7
    <2>2. CASE f = e
      <3>1. kind = "finished"
        BY <1>3, <1>11, <2>2
      <3>2. PICK j \in n + 1 .. Len(history) : Of(j, "left", history[n].who)
        BY <1>8, <2>1, <3>1
      <3>3. j \in n + 1 .. f - 1 /\ Of(j, "left", history[n].who)'
        BY <1>3, <2>1, <2>2, <3>2 DEF Of
      <3>4. QED
        BY <3>3
    <2>3. CASE f # e
      <3>1. f \in 1 .. Len(history) /\ history[f].kind = "finished"
        BY <1>3, <1>11, <2>3
      <3>2. PICK j \in n + 1 .. f - 1 : Of(j, "left", history[n].who)
        BY <1>4, <1>11, <2>1, <3>1 DEF HistoryMakesSense
      <3>3. Of(j, "left", history[n].who)'
        BY <1>3, <2>1, <3>1, <3>2 DEF Of
      <3>4. QED
        BY <3>3
    <2>4. QED
      BY <2>2, <2>3
  <1>12. ASSUME NEW n \in 1 .. e, Joined(n)' PROVE history'[n].who \in People
    BY <1>3, <1>12, <1>5 DEF Joined, Inside
  <1>13. QED
    BY <1>3, <1>9, <1>10, <1>11, <1>12 DEF HistoryMakesSense

LEMMA HappensInv ==
    ASSUME SessionsInv, NEW kind, NEW who, Happens(kind, who),
           \/ kind = "joined" /\ who \in People \ Inside
           \/ kind = "left" /\ who \in Inside
           \/ kind = "finished" /\ who = Nobody /\ Inside = {}
    PROVE  SessionsInv'
  <1> DEFINE e == Len(history) + 1
  <1>1. kind \in {"joined", "left", "finished"} /\ who \in People \cup {Nobody}
    BY DEF Inside
  <1>2. /\ Len(history) \in Nat /\ Len(history') = e /\ Len(history') <= MaxEvents
        /\ \A n \in 1 .. Len(history) : history'[n] = history[n]
        /\ history' \in Seq([kind : {"joined", "left", "finished"}, who : People \cup {Nobody}])
    BY <1>1, PastIsKept
  <1>3. owed' = owed \cup {e} /\ UNCHANGED <<orderly, sessions, entries, tasks, done>>
    BY DEF Happens
  <1>4. TypeOK /\ TasksMakeSense /\ OneRecorder
    BY DEF SessionsInv
  <1>5. TypeOK'
    <2>1. /\ \A n \in owed' : n \in 1 .. Len(history')
          /\ \A n \in done' : n \in 1 .. Len(history')
      <3>1. 1 .. Len(history) \subseteq 1 .. Len(history') /\ e \in 1 .. Len(history')
        BY <1>2
      <3> HIDE DEF e
      <3>2. QED
        BY <1>3, <1>4, <3>1 DEF TypeOK
    <2>2. /\ DOMAIN sessions' \subseteq 1 .. Len(history')
          /\ \A n \in DOMAIN sessions' : sessions'[n] \in 0 .. Len(history')
          /\ \A n \in DOMAIN sessions' : history'[n].kind = "joined"
      BY <1>2, <1>3, <1>4 DEF TypeOK
    <2>3. \A t \in Tasks : /\ tasks'[t].event \in 0 .. Len(history')
                           /\ tasks'[t].found \subseteq DOMAIN sessions'
                           /\ tasks'[t].at \in Stages
      BY <1>2, <1>3, <1>4 DEF TypeOK, Stages
    <2>4. QED
      BY <1>2, <2>1, <2>2, <2>3 DEF TypeOK, Stages
  <1>6. TasksMakeSense' /\ OneRecorder'
    BY <1>2, <1>3, <1>4 DEF TasksMakeSense, OneRecorder
  <1>7. HistoryMakesSense'
    BY HappensHistory
  <1>8. ASSUME orderly PROVE InTurn' /\ AboutToClose' /\ SessionsFollow'
    <2>1. InTurn /\ AboutToClose /\ SessionsFollow
      BY <1>8 DEF SessionsInv
    <2>2. InTurn'
      BY <1>2, <1>3, <1>4, <2>1 DEF InTurn, TypeOK, Serving, TasksMakeSense
    <2>3. /\ \A p : Open(p)' = Open(p)
          /\ AnyOpen' = AnyOpen /\ \A f : ClosedBy(f)' = ClosedBy(f)
      BY <1>2, <1>3, <1>4 DEF Open, AnyOpen, ClosedBy, TypeOK
    <2>4. \A t \in Serving : tasks[t].event \in 1 .. Len(history)
      BY <1>4 DEF Serving, TasksMakeSense
    <2>5. AboutToClose'
      BY <1>2, <1>3, <2>1, <2>3, <2>4 DEF AboutToClose, Serving
    <2>6. \A n, k \in 1 .. Len(history) : IsExit(n, k)' <=> IsExit(n, k)
      <3> SUFFICES ASSUME NEW n \in 1 .. Len(history), NEW k \in 1 .. Len(history)
                   PROVE  IsExit(n, k)' <=> IsExit(n, k)
        OBVIOUS
      <3>1. history'[n] = history[n] /\ k \in 1 .. Len(history')
        BY <1>2
      <3>2. \A j \in 1 .. Len(history) : \A p : Of(j, "left", p)' <=> Of(j, "left", p)
        BY <1>2 DEF Of
      <3>3. \A j \in n + 1 .. k - 1 : j \in 1 .. Len(history)
        BY <1>2
      <3>4. QED
        BY <1>2, <3>1, <3>2, <3>3 DEF IsExit
    <2>7. \A n \in 1 .. Len(history) : Joined(n)' <=> Joined(n)
      BY <1>2 DEF Joined
    <2>8. SessionsFollow'
      BY <1>2, <1>3, <1>4, <2>1, <2>3, <2>6, <2>7 DEF SessionsFollow, TypeOK
    <2>9. QED
      BY <2>2, <2>5, <2>8
  <1>9. QED
    BY <1>2, <1>3, <1>5, <1>6, <1>7, <1>8 DEF SessionsInv

-----------------------------------------------------------------------------
(* The webhook.  The room does not change meanwhile.                       *)

LEMMA HistoryKept ==
    ASSUME SessionsInv, history' = history
    PROVE  /\ HistoryMakesSense'
           /\ \A n, k : IsExit(n, k)' <=> IsExit(n, k)
           /\ \A n : Joined(n)' <=> Joined(n)
  <1>1. /\ \A n, k : IsExit(n, k)' <=> IsExit(n, k)
        /\ \A n : Joined(n)' <=> Joined(n)
        /\ \A n : StillIn(n)' <=> StillIn(n)
        /\ \A n, kind, who : Of(n, kind, who)' <=> Of(n, kind, who)
    BY DEF IsExit, Joined, StillIn, Of
  <1>2. HistoryMakesSense
    BY DEF SessionsInv
  <1>3. QED
    BY <1>1, <1>2 DEF HistoryMakesSense

TaskType == [event : 0 .. Len(history), at : Stages, found : SUBSET (DOMAIN sessions)]

\* What is true of every step of a request: it goes on with its event, or ends.
LEMMA WebhookStep ==
    ASSUME SessionsInv, NEW t \in Tasks, tasks[t] # Idle,
           history' = history, orderly' = orderly,
           NEW next, tasks' = [tasks EXCEPT ![t] = next],
           next = Idle \/ (next.event = tasks[t].event /\ next.at # "idle" /\ next \in TaskType'),
           owed' \subseteq owed, next # Idle => owed' = owed,
           done' \subseteq done \cup {tasks[t].event},
           DOMAIN sessions \subseteq DOMAIN sessions',
           DOMAIN sessions' \subseteq DOMAIN sessions \cup {tasks[t].event},
           \A n \in DOMAIN sessions' \ DOMAIN sessions : Joined(n),
           \A n \in DOMAIN sessions' :
               \/ sessions'[n] \in {0, tasks[t].event}
               \/ n \in DOMAIN sessions /\ sessions'[n] = sessions[n]
    PROVE  /\ TypeOK' /\ Len(history') <= MaxEvents /\ HistoryMakesSense' /\ TasksMakeSense'
           /\ orderly => InTurn'
  <1> DEFINE e == tasks[t].event
  <1>1. /\ TypeOK /\ TasksMakeSense /\ Len(history) <= MaxEvents /\ HistoryMakesSense
        /\ Len(history) \in Nat
    BY DEF SessionsInv, TypeOK
  <1>2. e \in 1 .. Len(history)
    BY <1>1 DEF TasksMakeSense
  <1>3. /\ DOMAIN sessions' \subseteq 1 .. Len(history)
        /\ \A n \in DOMAIN sessions' : sessions'[n] \in 0 .. Len(history)
        /\ \A n \in DOMAIN sessions' : history[n].kind = "joined"
    BY <1>1, <1>2 DEF TypeOK, Joined
  <1>4. next \in TaskType'
    BY <1>1 DEF Idle, TaskType, Stages
  <1>5. /\ tasks \in [Tasks -> [event : 0 .. Len(history), at : Stages,
                                found : SUBSET (DOMAIN sessions')]]
        /\ \A u \in Tasks : tasks'[u] = IF u = t THEN next ELSE tasks[u]
    BY <1>1 DEF TasksMakeSense
  <1>6. tasks' \in [Tasks -> TaskType']
    BY <1>4, <1>5 DEF TaskType
  <1>7. TasksMakeSense'
    BY <1>1, <1>2, <1>5, <1>6 DEF TasksMakeSense, TaskType
  <1>8. TypeOK'
    <2>1. history' \in Seq([kind : {"joined", "left", "finished"}, who : People \cup {Nobody}])
      BY <1>1 DEF TypeOK
    <2>2. owed' \subseteq 1 .. Len(history') /\ done' \subseteq 1 .. Len(history')
      BY <1>1, <1>2 DEF TypeOK
    <2>3. \A u \in Tasks : /\ tasks'[u].event \in 0 .. Len(history')
                           /\ tasks'[u].found \subseteq DOMAIN sessions'
                           /\ tasks'[u].at \in Stages
      BY <1>6 DEF TaskType
    <2>4. QED
      BY <1>3, <2>1, <2>2, <2>3 DEF TypeOK, Stages
  <1>9. ASSUME orderly PROVE InTurn'
    <2>1. InTurn /\ t \in Serving
      BY <1>9 DEF SessionsInv, Serving
    <2>2. e \in owed /\ \A m \in owed : e <= m
      BY <2>1 DEF InTurn
    <2>3. \A u \in Serving' : u = t /\ next # Idle
      BY <1>5, <2>1 DEF InTurn, Serving
    <2>4. \A u \in Serving' : tasks'[u].event = e
      BY <1>5, <2>3
    <2>5. \A m \in owed' : \A n \in done' : n <= m
      BY <2>1, <2>2 DEF InTurn
    <2>6. \A m \in owed' : \A n \in DOMAIN sessions' : n <= m /\ sessions'[n] <= m
      <3> SUFFICES ASSUME NEW m \in owed', NEW n \in DOMAIN sessions'
                   PROVE  n <= m /\ sessions'[n] <= m
        OBVIOUS
      <3>1. m \in owed /\ m \in Nat /\ e <= m
        BY <1>1, <2>2 DEF TypeOK
      <3>2. n \in DOMAIN sessions => n <= m /\ sessions[n] <= m
        BY <2>1, <3>1 DEF InTurn
      <3>3. QED
        BY <1>2, <3>1, <3>2
    <2>7. QED
      BY <2>2, <2>3, <2>4, <2>5, <2>6 DEF InTurn
  <1>10. QED
    BY <1>1, <1>7, <1>8, <1>9, HistoryKept

\* In order, whoever ends a request was the only one to serve.
LEMMA NobodyServes ==
    ASSUME SessionsInv, orderly, NEW t \in Tasks, tasks[t] # Idle, tasks' = [tasks EXCEPT ![t] = Idle]
    PROVE  Serving' = {} /\ AboutToClose'
  <1>1. t \in Serving /\ \A u \in Serving : u = t
    BY DEF SessionsInv, InTurn, Serving
  <1>2. Serving' = {}
    BY <1>1 DEF Serving, SessionsInv, TasksMakeSense
  <1>3. QED
    BY <1>2 DEF AboutToClose

\* The sessions do not change, and no event is done that was not.
LEMMA FollowKept ==
    ASSUME SessionsInv, orderly, history' = history, sessions' = sessions, done' = done
    PROVE  SessionsFollow'
  <1>1. \A f : ClosedBy(f)' = ClosedBy(f)
    BY DEF ClosedBy
  <1>2. QED
    BY <1>1, HistoryKept DEF SessionsInv, SessionsFollow

LEMMA GivenUpInv ==
    ASSUME SessionsInv, NEW n \in owed, GivenUp(n)
    PROVE  SessionsInv'
  <1>1. owed' = owed \ {n} /\ UNCHANGED <<history, orderly, sessions, entries, tasks, done>>
        /\ n \in Deliverable
    BY DEF GivenUp
  <1>2. TypeOK' /\ TasksMakeSense' /\ OneRecorder' /\ HistoryMakesSense' /\ Len(history') <= MaxEvents
    BY <1>1, HistoryKept DEF SessionsInv, TypeOK, TasksMakeSense, OneRecorder
  <1>3. ASSUME orderly PROVE InTurn' /\ AboutToClose' /\ SessionsFollow'
    <2>1. Serving = {} /\ Serving' = {}
      BY <1>1, <1>3 DEF Deliverable, Serving
    <2>2. InTurn'
      BY <1>1, <1>3, <2>1 DEF InTurn, SessionsInv
    <2>3. QED
      BY <1>1, <1>3, <2>1, <2>2, FollowKept DEF AboutToClose
  <1>4. QED
    BY <1>1, <1>2, <1>3 DEF SessionsInv

LEMMA DeliveredInv ==
    ASSUME SessionsInv, NEW t \in Tasks, Delivered(t)
    PROVE  SessionsInv'
  <1>1. tasks[t] = Idle /\ UNCHANGED <<history, owed, orderly, sessions, entries, done>>
    BY DEF Delivered
  <1>2. PICK n \in Deliverable, at \in {"touching", "finding"} :
            tasks' = [tasks EXCEPT ![t] = [event |-> n, at |-> at, found |-> {}]]
    BY DEF Delivered
  <1> DEFINE next == [event |-> n, at |-> at, found |-> {}]
  <1>3. /\ TypeOK /\ TasksMakeSense /\ OneRecorder
        /\ n \in owed /\ n \in 1 .. Len(history)
    BY DEF SessionsInv, TypeOK, Deliverable
  <1>4. next.event = n /\ next.at = at /\ next.found = {} /\ next # Idle
    BY DEF Idle
  <1> HIDE DEF next
  <1>5. \A u \in Tasks : tasks'[u] = IF u = t THEN next ELSE tasks[u]
    BY <1>2, <1>3 DEF TasksMakeSense, next
  <1>6. TasksMakeSense'
    <2>1. next \in [event : 0 .. Len(history), at : Stages, found : SUBSET (DOMAIN sessions)]
      BY <1>2, <1>3 DEF Stages, next
    <2>2. tasks' \in [Tasks -> [event : 0 .. Len(history), at : Stages,
                                found : SUBSET (DOMAIN sessions)]]
      BY <1>2, <1>3, <2>1 DEF TasksMakeSense, next
    <2>3. QED
      BY <1>1, <1>2, <1>3, <1>4, <1>5, <2>2 DEF TasksMakeSense
  <1>7. TypeOK'
    BY <1>1, <1>3, <1>6 DEF TypeOK, TasksMakeSense, Stages
  <1>8. OneRecorder'
    BY <1>1, <1>2, <1>3, <1>4, <1>5 DEF OneRecorder
  <1>9. ASSUME orderly PROVE InTurn' /\ AboutToClose' /\ SessionsFollow'
    <2>1. Serving = {} /\ \A k \in owed : n <= k
      BY <1>9 DEF Deliverable
    <2>2. \A u \in Serving' : u = t
      BY <1>5, <2>1 DEF Serving
    <2>3. InTurn'
      BY <1>1, <1>3, <1>4, <1>5, <1>9, <2>1, <2>2 DEF InTurn, SessionsInv
    <2>4. AboutToClose'
      BY <1>2, <1>4, <1>5, <2>2 DEF AboutToClose
    <2>5. QED
      BY <1>1, <1>9, <2>3, <2>4, FollowKept
  <1>10. QED
    BY <1>1, <1>6, <1>7, <1>8, <1>9, HistoryKept DEF SessionsInv

\* A request ends and leaves nothing behind it but, perhaps, the answer.
LEMMA EndsInv ==
    ASSUME SessionsInv, NEW t \in Tasks, tasks[t] # Idle, tasks' = [tasks EXCEPT ![t] = Idle],
           owed' \subseteq owed, UNCHANGED <<history, orderly, sessions, entries, done>>
    PROVE  SessionsInv'
  <1>1. /\ TypeOK' /\ Len(history') <= MaxEvents /\ HistoryMakesSense' /\ TasksMakeSense'
        /\ orderly => InTurn'
    BY WebhookStep
  <1>2. \A u \in Tasks : tasks'[u] = IF u = t THEN Idle ELSE tasks[u]
    BY DEF SessionsInv, TasksMakeSense
  <1>3. OneRecorder'
    BY <1>2 DEF SessionsInv, OneRecorder, Idle
  <1>4. orderly => AboutToClose' /\ SessionsFollow'
    BY NobodyServes, FollowKept
  <1>5. QED
    BY <1>1, <1>3, <1>4 DEF SessionsInv

-----------------------------------------------------------------------------
(* The handlers.                                                           *)

LEMMA OneExit ==
    ASSUME history \in Seq([kind : {"joined", "left", "finished"}, who : People \cup {Nobody}]),
           NEW n \in Nat, NEW j, NEW k, IsExit(n, j), IsExit(n, k)
    PROVE  j = k
  <1>1. j \in Nat /\ k \in Nat /\ n < j /\ n < k
    BY DEF IsExit
  <1>2. ~(j < k) /\ ~(k < j)
    BY <1>1 DEF IsExit
  <1>3. QED
    BY <1>1, <1>2

LEMMA FiniteSessions ==
    ASSUME SessionsInv, NEW S, S \subseteq DOMAIN sessions
    PROVE  IsFiniteSet(S)
  <1>1. DOMAIN sessions \subseteq 1 .. Len(history) /\ Len(history) \in Nat
    BY DEF SessionsInv, TypeOK
  <1>2. IsFiniteSet(1 .. Len(history))
    BY <1>1, FS_Interval
  <1>3. QED
    BY <1>1, <1>2, FS_Subset

\* In order, the request at work: its event is the first owed.
LEMMA TurnFacts ==
    ASSUME SessionsInv, orderly, NEW t \in Tasks, tasks[t] # Idle
    PROVE  /\ tasks[t].event \in 1 .. Len(history) /\ Len(history) \in Nat
           /\ \A u \in Serving : u = t
           /\ \A n \in done : n \in Nat /\ n <= tasks[t].event
           /\ \A n \in DOMAIN sessions : n \in Nat /\ n <= tasks[t].event /\ Joined(n)
           /\ \A n \in DOMAIN sessions : sessions[n] \in Nat /\ sessions[n] <= tasks[t].event
           /\ tasks[t].at = "closing" =>
                 /\ tasks[t].found \subseteq AnyOpen
                 /\ history[tasks[t].event].kind = "left" =>
                        /\ tasks[t].found \subseteq Open(history[tasks[t].event].who)
                        /\ \A n \in tasks[t].found :
                               \A k \in Open(history[tasks[t].event].who) : k <= n
                 /\ history[tasks[t].event].kind = "finished" =>
                        \/ AnyOpen \subseteq tasks[t].found
                        \/ Cardinality(tasks[t].found \cup ClosedBy(tasks[t].event)) >= Take
  <1>1. t \in Serving /\ InTurn /\ AboutToClose /\ TypeOK /\ TasksMakeSense
    BY DEF SessionsInv, Serving
  <1>2. tasks[t].event \in 1 .. Len(history) /\ Len(history) \in Nat
    BY <1>1 DEF TasksMakeSense, TypeOK
  <1>3. tasks[t].event \in owed
    BY <1>1 DEF InTurn
  <1>4. /\ \A n \in done : n \in Nat /\ n <= tasks[t].event
        /\ \A n \in DOMAIN sessions : n \in Nat /\ n <= tasks[t].event /\ Joined(n)
        /\ \A n \in DOMAIN sessions : sessions[n] \in Nat /\ sessions[n] <= tasks[t].event
    BY <1>1, <1>2, <1>3 DEF InTurn, TypeOK, Joined
  <1>5. QED
    BY <1>1, <1>2, <1>4 DEF InTurn, AboutToClose

LEMMA GoesOnTasks ==
    ASSUME SessionsInv, NEW t \in Tasks, tasks[t] # Idle, NEW stage \in Stages,
           NEW found \in SUBSET (DOMAIN sessions), GoesOn(t, stage, found)
    PROVE  /\ tasks'[t].event = tasks[t].event /\ tasks'[t].at = stage /\ tasks'[t].found = found
           /\ \A u \in Tasks \ {t} : tasks'[u] = tasks[u]
           /\ orderly => \A u \in Serving' : u = t
  <1>1. tasks[t] \in TaskType /\ DOMAIN tasks = Tasks
    BY DEF SessionsInv, TasksMakeSense, TaskType
  <1>2. /\ tasks'[t] = [tasks[t] EXCEPT !.at = stage, !.found = found]
        /\ \A u \in Tasks \ {t} : tasks'[u] = tasks[u]
    BY <1>1 DEF GoesOn, SessionsInv, TasksMakeSense
  <1>3. tasks'[t].event = tasks[t].event /\ tasks'[t].at = stage /\ tasks'[t].found = found
    BY <1>1, <1>2 DEF TaskType
  <1>4. orderly => \A u \in Serving' : u = t
    BY <1>2, TurnFacts DEF Serving
  <1>5. QED
    BY <1>2, <1>3, <1>4

\* A request goes on to a stage that is not recording; nothing else changes.
LEMMA GoesOnInv ==
    ASSUME SessionsInv, NEW t \in Tasks, tasks[t] # Idle, NEW stage \in {"creating", "closing"},
           NEW found \in SUBSET (DOMAIN sessions), GoesOn(t, stage, found),
           UNCHANGED <<history, orderly, sessions, entries, done>>,
           orderly => AboutToClose'
    PROVE  SessionsInv'
  <1> DEFINE next == [tasks[t] EXCEPT !.at = stage, !.found = found]
  <1>1. tasks' = [tasks EXCEPT ![t] = next] /\ owed' = owed
    BY DEF GoesOn
  <1>2. tasks[t] \in TaskType
    BY DEF SessionsInv, TasksMakeSense, TaskType
  <1>3. next \in TaskType' /\ next.event = tasks[t].event /\ next.at = stage
    BY <1>2 DEF TaskType, Stages
  <1> HIDE DEF next
  <1>4. /\ TypeOK' /\ Len(history') <= MaxEvents /\ HistoryMakesSense' /\ TasksMakeSense'
        /\ orderly => InTurn'
    BY <1>1, <1>3, WebhookStep
  <1>5. \A u \in Tasks : tasks'[u] = IF u = t THEN next ELSE tasks[u]
    BY <1>1 DEF SessionsInv, TasksMakeSense
  <1>6. OneRecorder'
    BY <1>3, <1>5 DEF SessionsInv, OneRecorder
  <1>7. QED
    BY <1>4, <1>6, FollowKept DEF SessionsInv

LEMMA JoinTouchesInv ==
    ASSUME SessionsInv, NEW t \in Tasks, JoinTouches(t)
    PROVE  SessionsInv'
  <1>1. tasks[t] # Idle /\ GoesOn(t, "creating", {})
        /\ UNCHANGED <<history, orderly, sessions, entries, done>>
    BY DEF JoinTouches, At, Idle
  <1>2. ASSUME orderly PROVE AboutToClose'
    <2>1. \A u \in Serving' : tasks'[u].at = "creating"
      BY <1>1, <1>2, GoesOnTasks DEF Stages
    <2>2. QED
      BY <2>1 DEF AboutToClose
  <1>3. QED
    BY <1>1, <1>2, GoesOnInv

LEMMA LeaveFindsOneInv ==
    ASSUME SessionsInv, NEW t \in Tasks, At(t, "left", "finding"),
           NEW last \in Open(history[tasks[t].event].who),
           \A k \in Open(history[tasks[t].event].who) : k <= last,
           GoesOn(t, "closing", {last}), UNCHANGED <<history, orderly, sessions, entries, done>>
    PROVE  SessionsInv'
  <1>1. tasks[t] # Idle /\ {last} \in SUBSET (DOMAIN sessions)
    BY DEF At, Idle, Open
  <1>2. ASSUME orderly PROVE AboutToClose'
    <2>1. \A u \in Serving' : /\ u = t /\ tasks'[u].event = tasks[t].event
                              /\ tasks'[u].found = {last}
      BY <1>1, <1>2, GoesOnTasks DEF Stages
    <2>2. history[tasks[t].event].kind = "left" /\ last \in AnyOpen
      BY DEF At, Open, AnyOpen
    <2>3. AnyOpen' = AnyOpen /\ \A p : Open(p)' = Open(p)
      BY DEF AnyOpen, Open
    <2>4. QED
      BY <2>1, <2>2, <2>3 DEF AboutToClose
  <1>3. QED
    BY <1>1, <1>2, GoesOnInv

LEMMA FinishFindsSomeInv ==
    ASSUME SessionsInv, NEW t \in Tasks, At(t, "finished", "finding"),
           NEW found \in SUBSET AnyOpen, Cardinality(found) = Take \/ found = AnyOpen,
           GoesOn(t, "closing", found), UNCHANGED <<history, orderly, sessions, entries, done>>
    PROVE  SessionsInv'
  <1> DEFINE e == tasks[t].event
  <1>1. tasks[t] # Idle /\ found \in SUBSET (DOMAIN sessions)
    BY DEF At, Idle, AnyOpen
  <1>2. ASSUME orderly PROVE AboutToClose'
    <2>1. \A u \in Serving' : /\ u = t /\ tasks'[u].event = e
                              /\ tasks'[u].found = found
      BY <1>1, <1>2, GoesOnTasks DEF Stages
    <2>2. history[e].kind = "finished"
      BY DEF At
    <2>3. AnyOpen' = AnyOpen /\ \A f : ClosedBy(f)' = ClosedBy(f)
      BY DEF AnyOpen, ClosedBy
    <2>4. Cardinality(found) = Take => Cardinality(found \cup ClosedBy(e)) >= Take
      <3>1. IsFiniteSet(found) /\ IsFiniteSet(found \cup ClosedBy(e))
        BY <1>1, FiniteSessions DEF ClosedBy
      <3>2. Cardinality(found) <= Cardinality(found \cup ClosedBy(e))
        BY <3>1, FS_Subset
      <3>3. Cardinality(found) \in Nat /\ Cardinality(found \cup ClosedBy(e)) \in Nat
        BY <3>1, FS_CardinalityType
      <3>4. QED
        BY <3>2, <3>3
    <2>5. QED
      BY <2>1, <2>2, <2>3, <2>4 DEF AboutToClose
  <1>3. QED
    BY <1>1, <1>2, GoesOnInv

\* A request ends, its event done; no session changes.
LEMMA DoneInv ==
    ASSUME SessionsInv, NEW t \in Tasks, tasks[t] # Idle, Answers(t),
           done' = done \cup {tasks[t].event}, UNCHANGED <<history, orderly, sessions, entries>>,
           orderly => SessionsFollow'
    PROVE  SessionsInv'
  <1>1. tasks' = [tasks EXCEPT ![t] = Idle] /\ owed' \subseteq owed
    BY DEF Answers
  <1>2. /\ TypeOK' /\ Len(history') <= MaxEvents /\ HistoryMakesSense' /\ TasksMakeSense'
        /\ orderly => InTurn'
    BY <1>1, WebhookStep
  <1>3. \A u \in Tasks : tasks'[u] = IF u = t THEN Idle ELSE tasks[u]
    BY <1>1 DEF SessionsInv, TasksMakeSense
  <1>4. OneRecorder'
    BY <1>3 DEF SessionsInv, OneRecorder, Idle
  <1>5. orderly => AboutToClose'
    BY <1>1, NobodyServes
  <1>6. QED
    BY <1>2, <1>4, <1>5 DEF SessionsInv

LEMMA LeaveFindsNoneInv ==
    ASSUME SessionsInv, NEW t \in Tasks, At(t, "left", "finding"),
           Open(history[tasks[t].event].who) = {}, Answers(t),
           done' = done \cup {tasks[t].event}, UNCHANGED <<history, orderly, sessions, entries>>
    PROVE  SessionsInv'
  <1> DEFINE e == tasks[t].event
  <1>1. tasks[t] # Idle /\ history[e].kind = "left"
    BY DEF At, Idle
  <1>2. ASSUME orderly PROVE SessionsFollow'
    <2>1. SessionsFollow
      BY <1>2 DEF SessionsInv
    <2>2. ASSUME NEW n \in done, Joined(n), IsExit(n, e) PROVE sessions[n] = e
      <3>1. n \in DOMAIN sessions /\ n \in Nat
        BY <1>1, <1>2, <2>1, <2>2, TurnFacts DEF SessionsFollow
      <3>2. history[e].who = history[n].who
        BY <2>2 DEF IsExit, Of
      <3>3. sessions[n] # 0
        BY <3>1, <3>2 DEF Open
      <3>4. PICK k \in 1 .. Len(history) : IsExit(n, k) /\ k <= sessions[n]
        BY <2>1, <3>1, <3>3 DEF SessionsFollow
      <3>5. k = e
        BY <2>2, <3>1, <3>4, OneExit DEF SessionsInv, TypeOK
      <3>6. e \in Nat /\ sessions[n] \in Nat /\ sessions[n] <= e
        <4>1. \A m \in DOMAIN sessions : sessions[m] \in Nat /\ sessions[m] <= e
          BY <1>1, <1>2, TurnFacts
        <4>2. e \in 1 .. Len(history) /\ Len(history) \in Nat
          BY <1>1, <1>2, TurnFacts
        <4> HIDE DEF e
        <4>3. QED
          BY <3>1, <4>1, <4>2
      <3>7. QED
        BY <3>4, <3>5, <3>6
    <2>3. ~Joined(e) /\ history[e].kind # "finished"
      BY <1>1 DEF Joined
    <2>4. \A f : ClosedBy(f)' = ClosedBy(f)
      BY DEF ClosedBy
    <2>5. QED
      BY <2>1, <2>2, <2>3, <2>4, HistoryKept DEF SessionsFollow
  <1>3. QED
    BY <1>1, <1>2, DoneInv

LEMMA FinishFindsNoneInv ==
    ASSUME SessionsInv, NEW t \in Tasks, At(t, "finished", "finding"), AnyOpen = {}, Answers(t),
           done' = done \cup {tasks[t].event}, UNCHANGED <<history, orderly, sessions, entries>>
    PROVE  SessionsInv'
  <1> DEFINE e == tasks[t].event
  <1>1. tasks[t] # Idle /\ history[e].kind = "finished"
    BY DEF At, Idle
  <1>2. ASSUME orderly PROVE SessionsFollow'
    <2>1. SessionsFollow
      BY <1>2 DEF SessionsInv
    <2>2. \A n \in DOMAIN sessions : sessions[n] \in 1 .. e
      <3>1. \A n \in DOMAIN sessions : sessions[n] \in Nat /\ sessions[n] <= e
        BY <1>1, <1>2, TurnFacts
      <3>2. e \in 1 .. Len(history) /\ Len(history) \in Nat
        BY <1>1, <1>2, TurnFacts
      <3>3. \A n \in DOMAIN sessions : sessions[n] # 0
        BY DEF AnyOpen
      <3> HIDE DEF e
      <3>4. QED
        BY <3>1, <3>2, <3>3
    <2>3. ~Joined(e) /\ \A n : ~IsExit(n, e)
      BY <1>1 DEF Joined, IsExit, Of
    <2>4. \A f : ClosedBy(f)' = ClosedBy(f)
      BY DEF ClosedBy
    <2>5. QED
      BY <2>1, <2>2, <2>3, <2>4, HistoryKept DEF SessionsFollow
  <1>3. QED
    BY <1>1, <1>2, DoneInv

\* An entry is done when its session is there: no later event is.
LEMMA EntryDone ==
    ASSUME SessionsInv, orderly, NEW t \in Tasks, tasks[t] # Idle,
           Joined(tasks[t].event), tasks[t].event \in DOMAIN sessions,
           history' = history, sessions' = sessions, done' = done \cup {tasks[t].event}
    PROVE  SessionsFollow'
  <1> DEFINE e == tasks[t].event
  <1>1. SessionsFollow
    BY DEF SessionsInv
  <1>2. e \in Nat /\ \A k \in done : k \in Nat /\ k <= e
    BY TurnFacts
  <1>3. \A k \in done \cup {e} : ~IsExit(e, k)
    BY <1>2 DEF IsExit
  <1>4. \A n : ~IsExit(n, e) /\ history[e].kind # "finished"
    BY DEF Joined, IsExit, Of
  <1>5. \A f : ClosedBy(f)' = ClosedBy(f)
    BY DEF ClosedBy
  <1>6. QED
    BY <1>1, <1>3, <1>4, <1>5, HistoryKept DEF SessionsFollow

LEMMA JoinCreatesInv ==
    ASSUME SessionsInv, NEW t \in Tasks, At(t, "joined", "creating"),
           tasks[t].event \notin DOMAIN sessions, sessions' = WithSession(tasks[t].event),
           GoesOn(t, "recording", {}), UNCHANGED <<history, orderly, entries, done>>
    PROVE  SessionsInv'
  <1> DEFINE e == tasks[t].event
             next == [tasks[t] EXCEPT !.at = "recording", !.found = {}]
  <1>1. tasks[t] # Idle /\ tasks[t].at = "creating" /\ Joined(e)
    BY DEF At, Idle, Joined
  <1>2. tasks' = [tasks EXCEPT ![t] = next] /\ owed' = owed
    BY DEF GoesOn
  <1>3. /\ DOMAIN sessions' = DOMAIN sessions \cup {e}
        /\ \A n \in DOMAIN sessions' : sessions'[n] = IF n = e THEN 0 ELSE sessions[n]
    BY DEF WithSession
  <1>4. next \in TaskType' /\ next.event = e /\ next.at = "recording" /\ next.at # "idle"
    <2>1. tasks[t] \in TaskType
      BY DEF SessionsInv, TasksMakeSense, TaskType
    <2>2. next \in [event : 0 .. Len(history), at : Stages, found : SUBSET (DOMAIN sessions')]
          /\ next.event = e /\ next.at = "recording"
      BY <2>1 DEF TaskType, Stages
    <2>3. QED
      BY <2>2 DEF TaskType
  <1> HIDE DEF next
  <1>5. /\ TypeOK' /\ Len(history') <= MaxEvents /\ HistoryMakesSense' /\ TasksMakeSense'
        /\ orderly => InTurn'
    BY <1>1, <1>2, <1>3, <1>4, WebhookStep
  <1>6. /\ tasks'[t].event = e /\ tasks'[t].at = "recording"
        /\ \A u \in Tasks \ {t} : tasks'[u] = tasks[u]
        /\ orderly => \A u \in Serving' : u = t
    BY <1>1, GoesOnTasks DEF Stages
  <1>7. OneRecorder'
    <2>1. OneRecorder
      BY DEF SessionsInv
    <2>2. e \in Numbers /\ entries[e] = 0
      <3>1. e \in 1 .. Len(history) /\ Len(history) \in Nat /\ Len(history) <= MaxEvents
        BY <1>1 DEF SessionsInv, TasksMakeSense, TypeOK
      <3>2. e \in Numbers
        BY <3>1, MediaSessionsAssumption DEF Numbers
      <3>3. QED
        BY <2>1, <3>2 DEF OneRecorder
    <2>3. \A u \in Tasks \ {t} : tasks[u].at = "recording" => tasks[u].event # e
      BY <2>1 DEF OneRecorder
    <2>4. QED
      BY <1>3, <1>6, <2>1, <2>2, <2>3 DEF OneRecorder
  <1>8. ASSUME orderly PROVE AboutToClose' /\ SessionsFollow'
    <2>1. AboutToClose'
      BY <1>6, <1>8 DEF AboutToClose
    <2>2. SessionsFollow /\ \A n \in done : n \in Nat /\ n <= e
      BY <1>1, <1>8, TurnFacts DEF SessionsInv
    <2>3. e \in Nat
      <3>1. e \in 1 .. Len(history) /\ Len(history) \in Nat
        BY <1>1, <1>8, TurnFacts
      <3> HIDE DEF e
      <3>2. QED
        BY <3>1
    <2>4. \A f \in done : history[f].kind = "finished" => ClosedBy(f)' = ClosedBy(f)
      <3>1. \A f \in done : f # 0
        BY DEF SessionsInv, TypeOK
      <3>2. QED
        BY <1>3, <3>1 DEF ClosedBy
    <2> HIDE DEF e
    <2>5. SessionsFollow'
      <3>1. \A n \in done : Joined(n)' => n \in DOMAIN sessions'
        BY <1>3, <2>2, HistoryKept DEF SessionsFollow
      <3>2. \A n \in DOMAIN sessions' : sessions'[n] # 0 =>
               \E k \in 1 .. Len(history') : IsExit(n, k)' /\ k <= sessions'[n]
        BY <1>3, <2>2, HistoryKept DEF SessionsFollow
      <3>3. \A n, k \in done' : (Joined(n)' /\ IsExit(n, k)') => sessions'[n] = k
        BY <1>3, <2>2, HistoryKept DEF SessionsFollow, e
      <3>4. \A f \in done' : history'[f].kind = "finished" =>
               \/ Cardinality(ClosedBy(f)') >= Take
               \/ \A n \in DOMAIN sessions' : n < f => sessions'[n] \in 1 .. f
        BY <1>3, <2>2, <2>3, <2>4 DEF SessionsFollow
      <3>5. QED
        BY <3>1, <3>2, <3>3, <3>4 DEF SessionsFollow
    <2>6. QED
      BY <2>1, <2>5
  <1>9. QED
    BY <1>5, <1>7, <1>8 DEF SessionsInv

LEMMA JoinRecordsInv ==
    ASSUME SessionsInv, NEW t \in Tasks, JoinRecords(t)
    PROVE  SessionsInv'
  <1> DEFINE e == tasks[t].event
  <1>1. /\ tasks[t] # Idle /\ tasks[t].at = "recording" /\ Joined(e)
        /\ Answers(t) /\ done' = done \cup {e} /\ UNCHANGED <<history, orderly, sessions>>
        /\ entries' \in {entries, [entries EXCEPT ![e] = @ + 1]}
    BY DEF JoinRecords, At, Idle, Joined
  <1>2. tasks' = [tasks EXCEPT ![t] = Idle] /\ owed' \subseteq owed
    BY <1>1 DEF Answers
  <1>3. /\ TypeOK' /\ Len(history') <= MaxEvents /\ HistoryMakesSense' /\ TasksMakeSense'
        /\ orderly => InTurn'
    BY <1>1, <1>2, WebhookStep
  <1>4. \A u \in Tasks : tasks'[u] = IF u = t THEN Idle ELSE tasks[u]
    BY <1>2 DEF SessionsInv, TasksMakeSense
  <1>5. OneRecorder /\ e \in DOMAIN sessions /\ entries[e] = 0
    BY <1>1 DEF SessionsInv, OneRecorder
  <1>6. OneRecorder'
    <2>1. \A u \in Tasks : tasks'[u].at = "recording" =>
             u # t /\ tasks'[u] = tasks[u] /\ tasks[u].event # e
      BY <1>1, <1>4, <1>5 DEF OneRecorder, Idle
    <2>2. entries \in [Numbers -> 0 .. 1]
      BY <1>5 DEF OneRecorder
    <2>3. entries' \in [Numbers -> 0 .. 1] /\ \A n \in Numbers : n # e => entries'[n] = entries[n]
      <3>1. e \in Numbers => entries[e] + 1 \in 0 .. 1
        BY <1>5
      <3> HIDE DEF e
      <3>2. QED
        BY <1>1, <2>2, <3>1
    <2>4. \A n \in DOMAIN sessions : n \in Numbers
      BY MediaSessionsAssumption DEF SessionsInv, TypeOK, Numbers
    <2>5. QED
      BY <1>1, <1>5, <2>1, <2>3, <2>4 DEF OneRecorder
  <1>7. orderly => AboutToClose' /\ SessionsFollow'
    BY <1>1, <1>2, <1>5, NobodyServes, EntryDone
  <1>8. QED
    BY <1>1, <1>3, <1>6, <1>7 DEF SessionsInv

LEMMA JoinCreatesAnyInv ==
    ASSUME SessionsInv, NEW t \in Tasks, JoinCreates(t)
    PROVE  SessionsInv'
  <1>1. CASE tasks[t].event \notin DOMAIN sessions
    BY <1>1, JoinCreatesInv DEF JoinCreates
  <1>2. CASE tasks[t].event \in DOMAIN sessions
    <2>1. /\ tasks[t] # Idle /\ Joined(tasks[t].event) /\ Answers(t)
          /\ done' = done \cup {tasks[t].event} /\ UNCHANGED <<history, orderly, sessions, entries>>
      BY <1>2 DEF JoinCreates, At, Idle, Joined
    <2>2. orderly => SessionsFollow'
      BY <1>2, <2>1, EntryDone
    <2>3. QED
      BY <2>1, <2>2, DoneInv
  <1>3. QED
    BY <1>1, <1>2

-----------------------------------------------------------------------------
(* Closing one session.                                                    *)

LEMMA ClosingFollows ==
    ASSUME SessionsInv, orderly, NEW open \in AnyOpen, NEW e \in Nat, e # 0,
           history' = history, sessions' = Closed(open, e),
           NEW x \in 1 .. Len(history), IsExit(open, x), x <= e
    PROVE  /\ DOMAIN sessions' = DOMAIN sessions
           /\ \A n \in DOMAIN sessions : sessions'[n] = IF n = open THEN e ELSE sessions[n]
           /\ \A n \in DOMAIN sessions' : sessions'[n] # 0 =>
                 \E k \in 1 .. Len(history') : IsExit(n, k)' /\ k <= sessions'[n]
           /\ \A n, k \in done : (Joined(n) /\ IsExit(n, k)) =>
                 n \in DOMAIN sessions /\ n # open /\ sessions'[n] = k
           /\ \A f \in done : history[f].kind = "finished" =>
                 \/ Cardinality(ClosedBy(f)') >= Take
                 \/ \A n \in DOMAIN sessions' : n < f => sessions'[n] \in 1 .. f
           /\ AnyOpen' = AnyOpen \ {open}
           /\ ClosedBy(e)' = ClosedBy(e) \cup {open}
  <1>1. SessionsFollow /\ TypeOK
    BY DEF SessionsInv
  <1>2. open \in DOMAIN sessions /\ sessions[open] = 0
    BY DEF AnyOpen
  <1>3. /\ DOMAIN sessions' = DOMAIN sessions
        /\ \A n \in DOMAIN sessions : sessions'[n] = IF n = open THEN e ELSE sessions[n]
    BY <1>2 DEF Closed
  <1>4. \A n \in DOMAIN sessions' : sessions'[n] # 0 =>
            \E k \in 1 .. Len(history') : IsExit(n, k)' /\ k <= sessions'[n]
    <2> SUFFICES ASSUME NEW n \in DOMAIN sessions, sessions'[n] # 0
                 PROVE  \E k \in 1 .. Len(history) : IsExit(n, k) /\ k <= sessions'[n]
      BY <1>3, HistoryKept
    <2>1. CASE n = open
      BY <1>3, <2>1
    <2>2. CASE n # open
      BY <1>1, <1>3, <2>2 DEF SessionsFollow
    <2>3. QED
      BY <2>1, <2>2
  <1>5. \A n, k \in done : (Joined(n) /\ IsExit(n, k)) =>
            n \in DOMAIN sessions /\ n # open /\ sessions'[n] = k
    <2> SUFFICES ASSUME NEW n \in done, NEW k \in done, Joined(n), IsExit(n, k)
                 PROVE  n \in DOMAIN sessions /\ n # open /\ sessions'[n] = k
      OBVIOUS
    <2>1. n \in DOMAIN sessions /\ sessions[n] = k /\ k # 0
      BY <1>1 DEF SessionsFollow, TypeOK
    <2>2. QED
      BY <1>2, <1>3, <2>1
  <1>6. ASSUME NEW f \in done, history[f].kind = "finished"
        PROVE  \/ Cardinality(ClosedBy(f)') >= Take
               \/ \A n \in DOMAIN sessions' : n < f => sessions'[n] \in 1 .. f
    <2>1. f \in Nat /\ f # 0
      BY <1>1 DEF TypeOK
    <2>2. CASE Cardinality(ClosedBy(f)) >= Take
      <3>1. ClosedBy(f) \subseteq ClosedBy(f)' /\ ClosedBy(f)' \subseteq DOMAIN sessions
        BY <1>2, <1>3, <2>1 DEF ClosedBy
      <3>2. IsFiniteSet(ClosedBy(f)')
        BY <3>1, FiniteSessions
      <3>3. /\ Cardinality(ClosedBy(f)) \in Nat /\ Cardinality(ClosedBy(f)') \in Nat
            /\ Cardinality(ClosedBy(f)) <= Cardinality(ClosedBy(f)')
        BY <3>1, <3>2, FS_Subset, FS_CardinalityType
      <3>4. QED
        BY <2>2, <3>3, MediaSessionsAssumption
    <2>3. CASE \A n \in DOMAIN sessions : n < f => sessions[n] \in 1 .. f
      BY <1>2, <1>3, <2>1, <2>3
    <2>4. QED
      BY <1>1, <1>6, <2>2, <2>3 DEF SessionsFollow
  <1>7. AnyOpen' = AnyOpen \ {open} /\ ClosedBy(e)' = ClosedBy(e) \cup {open}
    BY <1>2, <1>3 DEF AnyOpen, ClosedBy
  <1>8. QED
    BY <1>3, <1>4, <1>5, <1>6, <1>7

\* A stay that left before an event has its exit before it.
LEMMA ExitBefore ==
    ASSUME SessionsInv, NEW n \in 1 .. Len(history), Joined(n),
           NEW j \in n + 1 .. Len(history), Of(j, "left", history[n].who)
    PROVE  \E k \in 1 .. Len(history) : IsExit(n, k) /\ k <= j
  <1>1. HistoryMakesSense /\ Len(history) \in Nat
    BY DEF SessionsInv, TypeOK
  <1>2. ~StillIn(n)
    BY DEF StillIn
  <1>3. PICK k \in 1 .. Len(history) : IsExit(n, k)
    BY <1>1, <1>2 DEF HistoryMakesSense
  <1>4. k <= j
    BY <1>1, <1>3 DEF IsExit
  <1>5. QED
    BY <1>3, <1>4

LEMMA LeaveClosesInv ==
    ASSUME SessionsInv, NEW t \in Tasks, LeaveCloses(t)
    PROVE  SessionsInv'
  <1>1. PICK e \in Nat : e = tasks[t].event
    BY DEF SessionsInv, TasksMakeSense, TypeOK
  <1>2. PICK open \in tasks[t].found : sessions' = Closed(open, e)
    BY <1>1 DEF LeaveCloses
  <1>3. /\ tasks[t] # Idle /\ tasks[t].at = "closing" /\ history[e].kind = "left"
        /\ Answers(t) /\ done' = done \cup {e} /\ UNCHANGED <<history, orderly, entries>>
    BY <1>1 DEF LeaveCloses, At, Idle
  <1>4. tasks' = [tasks EXCEPT ![t] = Idle] /\ owed' \subseteq owed
    BY <1>3 DEF Answers
  <1>5. open \in DOMAIN sessions /\ e \in 1 .. Len(history) /\ Len(history) \in Nat
    BY <1>3, <1>1 DEF SessionsInv, TypeOK, TasksMakeSense
  <1>6. /\ DOMAIN sessions' = DOMAIN sessions
        /\ \A n \in DOMAIN sessions : sessions'[n] = IF n = open THEN e ELSE sessions[n]
    BY <1>2, <1>5 DEF Closed
  <1>7. /\ TypeOK' /\ Len(history') <= MaxEvents /\ HistoryMakesSense' /\ TasksMakeSense'
        /\ orderly => InTurn'
    BY <1>3, <1>4, <1>6, <1>1, WebhookStep
  <1>8. OneRecorder'
    <2>1. \A u \in Tasks : tasks'[u] = IF u = t THEN Idle ELSE tasks[u]
      BY <1>4 DEF SessionsInv, TasksMakeSense
    <2>2. QED
      BY <1>3, <1>6, <2>1 DEF SessionsInv, OneRecorder, Idle
  <1>9. ASSUME orderly PROVE SessionsFollow'
    <2>1. /\ \A n \in DOMAIN sessions : n \in Nat /\ n <= e /\ Joined(n)
          /\ \A n \in DOMAIN sessions : sessions[n] \in Nat /\ sessions[n] <= e
          /\ open \in AnyOpen /\ open \in Open(history[e].who)
          /\ \A k \in Open(history[e].who) : k <= open
      <3>1. /\ \A n \in DOMAIN sessions : n \in Nat /\ n <= e /\ Joined(n)
            /\ \A n \in DOMAIN sessions : sessions[n] \in Nat /\ sessions[n] <= e
        BY <1>3, <1>9, <1>1, TurnFacts
      <3>2. /\ tasks[t].found \subseteq AnyOpen
            /\ tasks[t].found \subseteq Open(history[e].who)
            /\ \A n \in tasks[t].found : \A k \in Open(history[e].who) : k <= n
        BY <1>3, <1>9, <1>1, TurnFacts
      <3>3. QED
        BY <3>1, <3>2
    <2>2. history[open].who = history[e].who /\ open \in 1 .. Len(history) /\ Joined(open)
      BY <1>5, <2>1 DEF Open, SessionsInv, TypeOK
    <2>3. e \in open + 1 .. Len(history)
      <3>1. open # e
        BY <1>3, <2>2 DEF Joined
      <3>2. QED
        BY <1>5, <2>1, <2>2, <3>1
    <2>4. PICK x \in 1 .. Len(history) : IsExit(open, x) /\ x <= e
      <3>1. Of(e, "left", history[open].who)
        BY <1>3, <2>2 DEF Of
      <3>2. QED
        BY <2>2, <2>3, <3>1, ExitBefore
    <2>5. /\ \A n \in DOMAIN sessions' : sessions'[n] # 0 =>
                \E k \in 1 .. Len(history') : IsExit(n, k)' /\ k <= sessions'[n]
          /\ \A n, k \in done : (Joined(n) /\ IsExit(n, k)) =>
                n \in DOMAIN sessions /\ n # open /\ sessions'[n] = k
          /\ \A f \in done : history[f].kind = "finished" =>
                \/ Cardinality(ClosedBy(f)') >= Take
                \/ \A n \in DOMAIN sessions' : n < f => sessions'[n] \in 1 .. f
      BY <1>2, <1>3, <1>5, <1>9, <2>1, <2>4, ClosingFollows
    <2>6. SessionsFollow
      BY <1>9 DEF SessionsInv
    <2>7. ~Joined(e)
      BY <1>3 DEF Joined
    <2>8. ASSUME NEW n \in done, Joined(n), IsExit(n, e) PROVE sessions'[n] = e
      <3>1. n \in DOMAIN sessions /\ n \in 1 .. Len(history)
        BY <2>6, <2>8 DEF SessionsFollow, SessionsInv, TypeOK
      <3>2. history[e].who = history[n].who
        BY <2>8 DEF IsExit, Of
      <3>3. CASE sessions[n] = 0
        <4>1. n <= open
          BY <2>1, <3>1, <3>2, <3>3 DEF Open
        <4>2. ASSUME n < open PROVE FALSE
          <5>1. PICK j \in n + 1 .. open - 1 : Of(j, "left", history[n].who)
            BY <2>2, <2>8, <3>1, <3>2, <4>2 DEF SessionsInv, HistoryMakesSense, Of, Joined
          <5>2. j \in n + 1 .. e - 1
            BY <1>5, <2>1, <2>2, <3>1, <5>1
          <5>3. QED
            BY <2>8, <5>1, <5>2 DEF IsExit
        <4>3. n = open
          BY <2>2, <3>1, <4>1, <4>2
        <4>4. QED
          BY <1>6, <3>1, <4>3
      <3>4. CASE sessions[n] # 0
        <4>1. PICK k \in 1 .. Len(history) : IsExit(n, k) /\ k <= sessions[n]
          BY <2>6, <3>1, <3>4 DEF SessionsFollow
        <4>2. k = e
          BY <2>8, <3>1, <4>1, OneExit DEF SessionsInv, TypeOK
        <4>3. sessions[n] = e
          BY <2>1, <3>1, <4>1, <4>2
        <4>4. QED
          BY <1>6, <3>1, <4>3
      <3>5. QED
        BY <3>3, <3>4
    <2>9. \A n \in done' : Joined(n)' => n \in DOMAIN sessions'
      BY <1>3, <1>6, <2>6, <2>7, HistoryKept DEF SessionsFollow
    <2>10. \A n, k \in done' : (Joined(n)' /\ IsExit(n, k)') => sessions'[n] = k
      BY <1>3, <2>5, <2>7, <2>8, HistoryKept
    <2>11. \A f \in done' : history'[f].kind = "finished" =>
              \/ Cardinality(ClosedBy(f)') >= Take
              \/ \A n \in DOMAIN sessions' : n < f => sessions'[n] \in 1 .. f
      BY <1>3, <2>5
    <2>12. QED
      BY <2>5, <2>9, <2>10, <2>11 DEF SessionsFollow
  <1>10. orderly => AboutToClose'
    BY <1>3, <1>4, NobodyServes
  <1>11. QED
    BY <1>3, <1>7, <1>8, <1>9, <1>10 DEF SessionsInv

\* The end of the room closes one session more, of a stay that left before it.
LEMMA FinishClosesFollows ==
    ASSUME SessionsInv, orderly, NEW t \in Tasks, At(t, "finished", "closing"),
           NEW open \in tasks[t].found, NEW e \in Nat, e = tasks[t].event,
           sessions' = Closed(open, e), history' = history
    PROVE  /\ open \in AnyOpen
           /\ \A n \in DOMAIN sessions' : sessions'[n] # 0 =>
                 \E k \in 1 .. Len(history') : IsExit(n, k)' /\ k <= sessions'[n]
           /\ \A n, k \in done : (Joined(n) /\ IsExit(n, k)) =>
                 n \in DOMAIN sessions /\ n # open /\ sessions'[n] = k
           /\ \A f \in done : history[f].kind = "finished" =>
                 \/ Cardinality(ClosedBy(f)') >= Take
                 \/ \A n \in DOMAIN sessions' : n < f => sessions'[n] \in 1 .. f
           /\ AnyOpen' = AnyOpen \ {open}
           /\ ClosedBy(e)' = ClosedBy(e) \cup {open}
  <1>1. tasks[t] # Idle /\ tasks[t].at = "closing" /\ history[e].kind = "finished"
    BY DEF At, Idle
  <1>2. open \in AnyOpen /\ e \in 1 .. Len(history) /\ Len(history) \in Nat
    BY <1>1, TurnFacts
  <1>3. open \in Nat /\ open <= e /\ Joined(open) /\ open \in 1 .. Len(history)
    <2>1. open \in DOMAIN sessions
      BY <1>2 DEF AnyOpen
    <2>2. \A n \in DOMAIN sessions : n \in Nat /\ n <= e /\ Joined(n)
      BY <1>1, TurnFacts
    <2>3. open \in 1 .. Len(history)
      BY <2>1 DEF SessionsInv, TypeOK
    <2>4. QED
      BY <2>1, <2>2, <2>3
  <1>4. open < e
    BY <1>1, <1>3 DEF Joined
  <1>5. PICK j \in open + 1 .. e - 1 : Of(j, "left", history[open].who)
    BY <1>1, <1>2, <1>3, <1>4 DEF SessionsInv, HistoryMakesSense
  <1>6. j \in open + 1 .. Len(history) /\ j <= e
    BY <1>2, <1>3, <1>5
  <1>7. PICK x \in 1 .. Len(history) : IsExit(open, x) /\ x <= j
    BY <1>3, <1>5, <1>6, ExitBefore
  <1>8. x <= e
    BY <1>2, <1>3, <1>6, <1>7
  <1>9. QED
    BY <1>2, <1>7, <1>8, ClosingFollows

LEMMA FinishClosesLastInv ==
    ASSUME SessionsInv, NEW t \in Tasks, At(t, "finished", "closing"),
           NEW open \in tasks[t].found, tasks[t].found = {open}, NEW e \in Nat, e = tasks[t].event,
           sessions' = Closed(open, e), Answers(t), done' = done \cup {e},
           UNCHANGED <<history, orderly, entries>>
    PROVE  SessionsInv'
  <1>1. tasks[t] # Idle /\ tasks[t].at = "closing" /\ history[e].kind = "finished"
    BY DEF At, Idle
  <1>2. tasks' = [tasks EXCEPT ![t] = Idle] /\ owed' \subseteq owed
    BY DEF Answers
  <1>3. open \in DOMAIN sessions /\ e \in 1 .. Len(history) /\ Len(history) \in Nat
    BY <1>1 DEF SessionsInv, TypeOK, TasksMakeSense
  <1>4. /\ DOMAIN sessions' = DOMAIN sessions
        /\ \A n \in DOMAIN sessions : sessions'[n] = IF n = open THEN e ELSE sessions[n]
    BY <1>3 DEF Closed
  <1>5. /\ TypeOK' /\ Len(history') <= MaxEvents /\ HistoryMakesSense' /\ TasksMakeSense'
        /\ orderly => InTurn'
    BY <1>1, <1>2, <1>4, WebhookStep
  <1>6. OneRecorder'
    <2>1. \A u \in Tasks : tasks'[u] = IF u = t THEN Idle ELSE tasks[u]
      BY <1>2 DEF SessionsInv, TasksMakeSense
    <2>2. QED
      BY <1>4, <2>1 DEF SessionsInv, OneRecorder, Idle
  <1>7. ASSUME orderly PROVE SessionsFollow'
    <2>1. SessionsFollow
      BY <1>7 DEF SessionsInv
    <2>2. /\ open \in AnyOpen
          /\ \A n \in DOMAIN sessions' : sessions'[n] # 0 =>
                \E k \in 1 .. Len(history') : IsExit(n, k)' /\ k <= sessions'[n]
          /\ \A n, k \in done : (Joined(n) /\ IsExit(n, k)) =>
                n \in DOMAIN sessions /\ n # open /\ sessions'[n] = k
          /\ \A f \in done : history[f].kind = "finished" =>
                \/ Cardinality(ClosedBy(f)') >= Take
                \/ \A n \in DOMAIN sessions' : n < f => sessions'[n] \in 1 .. f
          /\ ClosedBy(e)' = ClosedBy(e) \cup {open}
      BY <1>7, FinishClosesFollows
    <2>3. ~Joined(e) /\ \A n : ~IsExit(n, e)
      BY <1>1 DEF Joined, IsExit, Of
    <2>4. \/ Cardinality(ClosedBy(e)') >= Take
          \/ \A n \in DOMAIN sessions' : n < e => sessions'[n] \in 1 .. e
      <3>1. \/ AnyOpen \subseteq tasks[t].found
            \/ Cardinality(tasks[t].found \cup ClosedBy(e)) >= Take
        BY <1>1, <1>7, TurnFacts
      <3>2. CASE AnyOpen \subseteq tasks[t].found
        <4>1. \A n \in DOMAIN sessions : sessions[n] \in Nat /\ sessions[n] <= e
          BY <1>1, <1>7, TurnFacts
        <4>2. \A n \in DOMAIN sessions : n # open => sessions[n] # 0
          BY <3>2 DEF AnyOpen
        <4>3. QED
          BY <1>3, <1>4, <4>1, <4>2
      <3>3. CASE Cardinality(tasks[t].found \cup ClosedBy(e)) >= Take
        <4>1. ClosedBy(e)' = tasks[t].found \cup ClosedBy(e)
          BY <2>2
        <4>2. QED
          BY <3>3, <4>1
      <3>4. QED
        BY <3>1, <3>2, <3>3
    <2>5. \A n \in done' : Joined(n)' => n \in DOMAIN sessions'
      BY <1>4, <2>1, <2>3, HistoryKept DEF SessionsFollow
    <2>6. \A n, k \in done' : (Joined(n)' /\ IsExit(n, k)') => sessions'[n] = k
      BY <2>2, <2>3, HistoryKept
    <2>7. \A f \in done' : history'[f].kind = "finished" =>
              \/ Cardinality(ClosedBy(f)') >= Take
              \/ \A n \in DOMAIN sessions' : n < f => sessions'[n] \in 1 .. f
      <3> SUFFICES ASSUME NEW f \in done', history'[f].kind = "finished"
                   PROVE  \/ Cardinality(ClosedBy(f)') >= Take
                          \/ \A n \in DOMAIN sessions' : n < f => sessions'[n] \in 1 .. f
        OBVIOUS
      <3>1. CASE f = e
        BY <2>4, <3>1
      <3>2. CASE f # e
        BY <2>2, <3>2
      <3>3. QED
        BY <3>1, <3>2
    <2>8. QED
      BY <2>2, <2>5, <2>6, <2>7 DEF SessionsFollow
  <1>8. orderly => AboutToClose'
    BY <1>1, <1>2, NobodyServes
  <1>9. QED
    BY <1>5, <1>6, <1>7, <1>8 DEF SessionsInv

LEMMA FinishClosesOneMoreInv ==
    ASSUME SessionsInv, NEW t \in Tasks, At(t, "finished", "closing"),
           NEW open \in tasks[t].found, NEW e \in Nat, e = tasks[t].event,
           sessions' = Closed(open, e), GoesOn(t, "closing", tasks[t].found \ {open}),
           UNCHANGED <<history, orderly, entries, done>>
    PROVE  SessionsInv'
  <1> DEFINE next == [tasks[t] EXCEPT !.at = "closing", !.found = tasks[t].found \ {open}]
  <1>1. tasks[t] # Idle /\ tasks[t].at = "closing" /\ history[e].kind = "finished"
    BY DEF At, Idle
  <1>2. tasks' = [tasks EXCEPT ![t] = next] /\ owed' = owed
    BY DEF GoesOn
  <1>3. /\ open \in DOMAIN sessions /\ e \in 1 .. Len(history) /\ Len(history) \in Nat
        /\ tasks[t].found \ {open} \in SUBSET (DOMAIN sessions)
    BY <1>1 DEF SessionsInv, TypeOK, TasksMakeSense
  <1>4. /\ DOMAIN sessions' = DOMAIN sessions
        /\ \A n \in DOMAIN sessions : sessions'[n] = IF n = open THEN e ELSE sessions[n]
    BY <1>3 DEF Closed
  <1>5. next \in TaskType' /\ next.event = e /\ next.at = "closing"
    <2>1. tasks[t] \in TaskType
      BY DEF SessionsInv, TasksMakeSense, TaskType
    <2>2. next \in [event : 0 .. Len(history), at : Stages, found : SUBSET (DOMAIN sessions)]
          /\ next.event = e /\ next.at = "closing"
      BY <1>3, <2>1 DEF TaskType, Stages
    <2>3. QED
      BY <1>4, <2>2 DEF TaskType
  <1> HIDE DEF next
  <1>6. /\ TypeOK' /\ Len(history') <= MaxEvents /\ HistoryMakesSense' /\ TasksMakeSense'
        /\ orderly => InTurn'
    BY <1>1, <1>2, <1>4, <1>5, WebhookStep
  <1>7. /\ tasks'[t].event = e /\ tasks'[t].at = "closing"
        /\ tasks'[t].found = tasks[t].found \ {open}
        /\ \A u \in Tasks \ {t} : tasks'[u] = tasks[u]
        /\ orderly => \A u \in Serving' : u = t
    BY <1>1, <1>3, GoesOnTasks DEF Stages
  <1>8. OneRecorder'
    BY <1>4, <1>7 DEF SessionsInv, OneRecorder
  <1>9. ASSUME orderly PROVE AboutToClose' /\ SessionsFollow'
    <2>1. SessionsFollow
      BY <1>9 DEF SessionsInv
    <2>2. /\ open \in AnyOpen
          /\ \A n \in DOMAIN sessions' : sessions'[n] # 0 =>
                \E k \in 1 .. Len(history') : IsExit(n, k)' /\ k <= sessions'[n]
          /\ \A n, k \in done : (Joined(n) /\ IsExit(n, k)) =>
                n \in DOMAIN sessions /\ n # open /\ sessions'[n] = k
          /\ \A f \in done : history[f].kind = "finished" =>
                \/ Cardinality(ClosedBy(f)') >= Take
                \/ \A n \in DOMAIN sessions' : n < f => sessions'[n] \in 1 .. f
          /\ AnyOpen' = AnyOpen \ {open}
          /\ ClosedBy(e)' = ClosedBy(e) \cup {open}
      BY <1>9, FinishClosesFollows
    <2>3. SessionsFollow'
      <3>1. \A n \in done' : Joined(n)' => n \in DOMAIN sessions'
        BY <1>4, <2>1, HistoryKept DEF SessionsFollow
      <3>2. \A n, k \in done' : (Joined(n)' /\ IsExit(n, k)') => sessions'[n] = k
        BY <2>2, HistoryKept
      <3>3. \A f \in done' : history'[f].kind = "finished" =>
                \/ Cardinality(ClosedBy(f)') >= Take
                \/ \A n \in DOMAIN sessions' : n < f => sessions'[n] \in 1 .. f
        BY <2>2
      <3>4. QED
        BY <2>2, <3>1, <3>2, <3>3 DEF SessionsFollow
    <2>4. /\ tasks[t].found \subseteq AnyOpen
          /\ \/ AnyOpen \subseteq tasks[t].found
             \/ Cardinality(tasks[t].found \cup ClosedBy(e)) >= Take
      BY <1>1, <1>9, TurnFacts
    <2>5. /\ tasks'[t].found \subseteq AnyOpen'
          /\ AnyOpen \subseteq tasks[t].found => AnyOpen' \subseteq tasks'[t].found
      BY <1>7, <2>2, <2>4
    <2>6. tasks'[t].found \cup ClosedBy(e)' = tasks[t].found \cup ClosedBy(e)
      BY <1>7, <2>2
    <2>7. AboutToClose'
      <3> SUFFICES ASSUME NEW u \in Serving'
                   PROVE /\ (tasks[u].found \subseteq AnyOpen)'
                         /\ (history[tasks[u].event].kind = "finished")'
                         /\ \/ (AnyOpen \subseteq tasks[u].found)'
                            \/ (Cardinality(tasks[u].found \cup ClosedBy(tasks[u].event)) >= Take)'
        BY DEF AboutToClose
      <3>1. u = t
        BY <1>7, <1>9
      <3>2. ClosedBy(tasks[t].event)' = ClosedBy(e)'
        BY <1>7 DEF ClosedBy
      <3>3. QED
        BY <1>1, <1>7, <2>4, <2>5, <2>6, <3>1, <3>2
    <2>8. QED
      BY <2>3, <2>7
  <1>10. QED
    BY <1>6, <1>8, <1>9 DEF SessionsInv

LEMMA FinishClosesInv ==
    ASSUME SessionsInv, NEW t \in Tasks, FinishCloses(t)
    PROVE  SessionsInv'
  <1>1. PICK e \in Nat : e = tasks[t].event
    BY DEF SessionsInv, TasksMakeSense, TypeOK
  <1>2. PICK open \in tasks[t].found :
            /\ sessions' = Closed(open, e)
            /\ IF tasks[t].found = {open}
               THEN Answers(t) /\ done' = done \cup {e}
               ELSE GoesOn(t, "closing", tasks[t].found \ {open}) /\ UNCHANGED done
    BY <1>1 DEF FinishCloses
  <1>3. At(t, "finished", "closing") /\ UNCHANGED <<history, orderly, entries>>
    BY DEF FinishCloses
  <1>4. CASE tasks[t].found = {open}
    BY <1>1, <1>2, <1>3, <1>4, FinishClosesLastInv
  <1>5. CASE tasks[t].found # {open}
    BY <1>1, <1>2, <1>3, <1>5, FinishClosesOneMoreInv
  <1>6. QED
    BY <1>4, <1>5

LEMMA FindsInv ==
    ASSUME SessionsInv, NEW t \in Tasks, LeaveFinds(t) \/ FinishFinds(t)
    PROVE  SessionsInv'
  <1>1. CASE LeaveFinds(t)
    <2>1. CASE Open(history[tasks[t].event].who) = {}
      BY <1>1, <2>1, LeaveFindsNoneInv DEF LeaveFinds
    <2>2. CASE Open(history[tasks[t].event].who) # {}
      <3>1. PICK last \in Open(history[tasks[t].event].who) :
                (\A k \in Open(history[tasks[t].event].who) : k <= last) /\ GoesOn(t, "closing", {last})
        BY <1>1, <2>2 DEF LeaveFinds
      <3>2. At(t, "left", "finding") /\ UNCHANGED <<history, orderly, sessions, entries, done>>
        BY <1>1, <2>2 DEF LeaveFinds
      <3>3. QED
        BY <3>1, <3>2, LeaveFindsOneInv
    <2>3. QED
      BY <2>1, <2>2
  <1>2. CASE FinishFinds(t)
    <2>1. CASE AnyOpen = {}
      BY <1>2, <2>1, FinishFindsNoneInv DEF FinishFinds
    <2>2. CASE AnyOpen # {}
      <3>1. PICK found \in SUBSET AnyOpen :
                (Cardinality(found) = Take \/ found = AnyOpen) /\ GoesOn(t, "closing", found)
        BY <1>2, <2>2 DEF FinishFinds
      <3>2. At(t, "finished", "finding") /\ UNCHANGED <<history, orderly, sessions, entries, done>>
        BY <1>2, <2>2 DEF FinishFinds
      <3>3. QED
        BY <3>1, <3>2, FinishFindsSomeInv
    <2>3. QED
      BY <2>1, <2>2
  <1>3. QED
    BY <1>1, <1>2

-----------------------------------------------------------------------------
(* The theorems.                                                           *)

LEMMA StepInv == SessionsInv /\ [Next]_vars => SessionsInv'
  <1> SUFFICES ASSUME SessionsInv, [Next]_vars PROVE SessionsInv'
    OBVIOUS
  <1>1. ASSUME NEW p \in People, Joins(p) PROVE SessionsInv'
    BY <1>1, HappensInv DEF Joins
  <1>2. ASSUME NEW p \in People, Leaves(p) PROVE SessionsInv'
    BY <1>2, HappensInv DEF Leaves
  <1>3. CASE RoomFinishes
    BY <1>3, HappensInv DEF RoomFinishes
  <1>4. ASSUME NEW n \in owed, GivenUp(n) PROVE SessionsInv'
    BY <1>4, GivenUpInv
  <1>5. ASSUME NEW t \in Tasks, Delivered(t) PROVE SessionsInv'
    BY <1>5, DeliveredInv
  <1>6. ASSUME NEW t \in Tasks, Fails(t) PROVE SessionsInv'
    BY <1>6, EndsInv DEF Fails
  <1>7. ASSUME NEW t \in Tasks, JoinCreationFails(t) PROVE SessionsInv'
    <2>1. tasks[t] # Idle /\ tasks' = [tasks EXCEPT ![t] = Idle] /\ owed' \subseteq owed
      BY <1>7 DEF JoinCreationFails, Answers, At, Idle
    <2>2. QED
      BY <1>7, <2>1, EndsInv DEF JoinCreationFails
  <1>8. ASSUME NEW t \in Tasks, JoinTouches(t) \/ JoinCreates(t) \/ JoinRecords(t) PROVE SessionsInv'
    BY <1>8, JoinTouchesInv, JoinCreatesAnyInv, JoinRecordsInv
  <1>9. ASSUME NEW t \in Tasks, LeaveFinds(t) \/ FinishFinds(t) PROVE SessionsInv'
    BY <1>9, FindsInv
  <1>10. ASSUME NEW t \in Tasks, LeaveCloses(t) \/ FinishCloses(t) PROVE SessionsInv'
    BY <1>10, LeaveClosesInv, FinishClosesInv
  <1>11. CASE UNCHANGED vars
    <2>1. UNCHANGED <<history, owed, orderly, sessions, entries, tasks, done>>
      BY <1>11 DEF vars
    <2>2. TypeOK' /\ TasksMakeSense' /\ OneRecorder' /\ HistoryMakesSense' /\ Len(history') <= MaxEvents
      BY <2>1, HistoryKept DEF SessionsInv, TypeOK, TasksMakeSense, OneRecorder
    <2>3. orderly => InTurn' /\ AboutToClose'
      BY <2>1 DEF SessionsInv, InTurn, AboutToClose, Serving, AnyOpen, Open, ClosedBy
    <2>4. QED
      BY <2>1, <2>2, <2>3, FollowKept DEF SessionsInv
  <1>12. QED
    BY <1>1, <1>2, <1>3, <1>4, <1>5, <1>6, <1>7, <1>8, <1>9, <1>10, <1>11 DEF Next

\* However the webhooks of one room are delivered, repeated, failed and given up, the
\* requests of livekit.service.ts keep the table as SessionsInv says.
THEOREM SessionsSpecInv == Spec => []SessionsInv
  BY InitInv, StepInv, PTL DEF Spec

LEMMA InvGivesStays == SessionsInv => StaysAreSessions
  <1> SUFFICES ASSUME SessionsInv PROVE StaysAreSessions
    OBVIOUS
  <1>1. EntriesCountOnce
    BY DEF SessionsInv, OneRecorder, EntriesCountOnce
  <1>2. ASSUME orderly, NEW n \in done, history[n].kind = "joined"
        PROVE  /\ n \in DOMAIN sessions
               /\ StillIn(n) => sessions[n] = 0
               /\ (~StillIn(n) /\ Exit(n) \in done) => sessions[n] = Exit(n)
    <2>1. SessionsFollow /\ HistoryMakesSense /\ n \in 1 .. Len(history) /\ Joined(n)
      BY <1>2 DEF SessionsInv, TypeOK, Joined
    <2>2. n \in DOMAIN sessions
      BY <2>1 DEF SessionsFollow
    <2>3. StillIn(n) => \A k : ~IsExit(n, k)
      BY DEF StillIn, IsExit
    <2>4. ASSUME ~StillIn(n), Exit(n) \in done PROVE sessions[n] = Exit(n)
      <3>1. PICK k \in 1 .. Len(history) : IsExit(n, k)
        BY <2>1, <2>4 DEF HistoryMakesSense
      <3>2. IsExit(n, Exit(n))
        BY <3>1 DEF IsExit, Exit
      <3>3. QED
        BY <1>2, <2>1, <2>4, <3>2 DEF SessionsFollow
    <2>5. QED
      BY <2>1, <2>2, <2>3, <2>4 DEF SessionsFollow
  <1>3. QED
    BY <1>1, <1>2 DEF SessionsInv, StaysAreSessions

\* In whatever order the webhooks come, participant_joined counts one entry once; in
\* order, a stay whose ends were handled is one session with those ends, though an exit
\* closes only the newest session it finds open and any answer may be lost.
THEOREM StaysStaySessions == Spec => []StaysAreSessions
  BY SessionsSpecInv, InvGivesStays, PTL

LEMMA InvGivesEnd == SessionsInv => NothingOpenPastTheEnd
  <1> SUFFICES ASSUME SessionsInv, orderly, NEW f \in done, history[f].kind = "finished",
                      Cardinality(ClosedBy(f)) < Take, NEW n \in DOMAIN sessions, n < f
               PROVE  sessions[n] \in 1 .. f
    BY DEF NothingOpenPastTheEnd, ClosedBy
  <1>1. IsFiniteSet(ClosedBy(f))
    BY FiniteSessions DEF ClosedBy
  <1>2. ~(Cardinality(ClosedBy(f)) >= Take)
    BY <1>1, FS_CardinalityType, MediaSessionsAssumption
  <1>3. QED
    BY <1>2 DEF SessionsInv, SessionsFollow

\* onRoomFinished, split at every query and closing what it found one session at a time,
\* leaves none of that life of the room open, unless it found as many as it takes.
THEOREM NothingStaysOpen == Spec => []NothingOpenPastTheEnd
  BY SessionsSpecInv, InvGivesEnd, PTL

-----------------------------------------------------------------------------
(* Catalog: the inductive invariant.                                       *)

Memberships == {"create", "adopt", "adopted", "setRole", "removeMember"}

\* A request says who and what it is about, and it passed its checks when it was taken up.
Fits(e) ==
    /\ IsRequest(e)
    /\ e.what \in Memberships => e.user \in Users
    /\ e.what \in {"addRoom", "putRoom"} => e.on \in Channels
    /\ e.what = "setRole" => (e.user = e.saw => e.role = "OWNER")
    /\ e.what = "removeMember" => e.user # e.saw

CatalogInv ==
    /\ CatalogTypeOK
    /\ \A k \in Calls : calls[k] # None => Fits(calls[k])

-----------------------------------------------------------------------------
(* Catalog: what the steps are made of.                                    *)

Row == [exists : BOOLEAN, live : BOOLEAN, owner : Users \cup {None},
        roles : [Users -> Roles \cup {None}]]
Place == [channel : Channels \cup {None}, position : Nat]

LEMMA CatalogTyped ==
    CatalogTypeOK => /\ spaces \in [Spaces -> Row] /\ place \in [Rooms -> Place]
                     /\ calls = [k \in Calls |-> calls[k]]
  BY DEF CatalogTypeOK, Row, Place

LEMMA RequestTyped ==
    ASSUME NEW e, IsRequest(e)
    PROVE  /\ e.what \in Kinds /\ e.on \in Spaces /\ e.user \in Users \cup {None}
           /\ e.role \in Roles \cup {None} /\ e.saw \in Users \cup {None}
           /\ e.room \in Rooms \cup {None} /\ e.count \in Nat
           /\ \A r \in DOMAIN e.order : e.order[r] \in Nat
  BY DEF IsRequest

LEMMA EmptyList == <<>> \in [{} -> Nat] /\ {} \in SUBSET Rooms
  OBVIOUS

\* Taking a request up.
LEMMA PlainRequest ==
    ASSUME NEW what \in Kinds, NEW on \in Spaces, NEW user \in Users \cup {None}
    PROVE  /\ IsRequest(Request(what, on, user))
           /\ Request(what, on, user).what = what
           /\ Request(what, on, user).on = on
           /\ Request(what, on, user).user = user
  <1>1. Request(what, on, user) \in
           [what : Kinds, on : Spaces, user : Users \cup {None}, role : Roles \cup {None},
              saw : Users \cup {None}, room : Rooms \cup {None}, count : Nat, order : [{} -> Nat]]
    BY EmptyList DEF Request
  <1>2. QED
    BY <1>1, EmptyList DEF IsRequest, Request

\* A request that was taken up has what it needs.
Taken(k, e) ==
    /\ Takes(k, e)
    /\ Fits(e)

LEMMA RequestsTaken ==
    ASSUME CatalogTypeOK, NEW k \in Calls, Requests(k)
    PROVE  \E e : Taken(k, e)
  <1>1. spaces \in [Spaces -> Row] /\ Rooms \subseteq Spaces /\ Channels \subseteq Spaces
    BY CatalogTyped DEF Spaces
  <1>2. ASSUME NEW r \in Rooms, EnsureRoom(k, r) PROVE \E e : Taken(k, e)
    <2>1. Takes(k, Request("ensure", r, None))
      BY <1>2 DEF EnsureRoom
    <2>2. QED
      BY <1>1, <2>1, PlainRequest DEF Taken, Fits, Memberships, Kinds
  <1>3. ASSUME NEW u \in Users, NEW r \in Rooms, CreateRoom(k, r, u) PROVE \E e : Taken(k, e)
    <2>1. CASE ~spaces[r].live
      <3>1. Takes(k, Request("create", r, u))
        BY <1>3, <2>1 DEF CreateRoom
      <3>2. QED
        BY <1>1, <3>1, PlainRequest DEF Taken, Fits, Memberships, Kinds
    <2>2. CASE spaces[r].live
      <3>1. Takes(k, Request("adopt", r, u)) /\ spaces[r].owner = None
        BY <1>3, <2>2 DEF CreateRoom
      <3>2. QED
        BY <1>1, <3>1, PlainRequest DEF Taken, Fits, Memberships, Kinds
    <2>3. QED
      BY <2>1, <2>2
  <1>4. ASSUME NEW u \in Users, NEW c \in Channels, CreateChannel(k, c, u) PROVE \E e : Taken(k, e)
    <2>1. Takes(k, Request("create", c, u))
      BY <1>4 DEF CreateChannel
    <2>2. QED
      BY <1>1, <2>1, PlainRequest DEF Taken, Fits, Memberships, Kinds
  <1>5. ASSUME NEW u \in Users, NEW c \in Channels, ReorderRooms(k, c, u) PROVE \E e : Taken(k, e)
    <2> DEFINE n == Cardinality(RoomsOf(c))
    <2>1. PICK list \in [0 .. n - 1 -> RoomsOf(c)] :
             \E order \in [Range(list) -> DOMAIN list] :
                Takes(k, [Request("reorder", c, None) EXCEPT !.order = order])
      BY <1>5 DEF ReorderRooms
    <2>2. PICK order \in [Range(list) -> DOMAIN list] :
             Takes(k, [Request("reorder", c, None) EXCEPT !.order = order])
      BY <2>1
    <2> DEFINE e == [Request("reorder", c, None) EXCEPT !.order = order]
    <2>7. Range(list) \in SUBSET Rooms /\ order \in [Range(list) -> Nat]
      <3>1. n \in Nat
        BY CatalogAssumption, FS_Subset, FS_CardinalityType DEF RoomsOf
      <3> HIDE DEF n
      <3>2. DOMAIN list = 0 .. n - 1 /\ 0 .. n - 1 \subseteq Nat
        BY <3>1
      <3>3. Range(list) \subseteq RoomsOf(c)
        BY DEF Range
      <3>4. QED
        BY <3>2, <3>3 DEF RoomsOf
    <2>3. /\ e.what = "reorder" /\ e.on = c
          /\ IsRequest(e)
      <3>1. e \in [what : Kinds, on : Spaces, user : Users \cup {None}, role : Roles \cup {None},
                  saw : Users \cup {None}, room : Rooms \cup {None}, count : Nat,
                  order : [Range(list) -> Nat]]
        BY <1>1, <2>7 DEF Request, Kinds
      <3>2. QED
        BY <2>7, <3>1 DEF IsRequest, Request
    <2>4. Takes(k, e)
      BY <2>2
    <2> HIDE DEF e
    <2>5. Taken(k, e)
      BY <2>3, <2>4 DEF Taken, Fits, Memberships
    <2>6. QED
      BY <2>5
  <1>6. ASSUME NEW u \in Users, NEW c \in Channels, NEW r \in Rooms, AddRoom(k, c, u, r)
        PROVE  \E e : Taken(k, e)
    <2> DEFINE e == [Request("addRoom", c, None) EXCEPT !.room = r]
    <2>1. Takes(k, e)
      BY <1>6 DEF AddRoom
    <2>2. e.what = "addRoom" /\ e.on = c /\ IsRequest(e)
      <3>1. e \in [what : Kinds, on : Spaces, user : Users \cup {None}, role : Roles \cup {None},
                  saw : Users \cup {None}, room : Rooms \cup {None}, count : Nat,
                  order : [{} -> Nat]]
        BY <1>1, EmptyList DEF Request, Kinds
      <3>2. QED
        BY <3>1, EmptyList DEF IsRequest, Request
    <2> HIDE DEF e
    <2>3. Taken(k, e)
      BY <2>1, <2>2 DEF Taken, Fits, Memberships
    <2>4. QED
      BY <2>3
  <1>7. ASSUME NEW u \in Users, NEW c \in Channels, NEW r \in Rooms, RemoveRoom(k, c, u, r)
        PROVE  \E e : Taken(k, e)
    <2> DEFINE e == [Request("takeRoom", c, None) EXCEPT !.room = r]
    <2>1. Takes(k, e)
      BY <1>7 DEF RemoveRoom
    <2>2. e.what = "takeRoom" /\ e.on = c /\ IsRequest(e)
      <3>1. e \in [what : Kinds, on : Spaces, user : Users \cup {None}, role : Roles \cup {None},
                  saw : Users \cup {None}, room : Rooms \cup {None}, count : Nat,
                  order : [{} -> Nat]]
        BY <1>1, EmptyList DEF Request, Kinds
      <3>2. QED
        BY <3>1, EmptyList DEF IsRequest, Request
    <2> HIDE DEF e
    <2>3. Taken(k, e)
      BY <2>1, <2>2 DEF Taken, Fits, Memberships
    <2>4. QED
      BY <2>3
  <1>8. ASSUME NEW u \in Users, NEW s \in Spaces, RemoveSpace(k, s, u) PROVE \E e : Taken(k, e)
    <2>1. Takes(k, Request("remove", s, None))
      BY <1>8 DEF RemoveSpace
    <2>2. QED
      BY <1>1, <2>1, PlainRequest DEF Taken, Fits, Memberships, Kinds
  <1>9. ASSUME NEW u \in Users, NEW s \in Spaces, NEW target \in Users, RemoveMember(k, s, u, target)
        PROVE  \E e : Taken(k, e)
    <2> DEFINE e == [Request("removeMember", s, target) EXCEPT !.saw = spaces[s].owner]
    <2>1. Takes(k, e) /\ target # spaces[s].owner
      BY <1>9 DEF RemoveMember, Removable
    <2>2. spaces[s].owner \in Users \cup {None}
      BY <1>1 DEF Row
    <2>3. /\ e.what = "removeMember" /\ IsRequest(e)
          /\ e.user = target /\ e.saw = spaces[s].owner
      <3>1. e \in [what : Kinds, on : Spaces, user : Users \cup {None}, role : Roles \cup {None},
                  saw : Users \cup {None}, room : Rooms \cup {None}, count : Nat,
                  order : [{} -> Nat]]
        BY <1>1, <2>2, EmptyList DEF Request, Kinds
      <3>2. QED
        BY <3>1, EmptyList DEF IsRequest, Request
    <2> HIDE DEF e
    <2>4. Taken(k, e)
      BY <2>1, <2>3 DEF Taken, Fits, Memberships
    <2>5. QED
      BY <2>4
  <1>10. ASSUME NEW u \in Users, NEW s \in Spaces, NEW target \in Users, NEW role \in Roles,
               SetMemberRole(k, s, u, target, role)
        PROVE  \E e : Taken(k, e)
    <2> DEFINE e == [Request("setRole", s, target) EXCEPT !.role = role, !.saw = spaces[s].owner]
    <2>1. Takes(k, e) /\ (target = spaces[s].owner => role = "OWNER")
      BY <1>10 DEF SetMemberRole
    <2>2. spaces[s].owner \in Users \cup {None}
      BY <1>1 DEF Row
    <2>3. /\ e.what = "setRole" /\ e.on = s /\ IsRequest(e)
          /\ e.user = target /\ e.role = role /\ e.saw = spaces[s].owner
      <3>1. e \in [what : Kinds, on : Spaces, user : Users \cup {None}, role : Roles \cup {None},
                  saw : Users \cup {None}, room : Rooms \cup {None}, count : Nat,
                  order : [{} -> Nat]]
        BY <1>1, <2>2, EmptyList DEF Request, Kinds
      <3>2. QED
        BY <3>1, EmptyList DEF IsRequest, Request
    <2> HIDE DEF e
    <2>4. Taken(k, e)
      BY <2>1, <2>3 DEF Taken, Fits, Memberships
    <2>5. QED
      BY <2>4
  <1>11. QED
    BY <1>2, <1>3, <1>4, <1>5, <1>6, <1>7, <1>8, <1>9, <1>10 DEF Requests

-----------------------------------------------------------------------------
(* Catalog: types.                                                         *)

LEMMA CatalogInvTyped ==
    CatalogInv <=> /\ spaces \in [Spaces -> Row] /\ place \in [Rooms -> Place]
                   /\ calls = [k \in Calls |-> calls[k]]
                   /\ \A k \in Calls : calls[k] # None => Fits(calls[k])
  BY DEF CatalogInv, CatalogTypeOK, Fits, Row, Place

\* The types, of the next state.
CallsFitNext ==
    /\ calls' = [k \in Calls |-> calls'[k]]
    /\ \A k \in Calls : calls'[k] # None => Fits(calls'[k])

FitsNext == spaces' \in [Spaces -> Row] /\ place' \in [Rooms -> Place] /\ CallsFitNext

LEMMA FitsThen == FitsNext => CatalogInv'
  BY DEF FitsNext, CallsFitNext, CatalogInv, CatalogTypeOK, Fits, Row, Place

\* One request goes on as e, or ends.
LEMMA CallsMove ==
    ASSUME CatalogInv, NEW k \in Calls, NEW e, calls' = [calls EXCEPT ![k] = e]
    PROVE  /\ calls'[k] = e
           /\ \A l \in Calls \ {k} : calls'[l] = calls[l]
           /\ (e # None => Fits(e)) => CallsFitNext
  <1>1. calls = [l \in Calls |-> calls[l]]
    BY CatalogInvTyped
  <1>2. calls'[k] = e /\ \A l \in Calls \ {k} : calls'[l] = calls[l]
    BY <1>1
  <1>3. calls' = [l \in Calls |-> calls'[l]]
    BY <1>1
  <1>4. QED
    BY <1>2, <1>3, CatalogInvTyped DEF CallsFitNext

\* What ends, was something.
LEMMA CallEnds ==
    ASSUME CatalogInv, NEW k \in Calls, NEW what, Writes(k, what)
    PROVE  /\ calls[k] # None /\ calls[k].what = what /\ Fits(calls[k])
           /\ calls'[k] = None
           /\ \A l \in Calls \ {k} : calls'[l] = calls[l]
           /\ CallsFitNext
  <1>1. calls[k] # None /\ calls[k].what = what /\ calls' = [calls EXCEPT ![k] = None]
    BY DEF Writes
  <1>2. QED
    BY <1>1, CallsMove DEF CatalogInv

LEMMA CatalogSteps ==
    ASSUME CatalogInv, [CatalogNext]_catalogVars
    PROVE  CatalogInv'
  <1>1. /\ spaces \in [Spaces -> Row] /\ place \in [Rooms -> Place]
        /\ \A k \in Calls : calls[k] # None => Fits(calls[k])
        /\ Rooms \subseteq Spaces /\ Channels \subseteq Spaces
        /\ CatalogTypeOK
    BY CatalogInvTyped DEF Spaces, CatalogInv
  <1>2. ASSUME NEW k \in Calls, Requests(k) PROVE FitsNext
    <2>1. PICK e : Taken(k, e)
      BY <1>1, <1>2, RequestsTaken
    <2>2. QED
      BY <1>1, <2>1, CallsMove DEF Taken, Takes, FitsNext
  <1>3. ASSUME NEW k \in Calls, CountRooms(k) PROVE FitsNext
    <2> DEFINE count == Cardinality(RoomsOf(calls[k].on))
               next == [calls[k] EXCEPT !.what = "putRoom", !.count = count]
               e == IF count >= CHANNEL_ROOM_LIMIT THEN None ELSE next
    <2>1. calls[k] # None /\ calls[k].what = "addRoom" /\ calls' = [calls EXCEPT ![k] = e]
      BY <1>3 DEF CountRooms
    <2>2. count \in Nat
      BY CatalogAssumption, FS_Subset, FS_CardinalityType DEF RoomsOf
    <2>3. Fits(next)
      <3> HIDE DEF count
      <3>1. Fits(calls[k]) /\ calls[k].on \in Channels
        BY <1>1, <2>1 DEF Fits
      <3>2. PICK R \in SUBSET Rooms :
               calls[k] \in [what : Kinds, on : Spaces, user : Users \cup {None},
                             role : Roles \cup {None}, saw : Users \cup {None},
                             room : Rooms \cup {None}, count : Nat, order : [R -> Nat]]
        BY <3>1 DEF Fits, IsRequest
      <3>3. next \in [what : Kinds, on : Spaces, user : Users \cup {None},
                      role : Roles \cup {None}, saw : Users \cup {None},
                      room : Rooms \cup {None}, count : Nat, order : [R -> Nat]]
        BY <2>2, <3>2 DEF Kinds
      <3>4. next.what = "putRoom" /\ next.on = calls[k].on
        BY <3>2
      <3>5. QED
        BY <3>1, <3>2, <3>3, <3>4 DEF Fits, IsRequest, Memberships
    <2> HIDE DEF next, count
    <2>4. e # None => Fits(e)
      BY <2>3
    <2> HIDE DEF e
    <2>5. CallsFitNext
      BY <2>1, <2>4, CallsMove
    <2>6. QED
      BY <1>1, <1>3, <2>5 DEF CountRooms, FitsNext
  <1>4. ASSUME NEW k \in Calls, WritesCreate(k) PROVE FitsNext
    <2>1. calls[k].user \in Users /\ calls[k].on \in Spaces /\ CallsFitNext
      BY <1>4, CallEnds, RequestTyped DEF WritesCreate, Fits, Memberships
    <2>2. Created(calls[k].on, calls[k].user) \in Row
      <3>1. spaces[calls[k].on] \in Row
        BY <1>1, <2>1
      <3>2. QED
        BY ONLY <2>1, <3>1 DEF Created, Row, Roles
    <2>3. QED
      BY <1>1, <1>4, <2>1, <2>2 DEF WritesCreate, FitsNext
  <1>5. ASSUME NEW k \in Calls, WritesAdopt(k) PROVE FitsNext
    <2> DEFINE e == [calls[k] EXCEPT !.what = "adopted"]
    <2>1. calls[k] # None /\ calls[k].what = "adopt" /\ calls' = [calls EXCEPT ![k] = e]
      BY <1>5 DEF WritesAdopt
    <2>2. PICK R \in SUBSET Rooms :
             calls[k] \in [what : Kinds, on : Spaces, user : Users \cup {None},
                           role : Roles \cup {None}, saw : Users \cup {None},
                           room : Rooms \cup {None}, count : Nat, order : [R -> Nat]]
      BY <1>1, <2>1 DEF Fits, IsRequest
    <2>3. e \in [what : Kinds, on : Spaces, user : Users \cup {None},
                 role : Roles \cup {None}, saw : Users \cup {None},
                 room : Rooms \cup {None}, count : Nat, order : [R -> Nat]]
      BY <2>2 DEF Kinds
    <2>4. e.what = "adopted" /\ e.user = calls[k].user /\ calls[k].user \in Users
      BY <1>1, <2>1, <2>2 DEF Fits, Memberships
    <2>5. Fits(e)
      BY <2>2, <2>3, <2>4 DEF Fits, IsRequest
    <2> HIDE DEF e
    <2>6. CallsFitNext
      BY <2>1, <2>5, CallsMove
    <2>7. spaces' \in [Spaces -> Row]
      BY <1>1, <1>5, <2>4 DEF WritesAdopt, Row
    <2>8. QED
      BY <1>1, <1>5, <2>6, <2>7 DEF WritesAdopt, FitsNext
  <1>6. ASSUME NEW k \in Calls, WritesAdopted(k) PROVE FitsNext
    <2>1. CallsFitNext
      BY <1>6, CallEnds DEF WritesAdopted
    <2>2. spaces' \in [Spaces -> Row]
      BY <1>1, <1>6 DEF WritesAdopted, Row, Roles
    <2>3. QED
      BY <1>1, <1>6, <2>1, <2>2 DEF WritesAdopted, FitsNext
  <1>7. ASSUME NEW k \in Calls, WritesEnsure(k) PROVE FitsNext
    <2>1. CallsFitNext
      BY <1>7, CallEnds DEF WritesEnsure
    <2>2. spaces' \in [Spaces -> Row]
      BY <1>1, <1>7 DEF WritesEnsure, Row
    <2>3. QED
      BY <1>1, <1>7, <2>1, <2>2 DEF WritesEnsure, FitsNext
  <1>8. ASSUME NEW k \in Calls, WritesRemove(k) PROVE FitsNext
    <2>1. CallsFitNext
      BY <1>8, CallEnds DEF WritesRemove
    <2>2. spaces' \in [Spaces -> Row]
      BY <1>1, <1>8 DEF WritesRemove, Row
    <2>3. place' \in [Rooms -> Place]
      BY <1>1, <1>8 DEF WritesRemove, Place, Loose
    <2>4. QED
      BY <2>1, <2>2, <2>3 DEF FitsNext
  <1>9. ASSUME NEW k \in Calls, WritesRole(k) PROVE FitsNext
    <2> DEFINE on == calls[k].on
               row == WithRole(on, calls[k].user, calls[k].role, calls[k].saw)
    <2>1. /\ calls[k].user \in Users /\ calls[k].on \in Spaces /\ CallsFitNext
          /\ calls[k].role \in Roles \cup {None} /\ calls[k].saw \in Users \cup {None}
      BY <1>9, CallEnds, RequestTyped DEF WritesRole, Fits, Memberships
    <2>2. row \in Row
      <3>1. spaces[on] \in Row /\ "MOD" \in Roles
        BY <1>1, <2>1 DEF Roles
      <3> DEFINE named == [spaces[on] EXCEPT !.roles[calls[k].user] = calls[k].role]
                 passed == [named EXCEPT !.owner = calls[k].user]
      <3>2. named \in Row
        BY ONLY <2>1, <3>1 DEF Row
      <3>3. passed \in Row
        <4> HIDE DEF named
        <4>1. QED
          BY ONLY <2>1, <3>2 DEF Row
      <3>4. [passed EXCEPT !.roles[calls[k].saw] = "MOD"] \in Row
        <4> HIDE DEF passed
        <4>1. QED
          BY ONLY <3>1, <3>3 DEF Row
      <3>5. row \in {named, passed, [passed EXCEPT !.roles[calls[k].saw] = "MOD"]}
        BY DEF WithRole
      <3>6. QED
        BY <3>2, <3>3, <3>4, <3>5
    <2>3. spaces' = [spaces EXCEPT ![on] = row] /\ place' = place
      BY <1>9 DEF WritesRole
    <2> HIDE DEF row
    <2>4. QED
      BY <1>1, <2>1, <2>2, <2>3 DEF FitsNext
  <1>10. ASSUME NEW k \in Calls, WritesMember(k) PROVE FitsNext
    <2>1. CallsFitNext
      BY <1>10, CallEnds DEF WritesMember
    <2>2. spaces' \in [Spaces -> Row]
      BY <1>1, <1>10 DEF WritesMember, Row
    <2>3. QED
      BY <1>1, <1>10, <2>1, <2>2 DEF WritesMember, FitsNext
  <1>11. ASSUME NEW k \in Calls, WritesPut(k) PROVE FitsNext
    <2>1. CallsFitNext /\ calls[k].on \in Channels /\ calls[k].count \in Nat
      BY <1>11, CallEnds, RequestTyped DEF WritesPut, Fits
    <2>2. place' \in [Rooms -> Place]
      BY <1>1, <1>11, <2>1 DEF WritesPut, Place
    <2>3. QED
      BY <1>1, <1>11, <2>1, <2>2 DEF WritesPut, FitsNext
  <1>12. ASSUME NEW k \in Calls, WritesTake(k) PROVE FitsNext
    <2>1. CallsFitNext
      BY <1>12, CallEnds DEF WritesTake
    <2>2. place' \in [Rooms -> Place]
      BY <1>1, <1>12 DEF WritesTake, Place, Loose
    <2>3. QED
      BY <1>1, <1>12, <2>1, <2>2 DEF WritesTake, FitsNext
  <1>13. ASSUME NEW k \in Calls, WritesOrder(k) PROVE FitsNext
    <2>1. CallsFitNext /\ \A r \in DOMAIN calls[k].order : calls[k].order[r] \in Nat
      BY <1>13, CallEnds, RequestTyped DEF WritesOrder, Fits
    <2>2. place' \in [Rooms -> Place]
      BY <1>1, <1>13, <2>1 DEF WritesOrder, Place
    <2>3. QED
      BY <1>1, <1>13, <2>1, <2>2 DEF WritesOrder, FitsNext
  <1>14. ASSUME NEW r \in Rooms, NEW u \in Users, JoinAsMember(r, u) PROVE FitsNext
    <2> DEFINE row == [spaces[r] EXCEPT !.roles[u] = "MEMBER"]
    <2>1. spaces[r] \in Row /\ "MEMBER" \in Roles
      BY <1>1 DEF Roles
    <2>2. row \in Row
      BY ONLY <2>1 DEF Row
    <2>3. spaces' = [spaces EXCEPT ![r] = row]
      BY <1>14 DEF JoinAsMember
    <2> HIDE DEF row
    <2>4. spaces' \in [Spaces -> Row]
      BY <1>1, <2>2, <2>3
    <2>5. QED
      BY <1>1, <1>14, <2>4, CatalogInvTyped DEF JoinAsMember, FitsNext, CallsFitNext
  <1>15. ASSUME NEW r \in Rooms, TouchOrCreate(r) PROVE FitsNext
    <2>1. spaces' \in [Spaces -> Row]
      BY <1>1, <1>15 DEF TouchOrCreate, Row
    <2>2. QED
      BY <1>1, <1>15, <2>1, CatalogInvTyped DEF TouchOrCreate, FitsNext, CallsFitNext
  <1>16. ASSUME UNCHANGED catalogVars PROVE FitsNext
    BY <1>1, <1>16, CatalogInvTyped DEF catalogVars, FitsNext, CallsFitNext
  <1>17. FitsNext
    BY <1>2, <1>3, <1>4, <1>5, <1>6, <1>7, <1>8, <1>9, <1>10, <1>11, <1>12, <1>13, <1>14, <1>15,
       <1>16 DEF CatalogNext, Written
  <1>18. QED
    BY <1>17, FitsThen

-----------------------------------------------------------------------------
(* Catalog: owners.                                                        *)

OwnersStep == \A s \in Spaces : OwnerAway(s)' => OwnerAway(s) \/ OwnerTakenLate(s)

\* Owners stay, with their role.
LEMMA OwnersUntouched ==
    ASSUME \A s \in Spaces :
              /\ spaces'[s].owner = spaces[s].owner
              /\ spaces[s].roles[spaces[s].owner] = "OWNER" =>
                    spaces'[s].roles[spaces[s].owner] = "OWNER",
           \A l \in Calls : calls[l] # None /\ calls[l].what = "adopted" => calls'[l] = calls[l]
    PROVE  OwnersStep
  BY DEF OwnersStep, OwnerAway

\* A request about one room or channel writes.
LEMMA OwnersWritten ==
    ASSUME NEW k \in Calls, NEW on \in Spaces, calls[k].on = on,
           \A s \in Spaces \ {on} : spaces'[s] = spaces[s],
           \A l \in Calls \ {k} : calls'[l] = calls[l],
           OwnerAway(on)' => OwnerAway(on) \/ OwnerTakenLate(on)
    PROVE  OwnersStep
  <1>1. ASSUME NEW s \in Spaces, s # on, OwnerAway(s)' PROVE OwnerAway(s)
    BY <1>1 DEF OwnerAway
  <1>2. QED
    BY <1>1 DEF OwnersStep

LEMMA OwnersSteps ==
    ASSUME CatalogInv, [CatalogNext]_catalogVars
    PROVE  OwnersStep
  <1>1. /\ spaces \in [Spaces -> Row] /\ Rooms \subseteq Spaces
        /\ calls = [l \in Calls |-> calls[l]] /\ CatalogTypeOK
        /\ \A l \in Calls : calls[l] # None => Fits(calls[l]) /\ calls[l].on \in Spaces
    BY CatalogInvTyped, RequestTyped DEF Spaces, CatalogInv, Fits
  <1>2. ASSUME NEW k \in Calls, Requests(k) PROVE OwnersStep
    <2>1. PICK e : Taken(k, e)
      BY <1>1, <1>2, RequestsTaken
    <2>2. calls[k] = None /\ spaces' = spaces /\ \A l \in Calls \ {k} : calls'[l] = calls[l]
      BY <1>1, <2>1 DEF Taken, Takes
    <2>3. QED
      BY <2>2, OwnersUntouched
  <1>3. ASSUME NEW k \in Calls, CountRooms(k) PROVE OwnersStep
    <2>1. calls[k].what = "addRoom" /\ spaces' = spaces
          /\ \A l \in Calls \ {k} : calls'[l] = calls[l]
      BY <1>1, <1>3 DEF CountRooms
    <2>2. QED
      BY <2>1, OwnersUntouched
  <1>4. ASSUME NEW k \in Calls, WritesCreate(k) PROVE OwnersStep
    <2>0. PICK on \in Spaces : on = calls[k].on
      BY <1>1, <1>4, CallEnds DEF WritesCreate
    <2>1. (\A l \in Calls \ {k} : calls'[l] = calls[l]) /\ calls[k].user \in Users
      BY <1>1, <1>4, CallEnds DEF WritesCreate, Fits, Memberships
    <2>2. /\ spaces'[on].owner = calls[k].user
          /\ spaces'[on].roles[calls[k].user] = "OWNER"
          /\ \A s \in Spaces \ {on} : spaces'[s] = spaces[s]
      BY <1>1, <1>4, <2>0, <2>1 DEF WritesCreate, Created, Row
    <2>3. ~OwnerAway(on)'
      BY <2>2 DEF OwnerAway
    <2>4. QED
      BY <2>0, <2>1, <2>2, <2>3, OwnersWritten
  <1>5. ASSUME NEW k \in Calls, WritesAdopt(k) PROVE OwnersStep
    <2>0. PICK on \in Spaces : on = calls[k].on
      BY <1>1, <1>5 DEF WritesAdopt
    <2> DEFINE e == [calls[k] EXCEPT !.what = "adopted"]
    <2>1. calls[k] # None /\ calls[k].what = "adopt" /\ calls' = [calls EXCEPT ![k] = e]
      BY <1>1, <1>5 DEF WritesAdopt
    <2>2. e.what = "adopted" /\ e.user = calls[k].user /\ e.on = calls[k].on /\ e # None
      <3>1. PICK R \in SUBSET Rooms :
               calls[k] \in [what : Kinds, on : Spaces, user : Users \cup {None},
                             role : Roles \cup {None}, saw : Users \cup {None},
                             room : Rooms \cup {None}, count : Nat, order : [R -> Nat]]
        BY <1>1, <2>1 DEF Fits, IsRequest
      <3>2. e \in [what : Kinds, on : Spaces, user : Users \cup {None},
                   role : Roles \cup {None}, saw : Users \cup {None},
                   room : Rooms \cup {None}, count : Nat, order : [R -> Nat]]
        BY <3>1 DEF Kinds
      <3>3. e # None
        <4> HIDE DEF e
        <4>1. QED
          BY <3>2, NoneAssumption DEF IsRequest
      <3>4. QED
        BY <3>1, <3>3
    <2> HIDE DEF e
    <2>3. calls'[k] = e /\ \A l \in Calls \ {k} : calls'[l] = calls[l]
      BY <1>1, <2>1
    <2>4. spaces'[on].owner = calls[k].user
          /\ \A s \in Spaces \ {on} : spaces'[s] = spaces[s]
      BY <1>1, <1>5, <2>0, <2>1 DEF WritesAdopt, Row
    <2>5. ~OwnerAway(on)'
      BY <2>0, <2>2, <2>3, <2>4 DEF OwnerAway
    <2>6. QED
      BY <2>0, <2>1, <2>3, <2>4, <2>5, OwnersWritten
  <1>6. ASSUME NEW k \in Calls, WritesAdopted(k) PROVE OwnersStep
    <2>0. PICK on \in Spaces : on = calls[k].on
      BY <1>1, <1>6, CallEnds DEF WritesAdopted
    <2>1. (\A l \in Calls \ {k} : calls'[l] = calls[l]) /\ calls[k].user \in Users
      BY <1>1, <1>6, CallEnds DEF WritesAdopted, Fits, Memberships
    <2>2. /\ spaces'[on].owner = spaces[on].owner
          /\ spaces'[on].roles = [spaces[on].roles EXCEPT ![calls[k].user] = "OWNER"]
          /\ spaces[on].roles \in [Users -> Roles \cup {None}]
          /\ spaces[on].owner \in Users \cup {None}
          /\ \A s \in Spaces \ {on} : spaces'[s] = spaces[s]
      BY <1>1, <1>6, <2>0, <2>1 DEF WritesAdopted, Row
    <2>3. OwnerAway(on)' => OwnerAway(on)
      <3>1. CASE calls[k].user = spaces[on].owner
        BY <2>0, <2>1, <2>2, <3>1 DEF OwnerAway
      <3>2. CASE calls[k].user # spaces[on].owner
        <4>1. spaces[on].owner # None =>
                 spaces'[on].roles[spaces[on].owner] = spaces[on].roles[spaces[on].owner]
          BY <2>2, <3>2
        <4>2. QED
          BY <2>0, <2>1, <2>2, <3>2, <4>1 DEF OwnerAway
      <3>3. QED
        BY <3>1, <3>2
    <2>4. QED
      BY <2>0, <2>1, <2>2, <2>3, OwnersWritten
  <1>7. ASSUME NEW k \in Calls, WritesEnsure(k) PROVE OwnersStep
    <2>1. calls[k].what = "ensure" /\ \A l \in Calls \ {k} : calls'[l] = calls[l]
      BY <1>7, CallEnds DEF WritesEnsure
    <2>2. \A s \in Spaces : spaces'[s].owner = spaces[s].owner /\ spaces'[s].roles = spaces[s].roles
      BY <1>1, <1>7 DEF WritesEnsure, Row
    <2>3. QED
      BY <2>1, <2>2, OwnersUntouched
  <1>8. ASSUME NEW k \in Calls, WritesRemove(k) PROVE OwnersStep
    <2>1. calls[k].what = "remove" /\ \A l \in Calls \ {k} : calls'[l] = calls[l]
      BY <1>8, CallEnds DEF WritesRemove
    <2>2. \A s \in Spaces : spaces'[s].owner = spaces[s].owner /\ spaces'[s].roles = spaces[s].roles
      BY <1>1, <1>8 DEF WritesRemove, Row
    <2>3. QED
      BY <2>1, <2>2, OwnersUntouched
  <1>9. ASSUME NEW k \in Calls, WritesRole(k) PROVE OwnersStep
    <2>0. PICK on \in Spaces : on = calls[k].on
      BY <1>1, <1>9, CallEnds DEF WritesRole
    <2> DEFINE saw == calls[k].saw
               row == WithRole(on, calls[k].user, calls[k].role, saw)
    <2>1. calls[k] # None /\ calls[k].what = "setRole" /\ calls'[k] = None
          /\ (\A l \in Calls \ {k} : calls'[l] = calls[l]) /\ calls[k].user \in Users
          /\ Fits(calls[k])
      BY <1>1, <1>9, CallEnds DEF WritesRole, Fits, Memberships
    <2>2. spaces[on] \in Row /\ saw \in Users \cup {None}
      BY <1>1, <2>1, RequestTyped DEF Fits
    <2>3. spaces'[on] = row /\ \A s \in Spaces \ {on} : spaces'[s] = spaces[s]
      BY <1>1, <1>9, <2>0, <2>1 DEF WritesRole
    <2>4. OwnerAway(on)' => OwnerAway(on) \/ OwnerTakenLate(on)
      <3>1. CASE calls[k].role = "OWNER"
        <4>1. row.owner = calls[k].user /\ row.roles[calls[k].user] = "OWNER"
          BY <2>1, <2>2, <3>1 DEF WithRole, Row
        <4> HIDE DEF row
        <4>2. QED
          BY <2>0, <2>3, <4>1 DEF OwnerAway
      <3>2. CASE calls[k].role # "OWNER"
        <4>1. /\ row.owner = spaces[on].owner
              /\ spaces[on].owner # None /\ spaces[on].owner # calls[k].user =>
                    row.roles[spaces[on].owner] = spaces[on].roles[spaces[on].owner]
          BY <2>1, <2>2, <3>2 DEF WithRole, Row
        <4>2. CASE calls[k].user = spaces[on].owner
          <5>1. saw # spaces[on].owner
            BY <2>1, <3>2, <4>2 DEF Fits
          <5>2. OwnerTakenLate(on)
            BY <2>0, <2>1, <4>2, <5>1 DEF OwnerTakenLate
          <5>3. QED
            BY <5>2
        <4>3. CASE calls[k].user # spaces[on].owner
          <5> HIDE DEF row
          <5>1. QED
            BY <2>0, <2>1, <2>3, <4>1, <4>3 DEF OwnerAway
        <4>4. QED
          BY <4>2, <4>3
      <3>3. QED
        BY <3>1, <3>2
    <2>5. QED
      BY <2>0, <2>1, <2>3, <2>4, OwnersWritten
  <1>10. ASSUME NEW k \in Calls, WritesMember(k) PROVE OwnersStep
    <2>0. PICK on \in Spaces : on = calls[k].on
      BY <1>1, <1>10, CallEnds DEF WritesMember
    <2>1. calls[k] # None /\ calls[k].what = "removeMember" /\ calls'[k] = None
          /\ (\A l \in Calls \ {k} : calls'[l] = calls[l]) /\ calls[k].user \in Users
          /\ Fits(calls[k])
      BY <1>1, <1>10, CallEnds DEF WritesMember, Fits, Memberships
    <2>2. /\ spaces'[on].owner = spaces[on].owner
          /\ spaces'[on].roles = [spaces[on].roles EXCEPT ![calls[k].user] = None]
          /\ spaces[on].roles \in [Users -> Roles \cup {None}]
          /\ spaces[on].owner \in Users \cup {None}
          /\ \A s \in Spaces \ {on} : spaces'[s] = spaces[s]
      BY <1>1, <1>10, <2>0, <2>1 DEF WritesMember, Row
    <2>3. OwnerAway(on)' => OwnerAway(on) \/ OwnerTakenLate(on)
      <3>1. CASE calls[k].user = spaces[on].owner
        <4>1. calls[k].saw # spaces[on].owner
          BY <2>1, <3>1 DEF Fits
        <4>2. OwnerTakenLate(on)
          BY <2>0, <2>1, <3>1, <4>1 DEF OwnerTakenLate
        <4>3. QED
          BY <4>2
      <3>2. CASE calls[k].user # spaces[on].owner
        <4>1. spaces[on].owner # None =>
                 spaces'[on].roles[spaces[on].owner] = spaces[on].roles[spaces[on].owner]
          BY <2>2, <3>2
        <4>2. QED
          BY <2>0, <2>1, <2>2, <4>1 DEF OwnerAway
      <3>3. QED
        BY <3>1, <3>2
    <2>4. QED
      BY <2>0, <2>1, <2>2, <2>3, OwnersWritten
  <1>11. ASSUME NEW k \in Calls, WritesPut(k) \/ WritesTake(k) \/ WritesOrder(k)
         PROVE  OwnersStep
    <2>1. calls[k].what \in {"putRoom", "takeRoom", "reorder"} /\ spaces' = spaces
          /\ \A l \in Calls \ {k} : calls'[l] = calls[l]
      BY <1>11, CallEnds DEF WritesPut, WritesTake, WritesOrder
    <2>2. QED
      BY <2>1, OwnersUntouched
  <1>12. ASSUME NEW r \in Rooms, NEW u \in Users, JoinAsMember(r, u) PROVE OwnersStep
    <2>1. \A s \in Spaces : spaces'[s].owner = spaces[s].owner
      BY <1>1, <1>12 DEF JoinAsMember, Row
    <2>2. \A s \in Spaces : spaces[s].roles[spaces[s].owner] = "OWNER" =>
             spaces'[s].roles[spaces[s].owner] = "OWNER"
      <3>1. spaces'[r].roles = [spaces[r].roles EXCEPT ![u] = "MEMBER"]
            /\ spaces[r].roles[u] = None /\ spaces[r].roles \in [Users -> Roles \cup {None}]
            /\ \A s \in Spaces \ {r} : spaces'[s] = spaces[s]
        BY <1>1, <1>12 DEF JoinAsMember, Row
      <3>2. None # "OWNER"
        BY NoneAssumption DEF Roles
      <3>3. ASSUME NEW v, spaces[r].roles[v] = "OWNER"
            PROVE  spaces'[r].roles[v] = "OWNER"
        <4>1. v # u
          BY <3>1, <3>2, <3>3
        <4>2. QED
          BY <3>1, <3>3, <4>1
      <3>4. QED
        BY <3>1, <3>3
    <2>3. QED
      BY <1>12, <2>1, <2>2, OwnersUntouched DEF JoinAsMember
  <1>13. ASSUME NEW r \in Rooms, TouchOrCreate(r) PROVE OwnersStep
    <2>1. \A s \in Spaces : spaces'[s].owner = spaces[s].owner /\ spaces'[s].roles = spaces[s].roles
      BY <1>1, <1>13 DEF TouchOrCreate, Row
    <2>2. QED
      BY <1>13, <2>1, OwnersUntouched DEF TouchOrCreate
  <1>14. ASSUME UNCHANGED catalogVars PROVE OwnersStep
    BY <1>14, OwnersUntouched DEF catalogVars
  <1>15. QED
    BY <1>2, <1>3, <1>4, <1>5, <1>6, <1>7, <1>8, <1>9, <1>10, <1>11, <1>12, <1>13, <1>14
       DEF CatalogNext, Written

-----------------------------------------------------------------------------
(* Catalog: rooms in channels.                                             *)

RoomsStep == \A r \in Rooms : Astray(r)' => Astray(r) \/ PutLate(r)

\* No channel goes, and no room comes to stand in one.
LEMMA RoomsUntouched ==
    ASSUME CatalogInv,
           \A s \in Spaces : spaces[s].live => spaces'[s].live,
           \A r \in Rooms : place'[r].channel \in {None, place[r].channel}
    PROVE  RoomsStep
  <1>1. \A r \in Rooms : place[r].channel # None => place[r].channel \in Spaces
    BY CatalogInvTyped DEF Place, Spaces
  <1>2. QED
    BY <1>1 DEF RoomsStep, Astray

LEMMA RoomsSteps ==
    ASSUME CatalogInv, [CatalogNext]_catalogVars
    PROVE  RoomsStep
  <1>1. /\ spaces \in [Spaces -> Row] /\ place \in [Rooms -> Place]
        /\ Rooms \subseteq Spaces /\ Channels \subseteq Spaces /\ CatalogTypeOK
        /\ \A l \in Calls : calls[l] # None => Fits(calls[l]) /\ calls[l].on \in Spaces
    BY CatalogInvTyped, RequestTyped DEF Spaces, CatalogInv, Fits
  <1>2. ASSUME NEW k \in Calls, Requests(k) \/ CountRooms(k) PROVE RoomsStep
    <2>1. spaces' = spaces /\ place' = place
      BY <1>1, <1>2, RequestsTaken DEF Taken, Takes, CountRooms
    <2>2. QED
      BY <2>1, RoomsUntouched
  <1>3. ASSUME NEW k \in Calls,
               WritesCreate(k) \/ WritesAdopt(k) \/ WritesAdopted(k) \/ WritesEnsure(k)
        PROVE  RoomsStep
    <2>1. \A s \in Spaces : spaces[s].live => spaces'[s].live
      <3>1. CASE WritesCreate(k)
        BY <1>1, <3>1 DEF WritesCreate, Created, Row
      <3>2. CASE WritesAdopt(k)
        BY <1>1, <3>2 DEF WritesAdopt, Row
      <3>3. CASE WritesAdopted(k)
        BY <1>1, <3>3 DEF WritesAdopted, Row
      <3>4. CASE WritesEnsure(k)
        BY <1>1, <3>4 DEF WritesEnsure, Row
      <3>5. QED
        BY <1>3, <3>1, <3>2, <3>3, <3>4
    <2>2. place' = place
      BY <1>3 DEF WritesCreate, WritesAdopt, WritesAdopted, WritesEnsure
    <2>3. QED
      BY <2>1, <2>2, RoomsUntouched
  <1>4. ASSUME NEW k \in Calls, WritesRemove(k) PROVE RoomsStep
    <2> DEFINE on == calls[k].on
    <2>1. \A s \in Spaces \ {on} : spaces'[s] = spaces[s]
      BY <1>1, <1>4 DEF WritesRemove
    <2>2. \A r \in Rooms : place'[r].channel # None =>
             place'[r].channel = place[r].channel /\ place[r].channel # on
      BY <1>4 DEF WritesRemove, LetGo, Loose
    <2>3. \A r \in Rooms : place[r].channel # None => place[r].channel \in Spaces
      BY <1>1 DEF Place
    <2>4. QED
      BY <2>1, <2>2, <2>3 DEF RoomsStep, Astray
  <1>5. ASSUME NEW k \in Calls, WritesRole(k) PROVE RoomsStep
    <2> DEFINE row == WithRole(calls[k].on, calls[k].user, calls[k].role, calls[k].saw)
    <2>1. spaces' = [spaces EXCEPT ![calls[k].on] = row] /\ place' = place
      BY <1>5 DEF WritesRole
    <2>2. calls[k].on \in Spaces
      BY <1>1, <1>5, CallEnds DEF WritesRole
    <2>3. row.live = spaces[calls[k].on].live
      BY <1>1, <2>2 DEF WithRole, Row
    <2> HIDE DEF row
    <2>4. \A s \in Spaces : spaces[s].live => spaces'[s].live
      BY <1>1, <2>1, <2>2, <2>3
    <2>5. QED
      BY <2>1, <2>4, RoomsUntouched
  <1>6. ASSUME NEW k \in Calls, WritesMember(k) PROVE RoomsStep
    <2>1. \A s \in Spaces : spaces[s].live => spaces'[s].live
      BY <1>1, <1>6 DEF WritesMember, Row
    <2>2. QED
      BY <1>6, <2>1, RoomsUntouched DEF WritesMember
  <1>7. ASSUME NEW k \in Calls, WritesPut(k) PROVE RoomsStep
    <2>1. calls[k] # None /\ calls[k].what = "putRoom" /\ calls'[k] = None /\ spaces' = spaces
      BY <1>7, CallEnds DEF WritesPut
    <2>2. \A r \in Rooms : \/ place'[r] = place[r]
                           \/ r = calls[k].room /\ place'[r].channel = calls[k].on
      BY <1>1, <1>7 DEF WritesPut
    <2>3. QED
      BY <2>1, <2>2 DEF RoomsStep, Astray, PutLate
  <1>8. ASSUME NEW k \in Calls, WritesTake(k) \/ WritesOrder(k) PROVE RoomsStep
    <2>1. spaces' = spaces /\ \A r \in Rooms : place'[r].channel \in {None, place[r].channel}
      <3>1. CASE WritesTake(k)
        BY <1>1, <3>1 DEF WritesTake, Loose
      <3>2. CASE WritesOrder(k)
        BY <1>1, <3>2 DEF WritesOrder, Place
      <3>3. QED
        BY <1>8, <3>1, <3>2
    <2>2. QED
      BY <2>1, RoomsUntouched
  <1>9. ASSUME NEW r \in Rooms, NEW u \in Users, JoinAsMember(r, u) PROVE RoomsStep
    <2>1. \A s \in Spaces : spaces[s].live => spaces'[s].live
      BY <1>1, <1>9 DEF JoinAsMember, Row
    <2>2. QED
      BY <1>9, <2>1, RoomsUntouched DEF JoinAsMember
  <1>10. ASSUME NEW r \in Rooms, TouchOrCreate(r) PROVE RoomsStep
    <2>1. \A s \in Spaces : spaces[s].live => spaces'[s].live
      BY <1>1, <1>10 DEF TouchOrCreate, Row
    <2>2. QED
      BY <1>10, <2>1, RoomsUntouched DEF TouchOrCreate
  <1>11. ASSUME UNCHANGED catalogVars PROVE RoomsStep
    BY <1>11, RoomsUntouched DEF catalogVars
  <1>12. QED
    BY <1>2, <1>3, <1>4, <1>5, <1>6, <1>7, <1>8, <1>9, <1>10, <1>11 DEF CatalogNext, Written

-----------------------------------------------------------------------------
(* Catalog: the theorems.                                                  *)

LEMMA CatalogBegins == CatalogInit => CatalogInv
  <1> SUFFICES ASSUME CatalogInit PROVE CatalogInv
    OBVIOUS
  <1>1. /\ spaces = [s \in Spaces |-> Nothing] /\ place = [r \in Rooms |-> Loose]
        /\ calls = [k \in Calls |-> None]
    BY DEF CatalogInit
  <1>2. Nothing \in Row /\ Loose \in Place
    BY DEF Nothing, Loose, Row, Place
  <1>3. QED
    BY <1>1, <1>2, CatalogInvTyped

LEMMA CatalogStays == CatalogSpec => []CatalogInv
  <1>1. CatalogInit => CatalogInv
    BY CatalogBegins
  <1>2. CatalogInv /\ [CatalogNext]_catalogVars => CatalogInv'
    BY CatalogSteps
  <1>3. QED
    BY <1>1, <1>2, PTL DEF CatalogSpec

\* However requests overlap, what is kept of rooms and channels has its type.
THEOREM CatalogKeepsItsTypes == CatalogSpec => []CatalogTypeOK
  <1>1. CatalogInv => CatalogTypeOK
    BY DEF CatalogInv
  <1>2. QED
    BY <1>1, CatalogStays, PTL

\* However many requests overlap, of whatever kind: an owner stays a member of the room
\* or channel, as OWNER, unless a request ends that passed its checks while somebody
\* else was the owner.
THEOREM OwnersStayMembers == CatalogSpec => OwnersStay
  <1>1. CatalogInv /\ [CatalogNext]_catalogVars
        => [\A s \in Spaces : OwnerAway(s)' => OwnerAway(s) \/ OwnerTakenLate(s)]_catalogVars
    BY OwnersSteps DEF OwnersStep
  <1>2. QED
    BY <1>1, CatalogStays, PTL DEF CatalogSpec, OwnersStay

\* However many requests overlap, of whatever kind: no room comes to stand in a channel
\* that was removed, unless an addRoom ends that found the channel before it went.
THEOREM RoomsStayInLiveChannels == CatalogSpec => RoomsStay
  <1>1. CatalogInv /\ [CatalogNext]_catalogVars
        => [\A r \in Rooms : Astray(r)' => Astray(r) \/ PutLate(r)]_catalogVars
    BY RoomsSteps DEF RoomsStep
  <1>2. QED
    BY <1>1, CatalogStays, PTL DEF CatalogSpec, RoomsStay

=============================================================================
