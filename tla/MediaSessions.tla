--------------------------- MODULE MediaSessions ---------------------------
(***************************************************************************)
(* The table of media sessions, from which the panel counts minutes of     *)
(* conversation (apps/api/src/livekit/livekit.service.ts).  Only the       *)
(* webhooks of LiveKit write it, and a webhook comes more than once, late, *)
(* out of order or never.                                                  *)
(*                                                                         *)
(* LiveKit is `history`, what happened in one room, and `owed`, the events *)
(* it has yet to deliver or to deliver again.  The number of an event is   *)
(* its id and its date.  A task is a request of the webhook, split at its  *)
(* queries; it may end at any of them, and LiveKit delivers again unless   *)
(* it hears 200.                                                           *)
(***************************************************************************)
EXTENDS Naturals, FiniteSets, Sequences

CONSTANTS
    People,
    Tasks,          \* bound: requests of the webhook served at once
    Take,           \* `take` of onRoomFinished: 200
    MaxEvents,      \* bound: what happens in a room that is told in order
    MaxDisorder,    \* bound: what happens in one that is not
    Nobody          \* the participant of an event of the room itself

ASSUME MediaSessionsAssumption ==
    /\ Take \in Nat \ {0} /\ MaxEvents \in Nat /\ MaxDisorder \in 0 .. MaxEvents
    /\ Nobody \notin People

VARIABLES
    history,    \* LiveKit: the events of the room, as they happened
    owed,       \* LiveKit: the events to deliver
    orderly,    \* LiveKit: one at a time, as they happened, each until it is answered or given up
    sessions,   \* MediaSession, by joinEventId: 0, or the event whose date is its leftAt
    entries,    \* RoomActivityLog: how many room.join each event left there
    tasks,      \* the requests of the webhook
    done        \* history: events a task went through to its end

vars == <<history, owed, orderly, sessions, entries, tasks, done>>

Numbers == 1 .. MaxEvents
Idle == [event |-> 0, at |-> "idle", found |-> {}]

Init ==
    /\ history = <<>> /\ owed = {} /\ orderly \in BOOLEAN
    /\ sessions = <<>> /\ entries = [n \in Numbers |-> 0]
    /\ tasks = [t \in Tasks |-> Idle] /\ done = {}

-----------------------------------------------------------------------------
(* The room, at LiveKit.                                                   *)

Of(n, kind, who) == history[n].kind = kind /\ history[n].who = who

\* The stay that began with event n: nobody is in the room twice.
StillIn(n) ==
    /\ history[n].kind = "joined"
    /\ \A k \in n + 1 .. Len(history) : ~Of(k, "left", history[n].who)

Inside == {p \in People : \E n \in 1 .. Len(history) : Of(n, "joined", p) /\ StillIn(n)}

Happens(kind, who) ==
    /\ Len(history) < IF orderly THEN MaxEvents ELSE MaxDisorder
    /\ history' = Append(history, [kind |-> kind, who |-> who])
    /\ owed' = owed \cup {Len(history) + 1}
    /\ UNCHANGED <<orderly, sessions, entries, tasks, done>>

Joins(p) == p \notin Inside /\ Happens("joined", p)
Leaves(p) == p \in Inside /\ Happens("left", p)

RoomFinishes ==
    /\ Inside = {} /\ history # <<>> /\ history[Len(history)].kind # "finished"
    /\ Happens("finished", Nobody)

Serving == {t \in Tasks : tasks[t] # Idle}

Deliverable ==
    IF orderly
    THEN {n \in owed : Serving = {} /\ \A k \in owed : n <= k}
    ELSE owed

\* Delivered so often without an answer that LiveKit forgets it.
GivenUp(n) ==
    /\ n \in Deliverable
    /\ owed' = owed \ {n}
    /\ UNCHANGED <<history, orderly, sessions, entries, tasks, done>>

-----------------------------------------------------------------------------
(* The webhook.                                                            *)

Delivered(t) ==
    /\ tasks[t] = Idle
    /\ \E n \in Deliverable :
          tasks' = [tasks EXCEPT ![t] =
              [event |-> n, at |-> IF history[n].kind = "joined" THEN "touching" ELSE "finding",
               found |-> {}]]
    /\ UNCHANGED <<history, owed, orderly, sessions, entries, done>>

\* A query throws, or the function is stopped: anything but 200.
Fails(t) ==
    /\ tasks[t] # Idle
    /\ tasks' = [tasks EXCEPT ![t] = Idle]
    /\ UNCHANGED <<history, owed, orderly, sessions, entries, done>>

\* 200, which LiveKit may not hear.
Answers(t) ==
    /\ tasks' = [tasks EXCEPT ![t] = Idle]
    /\ owed' \in {owed, owed \ {tasks[t].event}}

GoesOn(t, stage, found) ==
    /\ tasks' = [tasks EXCEPT ![t] = [@ EXCEPT !.at = stage, !.found = found]]
    /\ UNCHANGED owed

At(t, kind, stage) == tasks[t].at = stage /\ history[tasks[t].event].kind = kind

Open(p) == {n \in DOMAIN sessions : sessions[n] = 0 /\ history[n].who = p}
AnyOpen == {n \in DOMAIN sessions : sessions[n] = 0}

WithSession(n) == [k \in DOMAIN sessions \cup {n} |-> IF k = n THEN 0 ELSE sessions[k]]
Closed(n, when) == [sessions EXCEPT ![n] = when]

\* touchOrCreate, and the query for the account: Catalog has the room.
JoinTouches(t) ==
    /\ At(t, "joined", "touching")
    /\ GoesOn(t, "creating", {})
    /\ UNCHANGED <<history, orderly, sessions, entries, done>>

JoinCreates(t) ==
    LET n == tasks[t].event IN
    /\ At(t, "joined", "creating")
    /\ IF n \notin DOMAIN sessions
       THEN /\ sessions' = WithSession(n)
            /\ GoesOn(t, "recording", {}) /\ UNCHANGED done
       ELSE /\ Answers(t) /\ done' = done \cup {n}
            /\ UNCHANGED sessions
    /\ UNCHANGED <<history, orderly, entries>>

\* The catch takes any failure of the write for the collision.
JoinCreationFails(t) ==
    /\ At(t, "joined", "creating")
    /\ Answers(t)
    /\ UNCHANGED <<history, orderly, sessions, entries, done>>

\* recordServerEvent, whose own failure is only logged.
JoinRecords(t) ==
    LET n == tasks[t].event IN
    /\ At(t, "joined", "recording")
    /\ entries' \in {entries, [entries EXCEPT ![n] = @ + 1]}
    /\ Answers(t)
    /\ done' = done \cup {n}
    /\ UNCHANGED <<history, orderly, sessions>>

\* Mutant of LeaveFinds: the oldest open session is taken for the one that ends.
LeaveFindsOldest(t) ==
    LET n == tasks[t].event
        open == Open(history[n].who)
    IN
    /\ At(t, "left", "finding")
    /\ IF open = {}
       THEN Answers(t) /\ done' = done \cup {n}
       ELSE /\ \E first \in open : (\A k \in open : k >= first) /\ GoesOn(t, "closing", {first})
            /\ UNCHANGED done
    /\ UNCHANGED <<history, orderly, sessions, entries>>

LeaveFinds(t) ==
    LET n == tasks[t].event
        open == Open(history[n].who)
    IN
    /\ At(t, "left", "finding")
    /\ IF open = {}
       THEN Answers(t) /\ done' = done \cup {n}
       ELSE /\ \E last \in open : (\A k \in open : k <= last) /\ GoesOn(t, "closing", {last})
            /\ UNCHANGED done
    /\ UNCHANGED <<history, orderly, sessions, entries>>

\* The record of room.leave that follows may fail, and only that.
LeaveCloses(t) ==
    /\ At(t, "left", "closing")
    /\ \E open \in tasks[t].found : sessions' = Closed(open, tasks[t].event)
    /\ Answers(t)
    /\ done' = done \cup {tasks[t].event}
    /\ UNCHANGED <<history, orderly, entries>>

FinishFinds(t) ==
    LET some == {found \in SUBSET AnyOpen :
                    Cardinality(found) = Take \/ (found = AnyOpen /\ Cardinality(found) < Take)}
    IN
    /\ At(t, "finished", "finding")
    /\ IF AnyOpen = {}
       THEN Answers(t) /\ done' = done \cup {tasks[t].event}
       ELSE (\E found \in some : GoesOn(t, "closing", found)) /\ UNCHANGED done
    /\ UNCHANGED <<history, orderly, sessions, entries>>

\* Mutant of FinishCloses: only the first is closed before the answer.
FinishClosesOne(t) ==
    LET n == tasks[t].event IN
    /\ At(t, "finished", "closing")
    /\ \E open \in tasks[t].found : sessions' = Closed(open, n)
    /\ Answers(t) /\ done' = done \cup {n}
    /\ UNCHANGED <<history, orderly, entries>>

FinishCloses(t) ==
    LET n == tasks[t].event IN
    /\ At(t, "finished", "closing")
    /\ \E open \in tasks[t].found :
          /\ sessions' = Closed(open, n)
          /\ IF tasks[t].found = {open}
             THEN Answers(t) /\ done' = done \cup {n}
             ELSE GoesOn(t, "closing", tasks[t].found \ {open}) /\ UNCHANGED done
    /\ UNCHANGED <<history, orderly, entries>>

-----------------------------------------------------------------------------

Next ==
    \/ \E p \in People : Joins(p) \/ Leaves(p)
    \/ RoomFinishes
    \/ \E n \in owed : GivenUp(n)
    \/ \E t \in Tasks :
          \/ Delivered(t) \/ Fails(t)
          \/ JoinTouches(t) \/ JoinCreates(t) \/ JoinCreationFails(t) \/ JoinRecords(t)
          \/ LeaveFinds(t) \/ LeaveCloses(t)
          \/ FinishFinds(t) \/ FinishCloses(t)

Spec == Init /\ [][Next]_vars

-----------------------------------------------------------------------------

\* The event that ended the stay which began with event n.
Exit(n) ==
    CHOOSE k \in n + 1 .. Len(history) :
        /\ Of(k, "left", history[n].who)
        /\ \A j \in n + 1 .. k - 1 : ~Of(j, "left", history[n].who)

TypeOK ==
    /\ history \in Seq([kind : {"joined", "left", "finished"}, who : People \cup {Nobody}])
    /\ owed \subseteq 1 .. Len(history) /\ done \subseteq 1 .. Len(history)
    /\ DOMAIN sessions \subseteq 1 .. Len(history)
    /\ \A n \in DOMAIN sessions : sessions[n] \in 0 .. Len(history)
    /\ \A n \in DOMAIN sessions : history[n].kind = "joined"
    /\ \A t \in Tasks : tasks[t].event \in 0 .. Len(history) /\ tasks[t].found \subseteq DOMAIN sessions
    /\ \A t \in Tasks : tasks[t].at \in {"idle", "touching", "creating", "recording", "finding", "closing"}

\* However often, late and overlapping an entry is delivered, the activity of the
\* room shows it once.
EntriesCountOnce == \A n \in Numbers : entries[n] <= 1

\* Delivered in order, though failed, repeated and given up as they may be, the
\* webhooks make of each stay whose ends they handled a session with those ends:
\* a repeated entry opens none, and an exit closes that of its own entry even if
\* the exit of an earlier stay was lost.  In whatever order they come, no entry
\* counts twice.
StaysAreSessions ==
    /\ TypeOK
    /\ EntriesCountOnce
    /\ orderly => \A n \in done : history[n].kind = "joined" =>
          /\ n \in DOMAIN sessions
          /\ IF StillIn(n) THEN sessions[n] = 0
             ELSE Exit(n) \in done => sessions[n] = Exit(n)

\* onRoomFinished is there for the exits that were lost: in order, and unless it
\* found as many sessions as it takes, no session of that life of the room is
\* open after it was handled, or was closed later than it.
NothingOpenPastTheEnd ==
    orderly => \A f \in done :
        (history[f].kind = "finished"
           /\ Cardinality({n \in DOMAIN sessions : sessions[n] = f}) < Take)
        => \A n \in DOMAIN sessions : n < f => sessions[n] \in 1 .. f

\* "A saida fecha 'a sessao aberta desta identidade nesta sala', que e naturalmente
\* idempotente: na segunda vez nao ha sessao aberta para fechar"
\* (livekit.service.ts, line 23): an exit that closed a session changes nothing when
\* it is handled again.
NaturallyIdempotent ==
    [][\A t \in Tasks, n \in DOMAIN sessions :
          (At(t, "left", "closing") /\ tasks'[t] = Idle /\ sessions[n] = tasks[t].event)
          => sessions' = sessions]_vars

=============================================================================
