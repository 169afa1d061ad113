---------------------------- MODULE RoomRouters ----------------------------
(***************************************************************************)
(* apps/mediasoup-sfu/src/rooms.ts: one room and the Routers it lives on,  *)
(* at most one per Worker, and how a new peer is given one.                *)
(*                                                                         *)
(* Every promise a peer creation waits for is a step of its own: between   *)
(* two of them anybody may join, leave or find the room closed.  A room is *)
(* an object: whoever started creating a peer in it goes on holding it     *)
(* after the registry has forgotten it, so rooms and Routers have          *)
(* identities here and are reused only when nothing holds them.            *)
(*                                                                         *)
(* What makes a Worker saturated (the units of what it forwards and its    *)
(* measured CPU) belongs to every room of the node: here it changes at     *)
(* will.                                                                   *)
(***************************************************************************)
EXTENDS Naturals, FiniteSets

CONSTANTS
    Workers,
    Peers,
    Rooms,      \* identities of the room's successive objects
    Routers,    \* identities of Routers
    Nobody      \* the absence of a Worker, a room or a Router

ASSUME RoutersAssumption ==
    /\ Nobody \notin Workers \cup Rooms \cup Routers
    /\ Rooms # {}

VARIABLES
    rooms,      \* room object -> see EmptyRoom
    current,    \* the object the registry has for the slug, or Nobody
    routers,    \* Router -> see NoRouter
    full        \* Workers that are saturated now

routerVars == <<rooms, current, routers, full>>

EmptyRoom ==
    [routers   |-> [w \in Workers |-> Nobody],  \* Map Worker -> Router
     making    |-> [w \in Workers |-> Nobody],  \* routerCreations
     primary   |-> Nobody,                      \* primaryKey
     pending   |-> Nobody,                      \* primaryPending
     peers     |-> [p \in Peers |-> Nobody],    \* peer -> its routerKey
     creating  |-> [p \in Peers |-> [stage |-> "none"]], \* peerCreations
     strained  |-> FALSE]     \* history: a peer found the primary saturated

NoRouter == [state |-> "none"]
Router(s, w, at) == [state |-> s, worker |-> w, room |-> at, peerIds |-> {}]

InMaking(r) == routers[r].state \in {"creating", "measuring"}

-----------------------------------------------------------------------------
(* Helpers.  A pair of a room record and the Routers is what a synchronous *)
(* piece of code reads and writes.                                         *)

\* leastLoaded: never a saturated Worker while another candidate is not.
LeastLoaded(candidates) ==
    IF candidates \subseteq full THEN candidates ELSE candidates \ full

Holding(rms, r) ==
    \E g \in Rooms :
        \/ rms[g].pending = r
        \/ \E p \in Peers : rms[g].creating[p].stage # "none"
                              /\ rms[g].creating[p].router = r

\* A Router nobody holds any more is no longer an object.
Collected(rms, rts) ==
    [r \in Routers |->
        IF rts[r].state \in {"closed", "failed"} /\ ~Holding(rms, r)
        THEN NoRouter ELSE rts[r]]

\* An identity for one more Router; bound: there are so many of them.
Fresh ==
    LET unused == {r \in Routers : routers[r] = NoRouter}
    IN  IF unused = {} THEN {} ELSE {CHOOSE r \in unused : TRUE}

HasRouter(room) == {w \in Workers : room.routers[w] # Nobody}

\* ensureRouter: the Router the room has there, the one being made, or one more.
\* The result is the room, the Routers and the Router promised.
EnsureRouter(room, rts, g, w) ==
    IF room.routers[w] # Nobody
    THEN {[room |-> room, rts |-> rts, router |-> room.routers[w]]}
    ELSE IF room.making[w] # Nobody
    THEN {[room |-> room, rts |-> rts, router |-> room.making[w]]}
    ELSE {[room |-> [room EXCEPT !.making[w] = r],
           rts |-> [rts EXCEPT ![r] = Router("creating", w, g)],
           router |-> r] : r \in Fresh}

\* The same on a Worker that is not fuller than need be, as the primary to be.
NewPrimary(room, rts, g) ==
    {[made EXCEPT !.room.pending = made.router] :
        made \in UNION {EnsureRouter(room, rts, g, w) : w \in LeastLoaded(Workers)}}

\* Mutant of PrimaryRouter: a creation in flight is not shared.
PrimaryRouterUnshared(room, rts, g) ==
    IF room.primary # Nobody /\ room.routers[room.primary] # Nobody
    THEN {[room |-> room, rts |-> rts, router |-> room.routers[room.primary]]}
    ELSE NewPrimary(room, rts, g)

PrimaryRouter(room, rts, g) ==
    IF room.primary # Nobody /\ room.routers[room.primary] # Nobody
    THEN {[room |-> room, rts |-> rts, router |-> room.routers[room.primary]]}
    ELSE IF room.pending # Nobody
    THEN {[room |-> room, rts |-> rts, router |-> room.pending]}
    ELSE NewPrimary(room, rts, g)

\* Mutant of IsEmpty: a peer on its way does not count.
IsEmptyButForCreations(room) ==
    /\ \A p \in Peers : room.peers[p] = Nobody
    /\ \A w \in Workers : room.making[w] = Nobody
    /\ room.pending = Nobody

IsEmpty(room) ==
    /\ \A p \in Peers : room.peers[p] = Nobody
    /\ \A p \in Peers : room.creating[p].stage = "none"
    /\ \A w \in Workers : room.making[w] = Nobody
    /\ room.pending = Nobody

Closed(rts, closing) ==
    [r \in Routers |->
        IF r \in closing THEN [rts[r] EXCEPT !.state = "closed", !.peerIds = {}]
        ELSE rts[r]]

Commit(rms, rts, now) ==
    /\ rooms' = rms
    /\ routers' = Collected(rms, rts)
    /\ current' = now

\* closeRoomIfEmpty(g), at the end of what changed the room.
CommitAndClose(rms, rts, g) ==
    IF current = g /\ IsEmpty(rms[g])
    THEN LET room == rms[g]
             rms2 == [rms EXCEPT ![g] = [EmptyRoom EXCEPT
                          !.making = room.making, !.pending = room.pending,
                          !.creating = room.creating]]
         IN  Commit(rms2, Closed(rts, {room.routers[w] : w \in HasRouter(room)}),
                    Nobody)
    ELSE Commit(rms, rts, current)

-----------------------------------------------------------------------------
(* Joining.                                                                *)

Init ==
    /\ rooms = [g \in Rooms |-> EmptyRoom]
    /\ current = Nobody
    /\ routers = [r \in Routers |-> NoRouter]
    /\ full = {}

Waits(p, got, tries) ==
    [got.room EXCEPT !.creating[p] =
        [stage |-> "primary", router |-> got.router, tries |-> tries]]

\* ensureRoom, then ensurePeer for a peer the room neither has nor creates.
Join(p) ==
    \E g \in IF current # Nobody THEN {current}
             ELSE {CHOOSE g \in Rooms : rooms[g] = EmptyRoom} :
        /\ rooms[g].peers[p] = Nobody
        /\ rooms[g].creating[p].stage = "none"
        /\ \E got \in PrimaryRouter(rooms[g], routers, g) :
               Commit([rooms EXCEPT ![g] = Waits(p, got, 0)], got.rts, g)
        /\ UNCHANGED full

\* The primary Router's promise settles: only then is it the primary.
PrimarySettles(g) ==
    LET r == rooms[g].pending
    IN  /\ r # Nobody
        /\ ~InMaking(r)
        /\ Commit([rooms EXCEPT ![g].pending = Nobody,
                                ![g].primary = IF routers[r].state = "failed"
                                               THEN @ ELSE routers[r].worker],
                  routers, current)
        /\ UNCHANGED full

\* assignRouter goes on: where does this peer live?
Assign(g, p) ==
    LET room == rooms[g]
        c == room.creating[p]
        Chosen(r) == [c EXCEPT !.stage = "chosen", !.router = r]
        Go(r) == Commit([rooms EXCEPT ![g] =
                            [room EXCEPT !.creating[p] = Chosen(r),
                                         !.strained = @ \/ routers[c.router].worker \in full]],
                        routers, current)
    IN  /\ c.stage = "primary"
        /\ room.pending # c.router
        /\ routers[c.router].state \in {"open", "closed"}
        /\ \/ /\ routers[c.router].worker \notin full
              /\ Go(c.router)
           \/ /\ routers[c.router].worker \in full
              /\ ~(HasRouter(room) \subseteq full)
              /\ \E w \in HasRouter(room) \ full : Go(room.routers[w])
           \/ /\ routers[c.router].worker \in full
              /\ HasRouter(room) \subseteq full
              /\ Workers \subseteq full
              /\ \E w \in HasRouter(room) : Go(room.routers[w])
           \/ /\ routers[c.router].worker \in full
              /\ HasRouter(room) \subseteq full
              /\ \E w \in Workers \ full : \E got \in EnsureRouter(room, routers, g, w) :
                     Commit([rooms EXCEPT ![g] =
                                [got.room EXCEPT
                                   !.creating[p] = Chosen(got.router),
                                   !.strained = TRUE]],
                            got.rts, current)
        /\ UNCHANGED full

\* createPeer goes on with a Router that is still open.
\* Mutant: it does not look whether the Router closed meanwhile.
EnterUnchecked(g, p) ==
    LET c == rooms[g].creating[p]
    IN  /\ c.stage = "chosen"
        /\ routers[c.router].state \in {"open", "closed"}
        /\ Commit([rooms EXCEPT ![g].peers[p] = routers[c.router].worker,
                                ![g].creating[p] = [stage |-> "none"]],
                  [routers EXCEPT ![c.router].peerIds = @ \cup {p}], current)
        /\ UNCHANGED full

Enter(g, p) ==
    LET c == rooms[g].creating[p]
    IN  /\ c.stage = "chosen"
        /\ routers[c.router].state = "open"
        /\ Commit([rooms EXCEPT ![g].peers[p] = routers[c.router].worker,
                                ![g].creating[p] = [stage |-> "none"]],
                  [routers EXCEPT ![c.router].peerIds = @ \cup {p}], current)
        /\ UNCHANGED full

\* It closed between the choice and now: choose again, three times at most.
\* Mutant: the tries are not counted.
RetryUncounted(g, p) ==
    LET c == rooms[g].creating[p]
    IN  /\ c.stage = "chosen"
        /\ routers[c.router].state = "closed"
        /\ \E got \in PrimaryRouter(rooms[g], routers, g) :
               Commit([rooms EXCEPT ![g] = Waits(p, got, 0)], got.rts, current)
        /\ UNCHANGED full

Retry(g, p) ==
    LET c == rooms[g].creating[p]
    IN  /\ c.stage = "chosen"
        /\ routers[c.router].state = "closed"
        /\ c.tries < 2
        /\ \E got \in PrimaryRouter(rooms[g], routers, g) :
               Commit([rooms EXCEPT ![g] = Waits(p, got, c.tries + 1)],
                      got.rts, current)
        /\ UNCHANGED full

\* The promise awaited rejects, there is no Router to fall back on, or the
\* tries are over: the creation ends and takes an empty room with it.
CreationFails(g, p) ==
    LET room == rooms[g]
        c == room.creating[p]
    IN  /\ \/ /\ c.stage # "none"
              /\ room.pending # c.router
              /\ routers[c.router].state = "failed"
           \/ /\ c.stage = "primary"
              /\ room.pending # c.router
              /\ routers[c.router].state = "closed"
              /\ Workers \subseteq full
              /\ HasRouter(room) = {}
           \/ /\ c.stage = "chosen"
              /\ routers[c.router].state = "closed"
              /\ c.tries >= 2
        /\ CommitAndClose([rooms EXCEPT ![g].creating[p] = [stage |-> "none"]],
                          routers, g)
        /\ UNCHANGED full

-----------------------------------------------------------------------------
(* The Workers' answers, one room's Router at a time.                      *)

RouterAnswers(r) ==
    /\ routers[r].state = "creating"
    /\ Commit(rooms, [routers EXCEPT ![r].state = "measuring"], current)
    /\ UNCHANGED full

\* With its audio level observer the Router is one of the room's.
ObserverAnswers(r) ==
    LET g == routers[r].room
    IN  /\ routers[r].state = "measuring"
        /\ Commit([rooms EXCEPT ![g].routers[routers[r].worker] = r,
                                ![g].making[routers[r].worker] = Nobody],
                  [routers EXCEPT ![r].state = "open"], current)
        /\ UNCHANGED full

\* Either request is refused; the second refusal closes the Router made by
\* the first.  Mutant: it does not.
WorkerRefusesLeaking(r) ==
    LET g == routers[r].room
    IN  /\ routers[r].state = "creating"
        /\ Commit([rooms EXCEPT ![g].making[routers[r].worker] = Nobody],
                  [routers EXCEPT ![r].state = "open"], current)
        /\ UNCHANGED full

WorkerRefuses(r) ==
    LET g == routers[r].room
    IN  /\ InMaking(r)
        /\ Commit([rooms EXCEPT ![g].making[routers[r].worker] = Nobody],
                  [routers EXCEPT ![r].state = "failed"], current)
        /\ UNCHANGED full

LoadChanges ==
    /\ full' \in SUBSET Workers
    /\ UNCHANGED <<rooms, current, routers>>

-----------------------------------------------------------------------------
(* Leaving: removePeer, releaseRouterIfIdle, closeRoomIfEmpty.             *)

Crowd(rts, room, w) == Cardinality(rts[room.routers[w]].peerIds)

\* Where the room has most people.
NextPrimary(room, rts) ==
    IF HasRouter(room) = {} THEN {Nobody}
    ELSE {w \in HasRouter(room) :
             \A v \in HasRouter(room) : Crowd(rts, room, v) <= Crowd(rts, room, w)}

Leave(p) ==
    LET g == current
        room == rooms[g]
        w == room.peers[p]
        r == room.routers[w]
        rest == routers[r].peerIds \ {p}
        gone == [room EXCEPT !.peers[p] = Nobody]
        without == [gone EXCEPT !.routers[w] = Nobody]
        closed == Closed(routers, {r})
    IN  /\ g # Nobody
        /\ w # Nobody
        /\ \/ /\ rest # {}
              /\ CommitAndClose([rooms EXCEPT ![g] = gone],
                                [routers EXCEPT ![r].peerIds = rest], g)
           \/ /\ rest = {}
              /\ \E k \in IF room.primary = w THEN NextPrimary(without, closed)
                          ELSE {room.primary} :
                     CommitAndClose([rooms EXCEPT ![g] = [without EXCEPT !.primary = k]],
                                    closed, g)
        /\ UNCHANGED full

\* The callback of the primary's promise runs before any other event: no
\* action but it is enabled while it is due.
NothingSettling ==
    \A g \in Rooms : rooms[g].pending # Nobody => InMaking(rooms[g].pending)

Next ==
    \/ \E g \in Rooms : PrimarySettles(g)
    \/ /\ NothingSettling
       /\ \/ LoadChanges
          \/ \E p \in Peers : Join(p) \/ Leave(p)
          \/ \E g \in Rooms, p \in Peers :
                 Assign(g, p) \/ Enter(g, p) \/ Retry(g, p) \/ CreationFails(g, p)
          \/ \E r \in Routers :
                 RouterAnswers(r) \/ ObserverAnswers(r) \/ WorkerRefuses(r)

Spec == Init /\ [][Next]_routerVars

-----------------------------------------------------------------------------

Creations ==
    [stage : {"none"}] \cup [stage : {"primary", "chosen"}, router : Routers, tries : 0 .. 2]

RoomTypes ==
    [routers : [Workers -> Routers \cup {Nobody}], making : [Workers -> Routers \cup {Nobody}],
     primary : Workers \cup {Nobody}, pending : Routers \cup {Nobody},
     peers : [Peers -> Workers \cup {Nobody}], creating : [Peers -> Creations],
     strained : BOOLEAN]

RouterTypes ==
    {NoRouter} \cup [state : {"creating", "measuring", "open", "closed", "failed"},
                     worker : Workers, room : Rooms, peerIds : SUBSET Peers]

RoutersTypeOK ==
    /\ rooms \in [Rooms -> RoomTypes]
    /\ current \in Rooms \cup {Nobody}
    /\ routers \in [Routers -> RouterTypes]
    /\ full \in SUBSET Workers

\* A peer of a room lives on an open Router of that room, and that Router
\* counts it: it is released when the last of them leaves and not before
\* (createPeer, removePeer, releaseRouterIfIdle).
PeersLiveOnOpenRouters ==
    /\ RoutersTypeOK
    /\ \A g \in Rooms, p \in Peers : rooms[g].peers[p] # Nobody =>
           LET r == rooms[g].routers[rooms[g].peers[p]]
           IN  r # Nobody /\ routers[r].state = "open" /\ p \in routers[r].peerIds

\* Nothing goes on in a room the registry forgot: no peer enters it and no
\* Router opens in it, so two people cannot be in two rooms of the same name
\* (Room.routerCreations, closeRoomIfEmpty).
NobodyInAForgottenRoom ==
    \A g \in Rooms : g # current => rooms[g] = EmptyRoom

\* Every Router alive in a Worker is one the room will close: one of its
\* Routers or one it is about to have.
NoRouterIsLost ==
    \A r \in Routers : routers[r].state \in {"measuring", "open"} =>
        LET room == rooms[routers[r].room]
            w == routers[r].worker
        IN  routers[r].room = current /\ r \in {room.routers[w], room.making[w]}

\* While no peer found the primary's Worker saturated, the whole room is on
\* one Router: who joins at the same instant shares its creation.
TogetherUnlessStrained ==
    \A g \in Rooms : ~rooms[g].strained =>
        Cardinality(HasRouter(rooms[g])
                      \cup {w \in Workers : rooms[g].making[w] # Nobody}) <= 1

\* A room that has a primary has its Router: newcomers are not sent after a
\* Router that was closed.
PrimaryIsOneOfTheRouters ==
    \A g \in Rooms : rooms[g].primary # Nobody =>
        rooms[g].routers[rooms[g].primary] # Nobody

\* A room nobody is in and nobody is entering is not kept, whoever failed or
\* left last (closeRoomIfEmpty).
NoEmptyRoomIsKept ==
    current # Nobody => ~IsEmpty(rooms[current])

\* The registry and its rooms agree: no forgotten room is used, a primary is
\* never a Router that was closed, and no room is kept for nobody.
RoomsAreSound ==
    NobodyInAForgottenRoom /\ PrimaryIsOneOfTheRouters /\ NoEmptyRoomIsKept

\* The Workers answer and promises settle; nobody has to leave or to join.
LiveSpec ==
    /\ Spec
    /\ \A r \in Routers : WF_routerVars(RouterAnswers(r) \/ ObserverAnswers(r)
                                          \/ WorkerRefuses(r))
    /\ \A g \in Rooms : /\ WF_routerVars(PrimarySettles(g))
                        /\ \A p \in Peers :
                               WF_routerVars(Assign(g, p) \/ Enter(g, p) \/ Retry(g, p)
                                               \/ CreationFails(g, p))

\* A join ends in a peer or in an error, and never hangs.
JoinsSettle ==
    \A g \in Rooms, p \in Peers :
        rooms[g].creating[p].stage # "none" ~> rooms[g].creating[p].stage = "none"

=============================================================================
