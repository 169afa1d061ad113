-------------------------- MODULE RoomRoutersProofs --------------------------
(***************************************************************************)
(* Proofs about RoomRouters, for every set of Workers, people and Routers: *)
(* people of a room live on Routers that are open, a Router is closed when *)
(* it serves nobody and not before, and a room is on one Router while no   *)
(* Worker is saturated.                                                    *)
(*                                                                         *)
(* Only the room the registry has is ever in use.  What it must satisfy is *)
(* said of a pair of a room record and the Routers, as the code that runs  *)
(* between two awaits reads and writes such a pair.                        *)
(***************************************************************************)
EXTENDS RoomRouters, FiniteSetTheorems, TLAPS

Making == {"creating", "measuring"}
Alive == {"creating", "measuring", "open"}

\* The maps of the room and the Routers alive in the Workers agree.
MapsAgree(room, rts, g) ==
    /\ \A r \in Routers : rts[r].state \in Making =>
           rts[r].room = g /\ room.making[rts[r].worker] = r
    /\ \A r \in Routers : rts[r].state = "open" =>
           rts[r].room = g /\ room.routers[rts[r].worker] = r
    /\ \A w \in Workers : room.making[w] # Nobody =>
           rts[room.making[w]].state \in Making /\ rts[room.making[w]].worker = w
    /\ \A w \in Workers : room.routers[w] # Nobody =>
           /\ rts[room.routers[w]].state = "open" /\ rts[room.routers[w]].worker = w
           /\ room.making[w] = Nobody

\* What somebody waits for is there, if only to be found closed or failed.
PromisesAreHeld(room, rts) ==
    /\ room.pending # Nobody => rts[room.pending].state \in Alive \cup {"failed"}
    /\ \A p \in Peers : room.creating[p].stage # "none" =>
           rts[room.creating[p].router].state # "none"

\* Nothing is made but for somebody on the way in.
SomebodyWaits(room) ==
    /\ \A w \in Workers : room.making[w] # Nobody =>
           \E p \in Peers : room.creating[p].stage # "none"
                              /\ room.creating[p].router = room.making[w]
    /\ room.pending # Nobody =>
           \E p \in Peers : room.creating[p].stage = "primary"
                              /\ room.creating[p].router = room.pending

PeersAreCounted(room, rts) ==
    \A p \in Peers : room.peers[p] # Nobody =>
        /\ room.routers[room.peers[p]] # Nobody
        /\ p \in rts[room.routers[room.peers[p]]].peerIds

PrimaryIsThere(room) ==
    /\ room.primary # Nobody => room.routers[room.primary] # Nobody
    /\ room.pending # Nobody => room.primary = Nobody

\* While nobody found the primary saturated: nothing but the primary, or what
\* will be it.
Together(room) ==
    ~room.strained =>
        /\ room.primary # Nobody =>
               \A w \in Workers : room.making[w] = Nobody
                                    /\ (w # room.primary => room.routers[w] = Nobody)
        /\ room.primary = Nobody =>
               \A w \in Workers : room.making[w] \in {Nobody, room.pending}
                                    /\ room.routers[w] \in {Nobody, room.pending}

Sound(room, rts, g) ==
    /\ MapsAgree(room, rts, g) /\ PromisesAreHeld(room, rts) /\ SomebodyWaits(room)
    /\ PeersAreCounted(room, rts) /\ PrimaryIsThere(room) /\ Together(room)

\* The inductive invariant.
RoutersInv ==
    /\ RoutersTypeOK
    /\ NobodyInAForgottenRoom
    /\ IF current = Nobody THEN \A r \in Routers : routers[r].state \notin Alive
       ELSE Sound(rooms[current], routers, current) /\ ~IsEmpty(rooms[current])

-----------------------------------------------------------------------------
(* What Commit makes of a sound pair.                                      *)

LEMMA EmptyRoomType == EmptyRoom \in RoomTypes /\ IsEmpty(EmptyRoom)
  BY DEF EmptyRoom, RoomTypes, Creations, IsEmpty

LEMMA CollectedSound ==
    ASSUME NEW rms \in [Rooms -> RoomTypes], NEW rts \in [Routers -> RouterTypes],
           NEW g \in Rooms, Sound(rms[g], rts, g)
    PROVE  /\ Collected(rms, rts) \in [Routers -> RouterTypes]
           /\ Sound(rms[g], Collected(rms, rts), g)
  <1> DEFINE col == Collected(rms, rts)
             room == rms[g]
  <1>1. col \in [Routers -> RouterTypes]
    BY DEF Collected, RouterTypes
  <1>2. \A r \in Routers : col[r] = rts[r] \/ (rts[r].state \in {"closed", "failed"} /\ ~Holding(rms, r) /\ col[r] = NoRouter)
    BY DEF Collected
  <1>3. \A r \in Routers : col[r].state \in Alive => col[r] = rts[r]
    BY <1>2 DEF NoRouter, Alive
  <1>4. \A r \in Routers : rts[r].state \in Alive => col[r] = rts[r]
    BY <1>2 DEF Alive
  <1>5. /\ room \in RoomTypes
        /\ room.making \in [Workers -> Routers \cup {Nobody}]
        /\ room.routers \in [Workers -> Routers \cup {Nobody}]
    BY DEF RoomTypes
  <1>a. MapsAgree(room, rts, g)
    BY DEF Sound
  <1> HIDE DEF col, room
  <1>6. MapsAgree(room, col, g)
    <2>1. \A r \in Routers : col[r].state \in Making \cup {"open"} =>
             col[r].room = g /\ (col[r].state \in Making => room.making[col[r].worker] = r)
                            /\ (col[r].state = "open" => room.routers[col[r].worker] = r)
      BY <1>3, <1>a DEF MapsAgree, Making, Alive
    <2>2. \A w \in Workers : room.making[w] # Nobody =>
             col[room.making[w]].state \in Making /\ col[room.making[w]].worker = w
      BY <1>4, <1>5, <1>a DEF MapsAgree, Making, Alive
    <2>3. \A w \in Workers : room.routers[w] # Nobody =>
             /\ col[room.routers[w]].state = "open" /\ col[room.routers[w]].worker = w
             /\ room.making[w] = Nobody
      BY <1>4, <1>5, <1>a DEF MapsAgree, Alive
    <2>4. QED
      BY <2>1, <2>2, <2>3 DEF MapsAgree
  <1>7. PromisesAreHeld(room, col)
    <2>1. room.pending # Nobody => col[room.pending] = rts[room.pending]
      BY <1>2, <1>5 DEF Holding, RoomTypes, room
    <2>2. \A p \in Peers : room.creating[p].stage # "none" =>
             col[room.creating[p].router] = rts[room.creating[p].router]
      BY <1>2, <1>5 DEF Holding, RoomTypes, Creations, room
    <2>3. QED
      BY <2>1, <2>2 DEF Sound, PromisesAreHeld, room
  <1>8. PeersAreCounted(room, col)
    BY <1>4, <1>5 DEF Sound, PeersAreCounted, MapsAgree, Alive, RoomTypes, room
  <1>9. QED
    BY <1>1, <1>6, <1>7, <1>8 DEF Sound, room, col

LEMMA CommitInv ==
    ASSUME NEW g \in Rooms, NEW rms \in [Rooms -> RoomTypes],
           \A h \in Rooms \ {g} : rms[h] = EmptyRoom,
           NEW rts \in [Routers -> RouterTypes], Sound(rms[g], rts, g), ~IsEmpty(rms[g]),
           Commit(rms, rts, g), full' \in SUBSET Workers
    PROVE  RoutersInv'
  <1>1. rooms' = rms /\ routers' = Collected(rms, rts) /\ current' = g
    BY DEF Commit
  <1>2. RoutersTypeOK' /\ Sound(rooms'[g], routers', g)
    BY <1>1, CollectedSound DEF RoutersTypeOK
  <1>3. NobodyInAForgottenRoom'
    BY <1>1 DEF NobodyInAForgottenRoom, EmptyRoom
  <1>4. g # Nobody
    BY RoutersAssumption
  <1>5. Sound(rooms'[current'], routers', current') /\ ~IsEmpty(rooms'[current'])
    BY <1>1, <1>2
  <1>6. QED
    BY <1>1, <1>2, <1>3, <1>4, <1>5 DEF RoutersInv

LEMMA CommitAndCloseInv ==
    ASSUME NEW g \in Rooms, current = g, NEW rms \in [Rooms -> RoomTypes],
           \A h \in Rooms \ {g} : rms[h] = EmptyRoom,
           NEW rts \in [Routers -> RouterTypes], Sound(rms[g], rts, g),
           CommitAndClose(rms, rts, g), full' \in SUBSET Workers
    PROVE  RoutersInv'
  <1> DEFINE room == rms[g]
  <1>0. room \in RoomTypes
    OBVIOUS
  <1>1. CASE ~IsEmpty(room)
    <2>1. Commit(rms, rts, g)
      BY <1>1 DEF CommitAndClose
    <2>2. QED
      BY <1>1, <2>1, CommitInv
  <1>2. CASE IsEmpty(room)
    <2> DEFINE closing == {room.routers[w] : w \in HasRouter(room)}
               kept == [EmptyRoom EXCEPT !.making = room.making, !.pending = room.pending,
                                         !.creating = room.creating]
               rms2 == [rms EXCEPT ![g] = kept]
    <2>1. Commit(rms2, Closed(rts, closing), Nobody)
      BY <1>2 DEF CommitAndClose
    <2> HIDE DEF room
    <2>2. kept = EmptyRoom
      <3>1. room.making = [w \in Workers |-> Nobody] /\ room.pending = Nobody
        BY <1>0, <1>2 DEF IsEmpty, RoomTypes
      <3>2. room.creating = [p \in Peers |-> [stage |-> "none"]]
        BY <1>0, <1>2 DEF IsEmpty, RoomTypes, Creations
      <3>3. /\ EmptyRoom.making = room.making
            /\ EmptyRoom.pending = room.pending
            /\ EmptyRoom.creating = room.creating
        BY <3>1, <3>2 DEF EmptyRoom
      <3>4. \A e \in RoomTypes : [e EXCEPT !.making = e.making, !.pending = e.pending,
                                           !.creating = e.creating] = e
        BY DEF RoomTypes
      <3>5. QED
        BY <3>3, <3>4, EmptyRoomType
    <2>3. \A h \in Rooms : rms2[h] = EmptyRoom
      BY <1>0, <2>2
    <2>4. Closed(rts, closing) \in [Routers -> RouterTypes]
      <3>1. \A r \in Routers \cap closing : rts[r] \in RouterTypes /\ rts[r].state = "open"
        BY DEF Sound, MapsAgree, HasRouter, room
      <3>2. \A r \in Routers \cap closing :
               [rts[r] EXCEPT !.state = "closed", !.peerIds = {}] \in RouterTypes
        <4> SUFFICES ASSUME NEW r \in Routers, r \in closing
                     PROVE  [rts[r] EXCEPT !.state = "closed", !.peerIds = {}] \in RouterTypes
          OBVIOUS
        <4>1. rts[r] # NoRouter
          BY <3>1 DEF NoRouter
        <4>2. rts[r] \in [state : {"creating", "measuring", "open", "closed", "failed"},
                          worker : Workers, room : Rooms, peerIds : SUBSET Peers]
          BY <3>1, <4>1 DEF RouterTypes
        <4>3. QED
          BY <4>2 DEF RouterTypes
      <3>3. QED
        BY <3>2 DEF Closed
    <2>5. \A r \in Routers : Closed(rts, closing)[r].state \notin Alive
      <3>1. ASSUME NEW r \in Routers, rts[r].state \in Alive PROVE r \in closing
        <4>1. rts[r].worker \in Workers /\ r # Nobody
          BY <3>1, RoutersAssumption DEF RouterTypes, NoRouter, Alive
        <4>2. rts[r].state \notin Making
          BY <1>2, <4>1 DEF IsEmpty, Sound, MapsAgree, room
        <4>3. QED
          BY <3>1, <4>1, <4>2 DEF Sound, MapsAgree, Alive, Making, HasRouter, room
      <3>2. QED
        BY <3>1 DEF Closed, RouterTypes, Alive
    <2>6. /\ Collected(rms2, Closed(rts, closing)) \in [Routers -> RouterTypes]
          /\ \A r \in Routers : Collected(rms2, Closed(rts, closing))[r].state \notin Alive
      BY <2>4, <2>5 DEF Collected, RouterTypes, NoRouter, Alive
    <2>7. rooms' = rms2 /\ routers' = Collected(rms2, Closed(rts, closing)) /\ current' = Nobody
      BY <2>1 DEF Commit
    <2>8. rms2 \in [Rooms -> RoomTypes]
      BY <1>0, <2>2, EmptyRoomType
    <2> HIDE DEF rms2, closing
    <2>9. RoutersTypeOK' /\ NobodyInAForgottenRoom'
      BY <2>3, <2>6, <2>7, <2>8 DEF RoutersTypeOK, NobodyInAForgottenRoom, EmptyRoom
    <2>10. QED
      BY <2>6, <2>7, <2>9 DEF RoutersInv
  <1>3. QED
    BY <1>1, <1>2

-----------------------------------------------------------------------------
(* The room in use is the only one.                                        *)

LEMMA InUse ==
    ASSUME RoutersInv, NEW g \in Rooms, rooms[g] # EmptyRoom
    PROVE  /\ current = g
           /\ Sound(rooms[g], routers, g)
           /\ rooms[g] \in RoomTypes /\ routers \in [Routers -> RouterTypes]
           /\ \A h \in Rooms \ {g} : rooms[h] = EmptyRoom
  BY RoutersAssumption DEF RoutersInv, RoutersTypeOK, NobodyInAForgottenRoom

LEMMA CreatingIsInUse ==
    ASSUME RoutersInv, NEW g \in Rooms, NEW p \in Peers,
           rooms[g].creating[p].stage # "none" \/ rooms[g].pending # Nobody
    PROVE  rooms[g] # EmptyRoom
  BY DEF EmptyRoom

LEMMA EmptyIsSound ==
    ASSUME NEW g \in Rooms, NEW rts \in [Routers -> RouterTypes],
           \A r \in Routers : rts[r].state \notin Alive
    PROVE  Sound(EmptyRoom, rts, g)
  <1>1. MapsAgree(EmptyRoom, rts, g)
    BY DEF MapsAgree, EmptyRoom, Making, Alive
  <1>2. QED
    BY <1>1 DEF Sound, PromisesAreHeld, SomebodyWaits, PeersAreCounted, PrimaryIsThere,
       Together, EmptyRoom

LEMMA InitInv == Init => RoutersInv
  <1> SUFFICES ASSUME Init PROVE RoutersInv
    OBVIOUS
  <1>1. RoutersTypeOK /\ NobodyInAForgottenRoom
    BY EmptyRoomType DEF Init, RoutersTypeOK, NobodyInAForgottenRoom, RouterTypes
  <1>2. \A r \in Routers : routers[r].state \notin Alive
    BY DEF Init, NoRouter, Alive
  <1>3. QED
    BY <1>1, <1>2 DEF Init, RoutersInv

-----------------------------------------------------------------------------
(* ensureRouter: whoever waits for the Router it promises may be recorded. *)

LEMMA FreshIsUnused ==
    ASSUME NEW r \in Fresh
    PROVE  r \in Routers /\ routers[r] = NoRouter
  BY DEF Fresh

LEMMA EnsureRouterResult ==
    ASSUME NEW g, NEW room \in RoomTypes, NEW w \in Workers,
           NEW m \in EnsureRouter(room, routers, g, w)
    PROVE  /\ m = [room |-> m.room, rts |-> m.rts, router |-> m.router]
           /\ m.router \in Routers
           /\ m.room \in RoomTypes
           /\ m.room.routers = room.routers /\ m.room.peers = room.peers
           /\ m.room.primary = room.primary /\ m.room.creating = room.creating
           /\ m.room.strained = room.strained /\ m.room.pending = room.pending
           /\ \A v \in Workers : m.room.making[v] \in {room.making[v], m.router}
  <1>t. /\ room.routers \in [Workers -> Routers \cup {Nobody}]
        /\ room.making \in [Workers -> Routers \cup {Nobody}]
    BY DEF RoomTypes
  <1>1. CASE room.routers[w] # Nobody
    <2>1. m = [room |-> room, rts |-> routers, router |-> room.routers[w]]
      BY <1>1 DEF EnsureRouter
    <2>2. QED
      BY <1>1, <1>t, <2>1
  <1>2. CASE room.routers[w] = Nobody /\ room.making[w] # Nobody
    <2>1. m = [room |-> room, rts |-> routers, router |-> room.making[w]]
      BY <1>2 DEF EnsureRouter
    <2>2. QED
      BY <1>2, <1>t, <2>1
  <1>3. CASE room.routers[w] = Nobody /\ room.making[w] = Nobody
    <2>1. PICK r \in Fresh : m = [room |-> [room EXCEPT !.making[w] = r],
                                 rts |-> [routers EXCEPT ![r] = Router("creating", w, g)],
                                 router |-> r]
      BY <1>3 DEF EnsureRouter
    <2>2. r \in Routers
      BY FreshIsUnused
    <2>3. [room EXCEPT !.making[w] = r] \in RoomTypes
      BY <2>2 DEF RoomTypes
    <2>4. QED
      BY <1>t, <2>1, <2>2, <2>3 DEF RoomTypes
  <1>4. QED
    BY <1>1, <1>2, <1>3

\* Nobody counts on the creation of p any more.
NotAwaited(room, p) ==
    \/ room.creating[p].stage = "none"
    \/ /\ routers[room.creating[p].router].state \notin Making
       /\ \/ room.creating[p].stage = "chosen"
          \/ room.creating[p].router # room.pending

\* The room changes in the creation of p and in what it settles only.
CreationMoves(room, new, rts, p) ==
    /\ \A r \in Routers : /\ rts[r].state = routers[r].state
                          /\ rts[r].worker = routers[r].worker
                          /\ rts[r].room = routers[r].room
    /\ new.routers = room.routers /\ new.making = room.making
    /\ \A q \in Peers \ {p} : new.creating[q] = room.creating[q]
    /\ new.creating[p].stage # "none" => rts[new.creating[p].router].state # "none"
    /\ \/ new.pending = room.pending
       \/ /\ new.pending = new.creating[p].router
          /\ new.creating[p].stage = "primary"
          /\ rts[new.pending].state \in Alive

LEMMA CreationMovesSound ==
    ASSUME NEW g \in Rooms, NEW room \in RoomTypes, Sound(room, routers, g), NEW p \in Peers,
           NotAwaited(room, p),
           NEW rts, NEW new \in RoomTypes, CreationMoves(room, new, rts, p),
           PeersAreCounted(new, rts), PrimaryIsThere(new), Together(new)
    PROVE  Sound(new, rts, g)
  <1>0. /\ MapsAgree(room, routers, g) /\ PromisesAreHeld(room, routers)
        /\ SomebodyWaits(room)
    BY DEF Sound
  <1>t. /\ room.routers \in [Workers -> Routers \cup {Nobody}]
        /\ room.making \in [Workers -> Routers \cup {Nobody}]
        /\ room.pending \in Routers \cup {Nobody}
        /\ room.creating \in [Peers -> Creations]
    BY DEF RoomTypes
  <1>r. \A r \in Routers : /\ rts[r].state = routers[r].state
                           /\ rts[r].worker = routers[r].worker
                           /\ rts[r].room = routers[r].room
    BY DEF CreationMoves
  <1>m. new.routers = room.routers /\ new.making = room.making
    BY DEF CreationMoves
  <1>2. MapsAgree(new, rts, g)
    <2>1. \A r \in Routers : rts[r].state \in Making =>
             rts[r].room = g /\ new.making[rts[r].worker] = r
      BY <1>0, <1>r, <1>m DEF MapsAgree
    <2>2. \A r \in Routers : rts[r].state = "open" =>
             rts[r].room = g /\ new.routers[rts[r].worker] = r
      BY <1>0, <1>r, <1>m DEF MapsAgree
    <2>3. \A w \in Workers : new.making[w] # Nobody =>
             rts[new.making[w]].state \in Making /\ rts[new.making[w]].worker = w
      <3> SUFFICES ASSUME NEW w \in Workers, new.making[w] # Nobody
                   PROVE  rts[new.making[w]].state \in Making /\ rts[new.making[w]].worker = w
        OBVIOUS
      <3>1. new.making[w] \in Routers
        BY <1>t, <1>m
      <3>2. routers[new.making[w]].state \in Making /\ routers[new.making[w]].worker = w
        BY <1>0, <1>m DEF MapsAgree
      <3>3. QED
        BY <1>r, <3>1, <3>2
    <2>4. \A w \in Workers : new.routers[w] # Nobody =>
             /\ rts[new.routers[w]].state = "open" /\ rts[new.routers[w]].worker = w
             /\ new.making[w] = Nobody
      <3> SUFFICES ASSUME NEW w \in Workers, new.routers[w] # Nobody
                   PROVE  /\ rts[new.routers[w]].state = "open" /\ rts[new.routers[w]].worker = w
                          /\ new.making[w] = Nobody
        OBVIOUS
      <3>1. new.routers[w] \in Routers
        BY <1>t, <1>m
      <3>2. /\ routers[new.routers[w]].state = "open" /\ routers[new.routers[w]].worker = w
            /\ new.making[w] = Nobody
        BY <1>0, <1>m DEF MapsAgree
      <3>3. QED
        BY <1>r, <3>1, <3>2
    <2>5. QED
      BY <2>1, <2>2, <2>3, <2>4 DEF MapsAgree
  <1>3. PromisesAreHeld(new, rts)
    <2>1. new.pending # Nobody => rts[new.pending].state \in Alive \cup {"failed"}
      BY <1>0, <1>t, <1>r DEF PromisesAreHeld, CreationMoves
    <2>2. \A q \in Peers : new.creating[q].stage # "none" =>
             rts[new.creating[q].router].state # "none"
      BY <1>0, <1>t, <1>r DEF PromisesAreHeld, Creations, CreationMoves
    <2>3. QED
      BY <2>1, <2>2 DEF PromisesAreHeld
  <1>4. SomebodyWaits(new)
    <2>1. \A v \in Workers : room.making[v] # Nobody =>
             \E q \in Peers : q # p /\ room.creating[q].stage # "none"
                                /\ room.creating[q].router = room.making[v]
      BY <1>0 DEF SomebodyWaits, MapsAgree, NotAwaited
    <2>2. room.pending # Nobody =>
             \E q \in Peers : q # p /\ room.creating[q].stage = "primary"
                                /\ room.creating[q].router = room.pending
      BY <1>0 DEF SomebodyWaits, NotAwaited
    <2>3. QED
      BY <2>1, <2>2 DEF SomebodyWaits, CreationMoves
  <1>5. QED
    BY <1>2, <1>3, <1>4 DEF Sound

LEMMA EnsureRouterSound ==
    ASSUME NEW g \in Rooms, NEW room \in RoomTypes, routers \in [Routers -> RouterTypes],
           Sound(room, routers, g), NEW w \in Workers,
           NEW got \in EnsureRouter(room, routers, g, w), NEW p \in Peers,
           \/ room.creating[p].stage = "none"
           \/ /\ routers[room.creating[p].router].state \notin Making
              /\ room.creating[p].router # room.pending,
           NEW new \in RoomTypes,
           new.routers = room.routers, new.making = got.room.making,
           new.peers = room.peers, new.primary = room.primary,
           \A q \in Peers \ {p} : new.creating[q] = room.creating[q],
           new.creating[p].stage # "none", new.creating[p].router = got.router,
           \/ new.pending = room.pending
           \/ new.pending = got.router /\ new.creating[p].stage = "primary",
           PrimaryIsThere(new), Together(new)
    PROVE  got.rts \in [Routers -> RouterTypes] /\ Sound(new, got.rts, g) /\ ~IsEmpty(new)
  <1>0. /\ MapsAgree(room, routers, g) /\ PromisesAreHeld(room, routers)
        /\ SomebodyWaits(room) /\ PeersAreCounted(room, routers)
    BY DEF Sound
  <1>t. /\ room.routers \in [Workers -> Routers \cup {Nobody}]
        /\ room.making \in [Workers -> Routers \cup {Nobody}]
        /\ room.pending \in Routers \cup {Nobody}
        /\ room.creating \in [Peers -> Creations]
        /\ new.creating \in [Peers -> Creations]
    BY DEF RoomTypes
  <1>e. ~IsEmpty(new)
    BY DEF IsEmpty
  <1>1. CASE got.room = room /\ got.rts = routers /\ got.router # Nobody
             /\ got.router \in {room.routers[w], room.making[w]}
    <2>1. routers[got.router].state \in Making \cup {"open"}
      BY <1>0, <1>1 DEF MapsAgree
    <2>2. PeersAreCounted(new, routers)
      BY <1>0 DEF PeersAreCounted
    <2>3. CreationMoves(room, new, routers, p)
      BY <1>1, <2>1 DEF CreationMoves, Making, Alive
    <2>4. NotAwaited(room, p)
      BY DEF NotAwaited
    <2>5. Sound(new, routers, g)
      BY <2>2, <2>3, <2>4, CreationMovesSound
    <2>6. QED
      BY <1>1, <1>e, <2>5
  <1>2. ASSUME NEW r \in Fresh, room.routers[w] = Nobody, room.making[w] = Nobody,
               got = [room |-> [room EXCEPT !.making[w] = r],
                      rts |-> [routers EXCEPT ![r] = Router("creating", w, g)],
                      router |-> r]
        PROVE  got.rts \in [Routers -> RouterTypes] /\ Sound(new, got.rts, g) /\ ~IsEmpty(new)
    <2> DEFINE rts == got.rts
    <2>1. r \in Routers /\ routers[r].state = "none" /\ r # Nobody
      BY FreshIsUnused, RoutersAssumption DEF NoRouter
    <2>2. /\ rts = [routers EXCEPT ![r] = Router("creating", w, g)]
          /\ new.making = [room.making EXCEPT ![w] = r]
          /\ got.router = r
      BY <1>2 DEF RoomTypes
    <2>3. Router("creating", w, g) \in RouterTypes
      BY DEF Router, RouterTypes
    <2>4. rts \in [Routers -> RouterTypes]
      BY <2>2, <2>3
    <2> HIDE DEF rts
    <2>5. /\ rts[r].state = "creating" /\ rts[r].worker = w /\ rts[r].room = g
          /\ \A q \in Routers \ {r} : rts[q] = routers[q]
      BY <2>1, <2>2 DEF Router
    <2>6. MapsAgree(new, rts, g)
      <3>1. \A q \in Routers : rts[q].state \in Making =>
               rts[q].room = g /\ new.making[rts[q].worker] = q
        <4> SUFFICES ASSUME NEW q \in Routers, rts[q].state \in Making
                     PROVE  rts[q].room = g /\ new.making[rts[q].worker] = q
          OBVIOUS
        <4>1. CASE q = r
          BY <1>t, <2>2, <2>5, <4>1
        <4>2. CASE q # r
          <5>1. rts[q] = routers[q] /\ routers[q].room = g /\ room.making[routers[q].worker] = q
            BY <1>0, <2>5, <4>2 DEF MapsAgree
          <5>2. routers[q].worker # w
            BY <1>2, <5>1, RoutersAssumption
          <5>3. QED
            BY <1>t, <2>2, <5>1, <5>2
        <4>3. QED
          BY <4>1, <4>2
      <3>2. \A q \in Routers : rts[q].state = "open" =>
               rts[q].room = g /\ new.routers[rts[q].worker] = q
        BY <1>0, <2>5 DEF MapsAgree
      <3>3. \A v \in Workers : new.making[v] # Nobody =>
               rts[new.making[v]].state \in Making /\ rts[new.making[v]].worker = v
        BY <1>0, <1>t, <2>1, <2>2, <2>5 DEF MapsAgree, Making
      <3>4. \A v \in Workers : new.routers[v] # Nobody =>
               /\ rts[new.routers[v]].state = "open" /\ rts[new.routers[v]].worker = v
               /\ new.making[v] = Nobody
        BY <1>0, <1>t, <1>2, <2>1, <2>2, <2>5 DEF MapsAgree
      <3>5. QED
        BY <3>1, <3>2, <3>3, <3>4 DEF MapsAgree
    <2>7. PromisesAreHeld(new, rts)
      <3>1. room.pending # Nobody => room.pending # r
        BY <1>0, <2>1 DEF PromisesAreHeld, Alive
      <3>2. new.pending # Nobody => rts[new.pending].state \in Alive \cup {"failed"}
        BY <1>0, <1>t, <2>2, <2>5, <3>1 DEF PromisesAreHeld, Alive
      <3>3. \A q \in Peers : new.creating[q].stage # "none" =>
               rts[new.creating[q].router].state # "none"
        BY <1>0, <1>t, <2>1, <2>2, <2>5 DEF PromisesAreHeld, Creations
      <3>4. QED
        BY <3>2, <3>3 DEF PromisesAreHeld
    <2>8. SomebodyWaits(new)
      <3>1. \A v \in Workers : room.making[v] # Nobody =>
               \E q \in Peers : q # p /\ room.creating[q].stage # "none"
                                  /\ room.creating[q].router = room.making[v]
        BY <1>0 DEF SomebodyWaits, MapsAgree
      <3>2. room.pending # Nobody =>
               \E q \in Peers : q # p /\ room.creating[q].stage = "primary"
                                  /\ room.creating[q].router = room.pending
        BY <1>0 DEF SomebodyWaits
      <3>3. \A v \in Workers : new.making[v] = IF v = w THEN r ELSE room.making[v]
        BY <1>t, <2>2
      <3>4. QED
        BY <2>2, <3>1, <3>2, <3>3 DEF SomebodyWaits
    <2>9. PeersAreCounted(new, rts)
      <3>1. \A v \in Workers : room.routers[v] # Nobody => rts[room.routers[v]] = routers[room.routers[v]]
        BY <1>0, <1>t, <2>1, <2>5 DEF MapsAgree
      <3>2. QED
        BY <1>0, <3>1 DEF PeersAreCounted, RoomTypes
    <2>10. QED
      BY <1>e, <2>4, <2>6, <2>7, <2>8, <2>9 DEF Sound, rts
  <1>3. QED
    BY <1>1, <1>2 DEF EnsureRouter

-----------------------------------------------------------------------------
(* getPrimaryRouter: the newcomer, or who must choose again, waits for it. *)

LEMMA PrimaryRouterSound ==
    ASSUME NEW g \in Rooms, NEW room \in RoomTypes, routers \in [Routers -> RouterTypes],
           full \in SUBSET Workers, Sound(room, routers, g), NEW p \in Peers,
           \/ room.creating[p].stage = "none"
           \/ /\ room.creating[p].stage = "chosen"
              /\ routers[room.creating[p].router].state = "closed",
           NEW tries \in 0 .. 2, NEW got \in PrimaryRouter(room, routers, g)
    PROVE  /\ Waits(p, got, tries) \in RoomTypes
           /\ got.rts \in [Routers -> RouterTypes]
           /\ Sound(Waits(p, got, tries), got.rts, g)
           /\ ~IsEmpty(Waits(p, got, tries))
  <1> DEFINE new == Waits(p, got, tries)
  <1>t. /\ room.routers \in [Workers -> Routers \cup {Nobody}]
        /\ room.making \in [Workers -> Routers \cup {Nobody}]
        /\ room.pending \in Routers \cup {Nobody}
        /\ room.primary \in Workers \cup {Nobody}
        /\ room.creating \in [Peers -> Creations]
    BY DEF RoomTypes
  <1>0. /\ MapsAgree(room, routers, g) /\ PromisesAreHeld(room, routers)
        /\ PeersAreCounted(room, routers) /\ PrimaryIsThere(room) /\ Together(room)
    BY DEF Sound
  <1>o. \/ room.creating[p].stage = "none"
        \/ /\ routers[room.creating[p].router].state \notin Making
           /\ room.creating[p].stage = "chosen"
           /\ room.creating[p].router # room.pending
    BY <1>0, <1>t, RoutersAssumption DEF PromisesAreHeld, Making, Alive, Creations
  <1>1. ASSUME got.room = room, got.rts = routers, got.router \in Routers,
               routers[got.router].state # "none"
        PROVE  new \in RoomTypes /\ Sound(new, got.rts, g) /\ ~IsEmpty(new)
    <2>1. new = [room EXCEPT !.creating[p] =
                    [stage |-> "primary", router |-> got.router, tries |-> tries]]
      BY <1>1 DEF Waits
    <2>2. [stage |-> "primary", router |-> got.router, tries |-> tries] \in Creations
      BY <1>1 DEF Creations
    <2>3. /\ new \in RoomTypes
          /\ new.routers = room.routers /\ new.making = room.making
          /\ new.peers = room.peers /\ new.primary = room.primary
          /\ new.pending = room.pending /\ new.strained = room.strained
          /\ \A q \in Peers \ {p} : new.creating[q] = room.creating[q]
          /\ new.creating[p].stage = "primary" /\ new.creating[p].router = got.router
      BY <1>t, <2>1, <2>2 DEF RoomTypes
    <2> HIDE DEF new
    <2>4. PeersAreCounted(new, routers) /\ PrimaryIsThere(new) /\ Together(new)
      BY <1>0, <2>3 DEF PeersAreCounted, PrimaryIsThere, Together
    <2>5. CreationMoves(room, new, routers, p)
      BY <1>1, <2>3 DEF CreationMoves
    <2>6. NotAwaited(room, p)
      BY <1>o DEF NotAwaited
    <2>7. Sound(new, routers, g)
      BY <2>3, <2>4, <2>5, <2>6, CreationMovesSound
    <2>8. QED
      BY <1>1, <2>3, <2>7 DEF IsEmpty
  <1>2. CASE room.primary # Nobody /\ room.routers[room.primary] # Nobody
    <2>1. /\ got.room = room /\ got.rts = routers
          /\ got.router = room.routers[room.primary]
      BY <1>2 DEF PrimaryRouter
    <2>2. got.router \in Routers /\ routers[got.router].state = "open"
      BY <1>0, <1>t, <1>2, <2>1 DEF MapsAgree
    <2>3. QED
      BY <1>1, <2>1, <2>2
  <1>3. CASE room.primary = Nobody /\ room.pending # Nobody
    <2>1. got.room = room /\ got.rts = routers /\ got.router = room.pending
      BY <1>3 DEF PrimaryRouter
    <2>2. got.router \in Routers /\ routers[got.router].state # "none"
      BY <1>0, <1>t, <1>3, <2>1 DEF PromisesAreHeld, Alive
    <2>3. QED
      BY <1>1, <2>1, <2>2
  <1>4. CASE room.primary = Nobody /\ room.pending = Nobody
    <2>1. PICK w \in Workers : \E m \in EnsureRouter(room, routers, g, w) :
             got = [m EXCEPT !.room.pending = m.router]
      BY <1>4 DEF PrimaryRouter, NewPrimary, LeastLoaded
    <2>2. PICK m \in EnsureRouter(room, routers, g, w) :
             got = [m EXCEPT !.room.pending = m.router]
      BY <2>1
    <2>3. /\ m = [room |-> m.room, rts |-> m.rts, router |-> m.router]
          /\ m.router \in Routers
          /\ m.room \in RoomTypes
          /\ m.room.routers = room.routers /\ m.room.peers = room.peers
          /\ m.room.primary = room.primary /\ m.room.creating = room.creating
          /\ m.room.strained = room.strained
          /\ \A v \in Workers : m.room.making[v] \in {room.making[v], m.router}
      BY <1>t, EnsureRouterResult
    <2>4. /\ got.rts = m.rts /\ got.router = m.router
          /\ got.room = [m.room EXCEPT !.pending = m.router]
      BY <2>2, <2>3
    <2>5. new = [got.room EXCEPT !.creating[p] =
                    [stage |-> "primary", router |-> m.router, tries |-> tries]]
      BY <2>4 DEF Waits
    <2>6. [stage |-> "primary", router |-> m.router, tries |-> tries] \in Creations
      BY <2>3 DEF Creations
    <2>7. /\ new \in RoomTypes
          /\ new.routers = room.routers /\ new.making = m.room.making
          /\ new.peers = room.peers /\ new.primary = room.primary
          /\ new.pending = m.router /\ new.strained = room.strained
          /\ \A q \in Peers \ {p} : new.creating[q] = room.creating[q]
          /\ new.creating[p].stage = "primary" /\ new.creating[p].router = m.router
      <3>1. /\ got.room \in RoomTypes
            /\ got.room.routers = room.routers /\ got.room.making = m.room.making
            /\ got.room.peers = room.peers /\ got.room.primary = room.primary
            /\ got.room.pending = m.router /\ got.room.strained = room.strained
            /\ got.room.creating = room.creating
        BY <2>3, <2>4 DEF RoomTypes
      <3> DEFINE was == got.room
                 c == [stage |-> "primary", router |-> m.router, tries |-> tries]
      <3>2. new = [was EXCEPT !.creating[p] = c] /\ c \in Creations /\ was \in RoomTypes
        BY <2>5, <2>6, <3>1
      <3>3. c.stage = "primary" /\ c.router = m.router
        OBVIOUS
      <3> HIDE DEF new, was, c
      <3>4. /\ new \in RoomTypes
            /\ new.routers = was.routers /\ new.making = was.making
            /\ new.peers = was.peers /\ new.primary = was.primary
            /\ new.pending = was.pending /\ new.strained = was.strained
            /\ \A q \in Peers \ {p} : new.creating[q] = was.creating[q]
            /\ new.creating[p] = c
        BY <3>2 DEF RoomTypes
      <3>5. QED
        BY <3>1, <3>3, <3>4 DEF was
    <2> HIDE DEF new
    <2>8. PrimaryIsThere(new) /\ Together(new)
      <3>1. PrimaryIsThere(new)
        BY <1>4, <2>7 DEF PrimaryIsThere
      <3>2. ~room.strained => \A v \in Workers : room.making[v] = Nobody /\ room.routers[v] = Nobody
        BY <1>0, <1>4 DEF Together
      <3>3. ~room.strained => \A v \in Workers :
               new.making[v] \in {Nobody, new.pending} /\ new.routers[v] \in {Nobody, new.pending}
        <4> SUFFICES ASSUME ~room.strained, NEW v \in Workers
                     PROVE  /\ new.making[v] \in {Nobody, new.pending}
                            /\ new.routers[v] \in {Nobody, new.pending}
          OBVIOUS
        <4>1. new.routers[v] = Nobody
          BY <2>7, <3>2
        <4>2. new.making[v] \in {room.making[v], m.router}
          BY <2>3, <2>7
        <4>3. QED
          BY <2>7, <3>2, <4>1, <4>2
      <3>4. QED
        BY <1>4, <2>7, <3>1, <3>3 DEF Together
    <2>9. m.rts \in [Routers -> RouterTypes] /\ Sound(new, m.rts, g) /\ ~IsEmpty(new)
      BY <1>o, <2>7, <2>8, EnsureRouterSound
    <2>10. QED
      BY <2>4, <2>7, <2>9 DEF new
  <1>5. QED
    BY <1>0, <1>1, <1>2, <1>3, <1>4 DEF PrimaryIsThere

-----------------------------------------------------------------------------
(* The steps.                                                              *)

LEMMA JoinInv ==
    ASSUME RoutersInv, NEW p \in Peers, Join(p)
    PROVE  RoutersInv'
  <1>t. /\ rooms \in [Rooms -> RoomTypes] /\ routers \in [Routers -> RouterTypes]
        /\ full \in SUBSET Workers /\ full' \in SUBSET Workers
    BY DEF RoutersInv, RoutersTypeOK, Join
  <1>1. PICK g \in IF current # Nobody THEN {current}
                   ELSE {CHOOSE g \in Rooms : rooms[g] = EmptyRoom} :
            /\ rooms[g].creating[p].stage = "none"
            /\ \E got \in PrimaryRouter(rooms[g], routers, g) :
                  Commit([rooms EXCEPT ![g] = Waits(p, got, 0)], got.rts, g)
    BY DEF Join
  <1>2. g \in Rooms /\ Sound(rooms[g], routers, g) /\ \A h \in Rooms \ {g} : rooms[h] = EmptyRoom
    <2>1. CASE current # Nobody
      BY <1>1, <2>1 DEF RoutersInv, RoutersTypeOK, NobodyInAForgottenRoom
    <2>2. CASE current = Nobody
      <3>1. \A h \in Rooms : rooms[h] = EmptyRoom
        BY <2>2, RoutersAssumption DEF RoutersInv, NobodyInAForgottenRoom
      <3>2. g \in Rooms /\ rooms[g] = EmptyRoom
        BY <1>1, <2>2, <3>1, RoutersAssumption
      <3>3. QED
        BY <1>t, <2>2, <3>1, <3>2, EmptyIsSound DEF RoutersInv
    <2>3. QED
      BY <2>1, <2>2
  <1>3. PICK got \in PrimaryRouter(rooms[g], routers, g) :
            Commit([rooms EXCEPT ![g] = Waits(p, got, 0)], got.rts, g)
    BY <1>1
  <1> DEFINE rms == [rooms EXCEPT ![g] = Waits(p, got, 0)]
  <1>4. /\ Waits(p, got, 0) \in RoomTypes /\ got.rts \in [Routers -> RouterTypes]
        /\ Sound(Waits(p, got, 0), got.rts, g) /\ ~IsEmpty(Waits(p, got, 0))
    <2>1. rooms[g] \in RoomTypes /\ 0 \in 0 .. 2
      BY <1>t, <1>2
    <2>2. QED
      BY <1>t, <1>1, <1>2, <1>3, <2>1, PrimaryRouterSound
  <1>5. /\ rms \in [Rooms -> RoomTypes] /\ rms[g] = Waits(p, got, 0)
        /\ \A h \in Rooms \ {g} : rms[h] = EmptyRoom
    BY <1>t, <1>2, <1>4
  <1> HIDE DEF rms
  <1>6. Commit(rms, got.rts, g)
    BY <1>3 DEF rms
  <1>7. QED
    BY <1>t, <1>2, <1>4, <1>5, <1>6, CommitInv

LEMMA RetryInv ==
    ASSUME RoutersInv, NEW g \in Rooms, NEW p \in Peers, Retry(g, p)
    PROVE  RoutersInv'
  <1>t. /\ rooms \in [Rooms -> RoomTypes] /\ routers \in [Routers -> RouterTypes]
        /\ full \in SUBSET Workers /\ full' \in SUBSET Workers
    BY DEF RoutersInv, RoutersTypeOK, Retry
  <1> DEFINE c == rooms[g].creating[p]
  <1>1. c.stage = "chosen" /\ routers[c.router].state = "closed" /\ c.tries < 2
    BY DEF Retry
  <1>2. /\ current = g /\ Sound(rooms[g], routers, g) /\ rooms[g] \in RoomTypes
        /\ \A h \in Rooms \ {g} : rooms[h] = EmptyRoom
    BY <1>1, CreatingIsInUse, InUse
  <1>3. PICK got \in PrimaryRouter(rooms[g], routers, g) :
            Commit([rooms EXCEPT ![g] = Waits(p, got, c.tries + 1)], got.rts, g)
    BY <1>2 DEF Retry
  <1> DEFINE new == Waits(p, got, c.tries + 1)
             rms == [rooms EXCEPT ![g] = new]
  <1>4. c.tries + 1 \in 0 .. 2
    BY <1>1, <1>2 DEF RoomTypes, Creations
  <1>5. /\ new \in RoomTypes /\ got.rts \in [Routers -> RouterTypes]
        /\ Sound(new, got.rts, g) /\ ~IsEmpty(new)
    <2> HIDE DEF c
    <2>1. QED
      BY <1>t, <1>1, <1>2, <1>3, <1>4, PrimaryRouterSound DEF c
  <1>6. /\ rms \in [Rooms -> RoomTypes] /\ rms[g] = new
        /\ \A h \in Rooms \ {g} : rms[h] = EmptyRoom
    <2> HIDE DEF new
    <2>1. QED
      BY <1>t, <1>2, <1>5
  <1>7. Commit(rms, got.rts, g)
    BY <1>3
  <1> HIDE DEF rms, new
  <1>8. QED
    BY <1>t, <1>5, <1>6, <1>7, CommitInv

LEMMA PrimarySettlesInv ==
    ASSUME RoutersInv, NEW g \in Rooms, PrimarySettles(g)
    PROVE  RoutersInv'
  <1>t. /\ rooms \in [Rooms -> RoomTypes] /\ routers \in [Routers -> RouterTypes]
        /\ full' \in SUBSET Workers
    BY DEF RoutersInv, RoutersTypeOK, PrimarySettles
  <1> DEFINE room == rooms[g]
             r == room.pending
             k == IF routers[r].state = "failed" THEN room.primary ELSE routers[r].worker
             rms == [rooms EXCEPT ![g].pending = Nobody,
                                  ![g].primary = IF routers[r].state = "failed" THEN @
                                                 ELSE routers[r].worker]
  <1>1. r # Nobody /\ ~InMaking(r) /\ Commit(rms, routers, current)
    BY DEF PrimarySettles
  <1>2. /\ current = g /\ Sound(room, routers, g) /\ room \in RoomTypes
        /\ \A h \in Rooms \ {g} : rooms[h] = EmptyRoom
    <2>1. rooms[g] # EmptyRoom
      BY <1>1 DEF EmptyRoom
    <2>2. QED
      BY <2>1, InUse
  <1>3. r \in Routers /\ routers[r].state \in {"open", "failed"}
    BY <1>1, <1>2 DEF RoomTypes, Sound, PromisesAreHeld, InMaking, Alive
  <1>4. k \in Workers \cup {Nobody}
    BY <1>t, <1>2, <1>3 DEF RoomTypes, RouterTypes, NoRouter
  <1>5. /\ rms = [rooms EXCEPT ![g] = [room EXCEPT !.pending = Nobody, !.primary = k]]
        /\ rms[g] = [room EXCEPT !.pending = Nobody, !.primary = k]
        /\ \A h \in Rooms \ {g} : rms[h] = EmptyRoom
    BY <1>t, <1>2 DEF RoomTypes
  <1> HIDE DEF rms
  <1> DEFINE new == rms[g]
  <1>6. /\ new \in RoomTypes /\ rms \in [Rooms -> RoomTypes]
        /\ new.routers = room.routers /\ new.making = room.making
        /\ new.peers = room.peers /\ new.creating = room.creating
        /\ new.pending = Nobody /\ new.primary = k /\ new.strained = room.strained
    BY <1>t, <1>2, <1>4, <1>5 DEF RoomTypes
  <1> HIDE DEF new
  <1>a. MapsAgree(room, routers, g) /\ SomebodyWaits(room)
    BY <1>2 DEF Sound
  <1>7. MapsAgree(new, routers, g) /\ PromisesAreHeld(new, routers) /\ SomebodyWaits(new)
        /\ PeersAreCounted(new, routers)
    <2>1. MapsAgree(new, routers, g)
      <3>1. new.routers = room.routers /\ new.making = room.making
        BY <1>6
      <3>2. QED
        BY <1>a, <3>1 DEF MapsAgree
    <2>2. PromisesAreHeld(room, routers) /\ PeersAreCounted(room, routers)
      BY <1>2 DEF Sound
    <2>3. PromisesAreHeld(new, routers)
      BY <1>6, <2>2 DEF PromisesAreHeld
    <2>4. SomebodyWaits(new)
      BY <1>6, <1>a DEF SomebodyWaits
    <2>5. PeersAreCounted(new, routers)
      BY <1>6, <2>2 DEF PeersAreCounted
    <2>6. QED
      BY <2>1, <2>3, <2>4, <2>5
  <1>8. PrimaryIsThere(new)
    BY <1>1, <1>2, <1>3, <1>6 DEF Sound, PrimaryIsThere, MapsAgree
  <1>9. Together(new)
    <2> SUFFICES ASSUME ~new.strained PROVE Together(new)
      BY DEF Together
    <2>1. /\ room.primary = Nobody
          /\ \A w \in Workers : room.making[w] \in {Nobody, r} /\ room.routers[w] \in {Nobody, r}
      BY <1>1, <1>2, <1>6 DEF Sound, PrimaryIsThere, Together
    <2>2. \A w \in Workers : room.making[w] = Nobody
      BY <1>3, <1>a, <2>1 DEF MapsAgree, Making
    <2>3. \A w \in Workers : room.routers[w] = r =>
             routers[r].state = "open" /\ routers[r].worker = w
      BY <1>1, <1>a DEF MapsAgree
    <2>4. CASE routers[r].state = "failed"
      BY <1>6, <2>1, <2>2, <2>3, <2>4 DEF Together
    <2>5. CASE routers[r].state = "open"
      <3>1. new.primary = routers[r].worker /\ routers[r].worker \in Workers
        BY <1>t, <1>3, <1>6, <2>5 DEF RouterTypes, NoRouter
      <3>2. \A w \in Workers : w # routers[r].worker => room.routers[w] = Nobody
        BY <2>1, <2>3
      <3>3. QED
        BY <1>6, <2>2, <3>1, <3>2, RoutersAssumption DEF Together
    <2>6. QED
      BY <1>3, <2>4, <2>5
  <1>10. ~IsEmpty(new)
    BY <1>1, <1>6, <1>a DEF SomebodyWaits, IsEmpty
  <1>11. Sound(rms[g], routers, g) /\ ~IsEmpty(rms[g]) /\ Commit(rms, routers, g)
    BY <1>1, <1>2, <1>7, <1>8, <1>9, <1>10 DEF Sound, new
  <1>12. QED
    BY <1>t, <1>5, <1>6, <1>11, CommitInv

\* What a creation of the room in use knows.
LEMMA CreationFacts ==
    ASSUME RoutersInv, NEW g \in Rooms, NEW p \in Peers,
           rooms[g].creating[p].stage # "none"
    PROVE  /\ current = g /\ Sound(rooms[g], routers, g)
           /\ rooms[g] \in RoomTypes
           /\ \A h \in Rooms \ {g} : rooms[h] = EmptyRoom
           /\ rooms[g].creating[p].router \in Routers
           /\ rooms[g].creating[p].tries \in 0 .. 2
           /\ routers[rooms[g].creating[p].router] \in RouterTypes \ {NoRouter}
  <1>1. /\ current = g /\ Sound(rooms[g], routers, g)
        /\ rooms[g] \in RoomTypes /\ routers \in [Routers -> RouterTypes]
        /\ \A h \in Rooms \ {g} : rooms[h] = EmptyRoom
    BY CreatingIsInUse, InUse
  <1>2. /\ rooms[g].creating[p].router \in Routers
        /\ rooms[g].creating[p].tries \in 0 .. 2
    BY <1>1 DEF RoomTypes, Creations
  <1>3. routers[rooms[g].creating[p].router] # NoRouter
    BY <1>1 DEF Sound, PromisesAreHeld, NoRouter
  <1>4. QED
    BY <1>1, <1>2, <1>3

LEMMA ChosenRecord ==
    ASSUME NEW c \in Creations, c.stage # "none", NEW r \in Routers
    PROVE  [c EXCEPT !.stage = "chosen", !.router = r]
             = [stage |-> "chosen", router |-> r, tries |-> c.tries]
  <1> DEFINE e == [c EXCEPT !.stage = "chosen", !.router = r]
             Moving == [stage : {"primary", "chosen"}, router : Routers, tries : 0 .. 2]
  <1>1. c \in Moving
    BY DEF Creations
  <1>2. e \in Moving /\ e.stage = "chosen" /\ e.router = r /\ e.tries = c.tries
    BY <1>1
  <1> HIDE DEF e
  <1>3. e = [stage |-> e.stage, router |-> e.router, tries |-> e.tries]
    BY <1>2
  <1>4. QED
    BY <1>2, <1>3 DEF e

LEMMA AssignInv ==
    ASSUME RoutersInv, NEW g \in Rooms, NEW p \in Peers, Assign(g, p)
    PROVE  RoutersInv'
  <1>t. /\ rooms \in [Rooms -> RoomTypes] /\ routers \in [Routers -> RouterTypes]
        /\ full \in SUBSET Workers /\ full' \in SUBSET Workers
    BY DEF RoutersInv, RoutersTypeOK, Assign
  <1> DEFINE room == rooms[g]
             c == room.creating[p]
             Chosen(r) == [c EXCEPT !.stage = "chosen", !.router = r]
  <1>1. c.stage = "primary" /\ room.pending # c.router /\ routers[c.router].state \in {"open", "closed"}
    BY DEF Assign
  <1>2. /\ current = g /\ Sound(room, routers, g) /\ room \in RoomTypes
        /\ \A h \in Rooms \ {g} : rooms[h] = EmptyRoom
        /\ c.router \in Routers /\ c.tries \in 0 .. 2
        /\ routers[c.router] \in RouterTypes \ {NoRouter}
    <2>1. c.stage # "none"
      BY <1>1
    <2>2. QED
      BY <2>1, CreationFacts
  <1>o. routers[c.router].state \notin Making /\ c.router # room.pending
    BY <1>1 DEF Making
  <1>c. c = [stage |-> "primary", router |-> c.router, tries |-> c.tries]
    BY <1>1, <1>2 DEF RoomTypes, Creations
  <1>3. ASSUME NEW r \in Routers, routers[r].state # "none",
               Commit([rooms EXCEPT ![g] =
                          [room EXCEPT !.creating[p] = Chosen(r),
                                       !.strained = @ \/ routers[c.router].worker \in full]],
                      routers, current)
        PROVE  RoutersInv'
    <2> DEFINE d == [stage |-> "chosen", router |-> r, tries |-> c.tries]
               s == room.strained \/ routers[c.router].worker \in full
               new == [room EXCEPT !.creating[p] = Chosen(r), !.strained = s]
               rms == [rooms EXCEPT ![g] = new]
    <2>1. d \in Creations /\ s \in BOOLEAN
      BY <1>2 DEF Creations, RoomTypes
    <2>2. Chosen(r) = d
      <3>1. c \in Creations /\ c.stage # "none"
        BY <1>1, <1>2 DEF RoomTypes
      <3> HIDE DEF c
      <3>2. QED
        BY <3>1, ChosenRecord
    <2>a. new = [room EXCEPT !.creating[p] = d, !.strained = s]
      BY <2>2
    <2>b. Commit(rms, routers, g)
      BY <1>2, <1>3
    <2> HIDE DEF new, s
    <2>3. /\ new \in RoomTypes
          /\ new.routers = room.routers /\ new.making = room.making
          /\ new.peers = room.peers /\ new.primary = room.primary
          /\ new.pending = room.pending /\ new.strained = s
          /\ \A q \in Peers \ {p} : new.creating[q] = room.creating[q]
          /\ new.creating[p].stage = "chosen" /\ new.creating[p].router = r
      BY <1>t, <1>2, <2>1, <2>a DEF RoomTypes
    <2>c. /\ rms \in [Rooms -> RoomTypes] /\ rms[g] = new
          /\ \A h \in Rooms \ {g} : rms[h] = EmptyRoom
      BY <1>t, <1>2, <2>3
    <2>4. PeersAreCounted(new, routers) /\ PrimaryIsThere(new) /\ Together(new)
      BY <1>2, <2>3 DEF Sound, PeersAreCounted, PrimaryIsThere, Together, s
    <2>m. CreationMoves(room, new, routers, p)
      BY <1>2, <1>3, <1>o, <2>3 DEF CreationMoves
    <2>n. NotAwaited(room, p)
      BY <1>3, <1>o DEF NotAwaited
    <2>5. Sound(new, routers, g)
      BY <1>2, <2>3, <2>4, <2>m, <2>n, CreationMovesSound
    <2>6. ~IsEmpty(new)
      BY <2>3 DEF IsEmpty
    <2> HIDE DEF rms
    <2>7. QED
      BY <1>t, <2>b, <2>c, <2>5, <2>6, CommitInv
  <1>4. ASSUME NEW w \in HasRouter(room),
               Commit([rooms EXCEPT ![g] =
                          [room EXCEPT !.creating[p] = Chosen(room.routers[w]),
                                       !.strained = @ \/ routers[c.router].worker \in full]],
                      routers, current)
        PROVE  RoutersInv'
    <2>1. room.routers[w] \in Routers /\ routers[room.routers[w]].state # "none"
      BY <1>2 DEF HasRouter, RoomTypes, Sound, MapsAgree
    <2>2. QED
      BY <1>3, <1>4, <2>1
  <1>5. ASSUME NEW w \in Workers, NEW got \in EnsureRouter(room, routers, g, w),
               Commit([rooms EXCEPT ![g] =
                          [got.room EXCEPT !.creating[p] = Chosen(got.router),
                                           !.strained = TRUE]],
                      got.rts, current)
        PROVE  RoutersInv'
    <2> DEFINE d == [stage |-> "chosen", router |-> got.router, tries |-> c.tries]
               new == [got.room EXCEPT !.creating[p] = Chosen(got.router), !.strained = TRUE]
               rms == [rooms EXCEPT ![g] = new]
    <2>1. /\ got.router \in Routers /\ got.room \in RoomTypes
          /\ got.room.routers = room.routers /\ got.room.peers = room.peers
          /\ got.room.primary = room.primary /\ got.room.creating = room.creating
          /\ got.room.pending = room.pending
      BY <1>2, <1>5, EnsureRouterResult
    <2>2. d \in Creations /\ Chosen(got.router) = d
      <3>1. c \in Creations /\ c.stage # "none"
        BY <1>1, <1>2 DEF RoomTypes
      <3> HIDE DEF c
      <3>2. QED
        BY <1>2, <2>1, <3>1, ChosenRecord DEF Creations
    <2>3. new = [got.room EXCEPT !.creating[p] = d, !.strained = TRUE]
      BY <2>2
    <2> HIDE DEF d, new
    <2>4. /\ new \in RoomTypes
          /\ new.routers = room.routers /\ new.making = got.room.making
          /\ new.peers = room.peers /\ new.primary = room.primary
          /\ new.pending = room.pending /\ new.strained = TRUE
          /\ \A q \in Peers \ {p} : new.creating[q] = room.creating[q]
          /\ new.creating[p] = d
      BY <1>2, <2>1, <2>2, <2>3 DEF RoomTypes
    <2>5. d.stage = "chosen" /\ d.router = got.router
      BY DEF d
    <2>6. PrimaryIsThere(new) /\ Together(new)
      BY <1>2, <2>4 DEF Sound, PrimaryIsThere, Together
    <2>7. got.rts \in [Routers -> RouterTypes] /\ Sound(new, got.rts, g) /\ ~IsEmpty(new)
      BY <1>t, <1>2, <1>5, <1>o, <2>4, <2>5, <2>6, EnsureRouterSound
    <2>8. /\ rms \in [Rooms -> RoomTypes] /\ rms[g] = new
          /\ \A h \in Rooms \ {g} : rms[h] = EmptyRoom
      BY <1>t, <1>2, <2>4
    <2>9. Commit(rms, got.rts, g)
      BY <1>2, <1>5 DEF new
    <2> HIDE DEF rms
    <2>10. QED
      BY <1>t, <2>7, <2>8, <2>9, CommitInv
  <1>6. CASE routers[c.router].worker \notin full
    <2>1. Commit([rooms EXCEPT ![g] =
                     [room EXCEPT !.creating[p] = Chosen(c.router),
                                  !.strained = @ \/ routers[c.router].worker \in full]],
                 routers, current)
      BY <1>6 DEF Assign
    <2>2. routers[c.router].state # "none"
      BY <1>1
    <2> HIDE DEF c
    <2>3. QED
      BY <1>2, <1>3, <2>1, <2>2
  <1>7. CASE routers[c.router].worker \in full
    BY <1>4, <1>5, <1>7 DEF Assign, HasRouter
  <1>8. QED
    BY <1>6, <1>7

LEMMA EnterInv ==
    ASSUME RoutersInv, NEW g \in Rooms, NEW p \in Peers, Enter(g, p)
    PROVE  RoutersInv'
  <1>t. /\ rooms \in [Rooms -> RoomTypes] /\ routers \in [Routers -> RouterTypes]
        /\ full' \in SUBSET Workers
    BY DEF RoutersInv, RoutersTypeOK, Enter
  <1> DEFINE room == rooms[g]
             c == room.creating[p]
             r == c.router
             rms == [rooms EXCEPT ![g].peers[p] = routers[r].worker,
                                  ![g].creating[p] = [stage |-> "none"]]
             rts == [routers EXCEPT ![r].peerIds = @ \cup {p}]
  <1>1. c.stage = "chosen" /\ routers[r].state = "open" /\ Commit(rms, rts, current)
    BY DEF Enter
  <1>2. /\ current = g /\ Sound(room, routers, g) /\ room \in RoomTypes
        /\ \A h \in Rooms \ {g} : rooms[h] = EmptyRoom
        /\ r \in Routers /\ routers[r] \in RouterTypes \ {NoRouter}
    <2>1. c.stage # "none"
      BY <1>1
    <2>2. QED
      BY <2>1, CreationFacts
  <1>3. routers[r] \in [state : {"creating", "measuring", "open", "closed", "failed"},
                        worker : Workers, room : Rooms, peerIds : SUBSET Peers]
    BY <1>2 DEF RouterTypes
  <1>4. /\ rms[g] = [room EXCEPT !.peers = [@ EXCEPT ![p] = routers[r].worker],
                                 !.creating = [@ EXCEPT ![p] = [stage |-> "none"]]]
        /\ rms = [rooms EXCEPT ![g] = [room EXCEPT !.peers = [@ EXCEPT ![p] = routers[r].worker],
                                 !.creating = [@ EXCEPT ![p] = [stage |-> "none"]]]]
    BY <1>t, <1>2 DEF RoomTypes
  <1>5. [stage |-> "none"] \in Creations
    BY DEF Creations
  <1> HIDE DEF rms, r
  <1> DEFINE new == rms[g]
  <1>6. /\ rms \in [Rooms -> RoomTypes] /\ new \in RoomTypes
        /\ \A h \in Rooms \ {g} : rms[h] = EmptyRoom
        /\ new.routers = room.routers /\ new.making = room.making
        /\ new.peers = [room.peers EXCEPT ![p] = routers[r].worker]
        /\ new.primary = room.primary
        /\ new.pending = room.pending /\ new.strained = room.strained
        /\ \A q \in Peers \ {p} : new.creating[q] = room.creating[q]
        /\ new.creating[p] = [stage |-> "none"]
    BY <1>t, <1>2, <1>3, <1>4, <1>5 DEF RoomTypes
  <1>7. /\ rts \in [Routers -> RouterTypes]
        /\ rts[r].peerIds = routers[r].peerIds \cup {p}
        /\ \A q \in Routers \ {r} : rts[q] = routers[q]
        /\ \A q \in Routers : rts[q].state = routers[q].state
                                /\ rts[q].worker = routers[q].worker
                                /\ rts[q].room = routers[q].room
    <2>1. [routers[r] EXCEPT !.peerIds = @ \cup {p}] \in RouterTypes
      BY <1>3 DEF RouterTypes
    <2>2. rts = [routers EXCEPT ![r] = [routers[r] EXCEPT !.peerIds = @ \cup {p}]]
      BY <1>t
    <2>3. QED
      BY <1>t, <1>2, <1>3, <2>1, <2>2
  <1> HIDE DEF new, rts
  <1>8. PeersAreCounted(new, rts)
    <2>1. room.routers[routers[r].worker] = r /\ r # Nobody
      BY <1>1, <1>2, RoutersAssumption DEF Sound, MapsAgree
    <2>2. \A q \in Routers : routers[q].peerIds \subseteq rts[q].peerIds
      BY <1>7
    <2>3. \A q \in Peers : room.peers[q] # Nobody =>
              /\ room.routers[room.peers[q]] \in Routers
              /\ room.routers[room.peers[q]] # Nobody
              /\ q \in routers[room.routers[room.peers[q]]].peerIds
      BY <1>2, RoutersAssumption DEF Sound, PeersAreCounted, RoomTypes
    <2>4. SUFFICES ASSUME NEW q \in Peers, new.peers[q] # Nobody
                   PROVE  /\ new.routers[new.peers[q]] # Nobody
                          /\ q \in rts[new.routers[new.peers[q]]].peerIds
      BY DEF PeersAreCounted
    <2>5. CASE q = p
      <3>1. new.peers[p] = routers[r].worker
        BY <1>2, <1>6 DEF RoomTypes
      <3>2. QED
        BY <1>6, <1>7, <2>1, <2>5, <3>1
    <2>6. CASE q # p
      <3>1. new.peers[q] = room.peers[q] /\ new.routers = room.routers
        BY <1>2, <1>6, <2>6 DEF RoomTypes
      <3>2. QED
        BY <2>2, <2>3, <2>4, <3>1
    <2>7. QED
      BY <2>5, <2>6
  <1>9. PrimaryIsThere(new) /\ Together(new)
    BY <1>2, <1>6 DEF Sound, PrimaryIsThere, Together
  <1>10. Sound(new, rts, g)
    <2>1. room.creating[p].stage = "chosen" /\ routers[room.creating[p].router].state \notin Making
      BY <1>1 DEF Making, r
    <2>2. new.creating[p].stage = "none"
      BY <1>6
    <2>3. QED
      <3>1. NotAwaited(room, p)
        BY <2>1 DEF NotAwaited
      <3>2. CreationMoves(room, new, rts, p)
        BY <1>6, <1>7, <2>2 DEF CreationMoves
      <3>3. QED
        BY <1>2, <1>6, <1>8, <1>9, <3>1, <3>2, CreationMovesSound
  <1>11. ~IsEmpty(new)
    <2>1. new.peers[p] \in Workers
      BY <1>2, <1>3, <1>6 DEF RoomTypes
    <2>2. QED
      BY <2>1, RoutersAssumption DEF IsEmpty
  <1>12. Commit(rms, rts, g) /\ Sound(rms[g], rts, g) /\ ~IsEmpty(rms[g])
    BY <1>1, <1>2, <1>10, <1>11 DEF new, rms, rts
  <1>13. QED
    BY <1>t, <1>6, <1>7, <1>12, CommitInv

LEMMA CreationFailsInv ==
    ASSUME RoutersInv, NEW g \in Rooms, NEW p \in Peers, CreationFails(g, p)
    PROVE  RoutersInv'
  <1>t. /\ rooms \in [Rooms -> RoomTypes] /\ routers \in [Routers -> RouterTypes]
        /\ full' \in SUBSET Workers
    BY DEF RoutersInv, RoutersTypeOK, CreationFails
  <1> DEFINE room == rooms[g]
             c == room.creating[p]
             new == [room EXCEPT !.creating = [@ EXCEPT ![p] = [stage |-> "none"]]]
             rms == [rooms EXCEPT ![g].creating[p] = [stage |-> "none"]]
  <1>1. /\ CommitAndClose(rms, routers, g)
        /\ c.stage # "none" /\ routers[c.router].state \notin Making
        /\ c.stage = "chosen" \/ c.router # room.pending
    BY DEF CreationFails, Making
  <1>2. /\ current = g /\ Sound(room, routers, g) /\ room \in RoomTypes
        /\ \A h \in Rooms \ {g} : rooms[h] = EmptyRoom
    BY <1>1, CreationFacts
  <1>3. rms = [rooms EXCEPT ![g] = new] /\ rms[g] = new
    BY <1>t, <1>2 DEF RoomTypes
  <1>4. [stage |-> "none"] \in Creations
    BY DEF Creations
  <1> HIDE DEF rms
  <1>5. /\ new \in RoomTypes
        /\ new.routers = room.routers /\ new.making = room.making
        /\ new.peers = room.peers /\ new.primary = room.primary
        /\ new.pending = room.pending /\ new.strained = room.strained
        /\ \A q \in Peers \ {p} : new.creating[q] = room.creating[q]
        /\ new.creating[p] = [stage |-> "none"]
    BY <1>2, <1>4 DEF RoomTypes
  <1> HIDE DEF new
  <1>6. PeersAreCounted(new, routers) /\ PrimaryIsThere(new) /\ Together(new)
    BY <1>2, <1>5 DEF Sound, PeersAreCounted, PrimaryIsThere, Together
  <1>7. new.creating[p].stage = "none"
    BY <1>5
  <1>8. Sound(new, routers, g)
    <2>1. NotAwaited(room, p)
      BY <1>1 DEF NotAwaited
    <2>2. CreationMoves(room, new, routers, p)
      BY <1>5, <1>7 DEF CreationMoves
    <2>3. QED
      BY <1>2, <1>5, <1>6, <2>1, <2>2, CreationMovesSound
  <1>9. /\ rms \in [Rooms -> RoomTypes] /\ Sound(rms[g], routers, g)
        /\ \A h \in Rooms \ {g} : rms[h] = EmptyRoom
    BY <1>t, <1>2, <1>3, <1>5, <1>8
  <1>10. QED
    BY <1>t, <1>1, <1>2, <1>9, CommitAndCloseInv

\* What a Router in the making knows.
LEMMA MakingFacts ==
    ASSUME RoutersInv, NEW r \in Routers, InMaking(r)
    PROVE  /\ current = routers[r].room /\ current \in Rooms
           /\ Sound(rooms[current], routers, current)
           /\ rooms[current] \in RoomTypes /\ ~IsEmpty(rooms[current])
           /\ \A h \in Rooms \ {current} : rooms[h] = EmptyRoom
           /\ routers[r] \in [state : {"creating", "measuring", "open", "closed", "failed"},
                              worker : Workers, room : Rooms, peerIds : SUBSET Peers]
           /\ rooms[current].making[routers[r].worker] = r
           /\ r # Nobody
  <1>1. routers[r].state \in Making /\ routers[r].state \in Alive
    BY DEF InMaking, Making, Alive
  <1>2. current # Nobody
    BY <1>1 DEF RoutersInv
  <1>3. /\ current \in Rooms /\ Sound(rooms[current], routers, current)
        /\ rooms[current] \in RoomTypes /\ ~IsEmpty(rooms[current])
        /\ \A h \in Rooms \ {current} : rooms[h] = EmptyRoom
    BY <1>2 DEF RoutersInv, RoutersTypeOK, NobodyInAForgottenRoom
  <1>4. routers[r].room = current /\ rooms[current].making[routers[r].worker] = r
    BY <1>1, <1>3 DEF Sound, MapsAgree
  <1>5. routers[r] # NoRouter /\ routers[r] \in RouterTypes
    BY <1>1 DEF Making, NoRouter, RoutersInv, RoutersTypeOK
  <1>6. QED
    BY <1>3, <1>4, <1>5, RoutersAssumption DEF RouterTypes

LEMMA RouterAnswersInv ==
    ASSUME RoutersInv, NEW r \in Routers, RouterAnswers(r)
    PROVE  RoutersInv'
  <1>t. /\ rooms \in [Rooms -> RoomTypes] /\ routers \in [Routers -> RouterTypes]
        /\ full' \in SUBSET Workers
    BY DEF RoutersInv, RoutersTypeOK, RouterAnswers
  <1> DEFINE rts == [routers EXCEPT ![r].state = "measuring"]
             room == rooms[current]
  <1>1. routers[r].state = "creating" /\ Commit(rooms, rts, current)
    BY DEF RouterAnswers
  <1>2. /\ current \in Rooms /\ Sound(room, routers, current)
        /\ room \in RoomTypes /\ ~IsEmpty(room)
        /\ \A h \in Rooms \ {current} : rooms[h] = EmptyRoom
        /\ routers[r] \in [state : {"creating", "measuring", "open", "closed", "failed"},
                           worker : Workers, room : Rooms, peerIds : SUBSET Peers]
    BY <1>1, MakingFacts DEF InMaking
  <1>3. /\ rts \in [Routers -> RouterTypes]
        /\ rts[r].state = "measuring"
        /\ \A q \in Routers \ {r} : rts[q] = routers[q]
        /\ \A q \in Routers : rts[q].worker = routers[q].worker
                /\ rts[q].room = routers[q].room /\ rts[q].peerIds = routers[q].peerIds
    <2>1. [routers[r] EXCEPT !.state = "measuring"] \in RouterTypes
      BY <1>2 DEF RouterTypes
    <2>2. rts = [routers EXCEPT ![r] = [routers[r] EXCEPT !.state = "measuring"]]
      BY <1>t
    <2>3. QED
      BY <1>t, <1>2, <2>1, <2>2
  <1> HIDE DEF rts
  <1>4. \A q \in Routers : /\ rts[q].state \in Making <=> routers[q].state \in Making
                           /\ rts[q].state = "open" <=> routers[q].state = "open"
                           /\ rts[q].state = "none" <=> routers[q].state = "none"
                           /\ routers[q].state \in Alive \cup {"failed"} =>
                                  rts[q].state \in Alive \cup {"failed"}
    BY <1>1, <1>3 DEF Making, Alive
  <1> HIDE DEF room
  <1>5. MapsAgree(room, rts, current)
    BY <1>2, <1>3, <1>4 DEF Sound, MapsAgree, RoomTypes
  <1>6. PromisesAreHeld(room, rts)
    BY <1>2, <1>4 DEF Sound, PromisesAreHeld, RoomTypes, Creations
  <1>7. PeersAreCounted(room, rts)
    BY <1>2, <1>3 DEF Sound, PeersAreCounted, RoomTypes
  <1>8. Sound(room, rts, current)
    BY <1>2, <1>5, <1>6, <1>7 DEF Sound
  <1>9. QED
    BY <1>t, <1>1, <1>2, <1>3, <1>8, CommitInv DEF room

LEMMA ObserverAnswersInv ==
    ASSUME RoutersInv, NEW r \in Routers, ObserverAnswers(r)
    PROVE  RoutersInv'
  <1>t. /\ rooms \in [Rooms -> RoomTypes] /\ routers \in [Routers -> RouterTypes]
        /\ full' \in SUBSET Workers
    BY DEF RoutersInv, RoutersTypeOK, ObserverAnswers
  <1> DEFINE g == current
             w == routers[r].worker
             rts == [routers EXCEPT ![r].state = "open"]
             room == rooms[g]
             rms == [rooms EXCEPT ![g].routers[w] = r, ![g].making[w] = Nobody]
  <1>1. routers[r].state = "measuring"
    BY DEF ObserverAnswers
  <1>2. /\ g = routers[r].room /\ g \in Rooms /\ Sound(room, routers, g)
        /\ room \in RoomTypes /\ ~IsEmpty(room)
        /\ \A h \in Rooms \ {g} : rooms[h] = EmptyRoom
        /\ routers[r] \in [state : {"creating", "measuring", "open", "closed", "failed"},
                           worker : Workers, room : Rooms, peerIds : SUBSET Peers]
        /\ room.making[w] = r /\ r # Nobody /\ w \in Workers
    BY <1>1, MakingFacts DEF InMaking
  <1>b. Commit(rms, rts, g)
    BY <1>2 DEF ObserverAnswers
  <1>3. /\ rts \in [Routers -> RouterTypes]
        /\ rts[r].state = "open"
        /\ \A q \in Routers \ {r} : rts[q] = routers[q]
        /\ \A q \in Routers : rts[q].worker = routers[q].worker
                /\ rts[q].room = routers[q].room /\ rts[q].peerIds = routers[q].peerIds
    <2>1. [routers[r] EXCEPT !.state = "open"] \in RouterTypes
      BY <1>2 DEF RouterTypes
    <2>2. rts = [routers EXCEPT ![r] = [routers[r] EXCEPT !.state = "open"]]
      BY <1>t
    <2>3. QED
      BY <1>t, <1>2, <2>1, <2>2
  <1>4. rms = [rooms EXCEPT ![g] = [room EXCEPT !.routers = [@ EXCEPT ![w] = r],
                                                !.making = [@ EXCEPT ![w] = Nobody]]]
    BY <1>t, <1>2 DEF RoomTypes
  <1> HIDE DEF rts, rms, w, g
  <1> DEFINE new == rms[g]
  <1>5. /\ rms \in [Rooms -> RoomTypes] /\ new \in RoomTypes
        /\ \A h \in Rooms \ {g} : rms[h] = EmptyRoom
        /\ new.routers = [room.routers EXCEPT ![w] = r]
        /\ new.making = [room.making EXCEPT ![w] = Nobody]
        /\ new.peers = room.peers /\ new.primary = room.primary
        /\ new.pending = room.pending /\ new.creating = room.creating
        /\ new.strained = room.strained
    BY <1>t, <1>2, <1>4 DEF RoomTypes
  <1> HIDE DEF new, room
  <1>a. /\ MapsAgree(room, routers, g) /\ PromisesAreHeld(room, routers)
        /\ SomebodyWaits(room) /\ PeersAreCounted(room, routers)
        /\ PrimaryIsThere(room) /\ Together(room)
        /\ routers[r].worker = w /\ routers[r].room = g
    BY <1>2 DEF Sound, w
  <1>c. /\ \A v \in Workers : new.routers[v] = IF v = w THEN r ELSE room.routers[v]
        /\ \A v \in Workers : new.making[v] = IF v = w THEN Nobody ELSE room.making[v]
        /\ room.routers \in [Workers -> Routers \cup {Nobody}]
        /\ room.making \in [Workers -> Routers \cup {Nobody}]
        /\ room.routers[w] = Nobody
    BY <1>2, <1>5, <1>a DEF RoomTypes, MapsAgree
  <1>d. \A q \in Routers : routers[q].state \in Making \cup {"open"} => routers[q].worker \in Workers
    BY <1>t DEF RouterTypes, NoRouter, Making
  <1>6. MapsAgree(new, rts, g)
    <2>1. \A q \in Routers : rts[q].state \in Making =>
             rts[q].room = g /\ new.making[rts[q].worker] = q
      <3> SUFFICES ASSUME NEW q \in Routers, rts[q].state \in Making
                   PROVE  rts[q].room = g /\ new.making[rts[q].worker] = q
        OBVIOUS
      <3>1. q # r
        BY <1>3 DEF Making
      <3>2. routers[q].state \in Making /\ routers[q].room = g
            /\ room.making[routers[q].worker] = q /\ routers[q].worker \in Workers
        BY <1>3, <1>a, <1>d, <3>1 DEF MapsAgree
      <3>3. routers[q].worker # w
        BY <1>2, <3>1, <3>2
      <3>4. QED
        BY <1>3, <1>c, <3>2, <3>3
    <2>2. \A q \in Routers : rts[q].state = "open" =>
             rts[q].room = g /\ new.routers[rts[q].worker] = q
      <3> SUFFICES ASSUME NEW q \in Routers, rts[q].state = "open"
                   PROVE  rts[q].room = g /\ new.routers[rts[q].worker] = q
        OBVIOUS
      <3>1. CASE q = r
        BY <1>2, <1>3, <1>a, <1>c, <3>1
      <3>2. CASE q # r
        <4>1. routers[q].room = g /\ room.routers[routers[q].worker] = q /\ routers[q].worker \in Workers
          BY <1>3, <1>a, <1>d, <3>2 DEF MapsAgree
        <4>2. routers[q].worker # w
          BY <1>c, <4>1, RoutersAssumption
        <4>3. QED
          BY <1>3, <1>c, <4>1, <4>2
      <3>3. QED
        BY <3>1, <3>2
    <2>3. \A v \in Workers : new.making[v] # Nobody =>
             rts[new.making[v]].state \in Making /\ rts[new.making[v]].worker = v
      BY <1>3, <1>a, <1>c DEF MapsAgree
    <2>4. \A v \in Workers : new.routers[v] # Nobody =>
             /\ rts[new.routers[v]].state = "open" /\ rts[new.routers[v]].worker = v
             /\ new.making[v] = Nobody
      BY <1>3, <1>a, <1>c DEF MapsAgree
    <2>5. QED
      BY <2>1, <2>2, <2>3, <2>4 DEF MapsAgree
  <1>7. PromisesAreHeld(new, rts)
    <2>1. \A q \in Routers : /\ routers[q].state \in Alive \cup {"failed"} =>
                                    rts[q].state \in Alive \cup {"failed"}
                             /\ routers[q].state # "none" => rts[q].state # "none"
      BY <1>3 DEF Alive
    <2>2. /\ room.pending \in Routers \cup {Nobody}
          /\ \A p \in Peers : room.creating[p].stage # "none" => room.creating[p].router \in Routers
      BY <1>2 DEF RoomTypes, Creations
    <2>3. QED
      BY <1>5, <1>a, <2>1, <2>2 DEF PromisesAreHeld
  <1>8. SomebodyWaits(new)
    BY <1>5, <1>a, <1>c DEF SomebodyWaits
  <1>9. PeersAreCounted(new, rts)
    <2>1. \A p \in Peers : room.peers[p] # Nobody => room.peers[p] \in Workers \ {w}
      BY <1>2, <1>a, <1>c DEF PeersAreCounted, RoomTypes
    <2>2. QED
      BY <1>3, <1>5, <1>a, <1>c, <2>1 DEF PeersAreCounted
  <1>10. PrimaryIsThere(new)
    <2>1. room.primary \in Workers \cup {Nobody}
      BY <1>2 DEF RoomTypes
    <2>2. QED
      BY <1>2, <1>5, <1>a, <1>c, <2>1 DEF PrimaryIsThere
  <1>11. Together(new)
    <2> SUFFICES ASSUME ~room.strained PROVE Together(new)
      BY <1>5 DEF Together
    <2>1. room.primary = Nobody /\ r = room.pending
      BY <1>2, <1>a DEF Together, w
    <2>2. \A v \in Workers : new.making[v] \in {Nobody, room.pending}
                               /\ new.routers[v] \in {Nobody, room.pending}
      BY <1>a, <1>c, <2>1 DEF Together
    <2>3. QED
      BY <1>5, <2>1, <2>2 DEF Together
  <1>12. ~IsEmpty(new)
    <2>1. \E p \in Peers : room.creating[p].stage # "none"
      BY <1>2, <1>a DEF SomebodyWaits, w
    <2>2. QED
      BY <1>5, <2>1 DEF IsEmpty
  <1>13. Sound(rms[g], rts, g) /\ ~IsEmpty(rms[g])
    BY <1>6, <1>7, <1>8, <1>9, <1>10, <1>11, <1>12 DEF Sound, new
  <1>14. QED
    BY <1>t, <1>2, <1>b, <1>3, <1>5, <1>13, CommitInv

LEMMA WorkerRefusesInv ==
    ASSUME RoutersInv, NEW r \in Routers, WorkerRefuses(r)
    PROVE  RoutersInv'
  <1>t. /\ rooms \in [Rooms -> RoomTypes] /\ routers \in [Routers -> RouterTypes]
        /\ full' \in SUBSET Workers
    BY DEF RoutersInv, RoutersTypeOK, WorkerRefuses
  <1> DEFINE g == current
             w == routers[r].worker
             rts == [routers EXCEPT ![r].state = "failed"]
             room == rooms[g]
             rms == [rooms EXCEPT ![g].making[w] = Nobody]
  <1>1. InMaking(r)
    BY DEF WorkerRefuses
  <1>2. /\ g = routers[r].room /\ g \in Rooms /\ Sound(room, routers, g)
        /\ room \in RoomTypes /\ ~IsEmpty(room)
        /\ \A h \in Rooms \ {g} : rooms[h] = EmptyRoom
        /\ routers[r] \in [state : {"creating", "measuring", "open", "closed", "failed"},
                           worker : Workers, room : Rooms, peerIds : SUBSET Peers]
        /\ room.making[w] = r /\ r # Nobody /\ w \in Workers
    BY <1>1, MakingFacts
  <1>b. Commit(rms, rts, g)
    BY <1>2 DEF WorkerRefuses
  <1>3. /\ rts \in [Routers -> RouterTypes]
        /\ rts[r].state = "failed"
        /\ \A q \in Routers \ {r} : rts[q] = routers[q]
        /\ \A q \in Routers : rts[q].worker = routers[q].worker
                /\ rts[q].room = routers[q].room /\ rts[q].peerIds = routers[q].peerIds
    <2>1. [routers[r] EXCEPT !.state = "failed"] \in RouterTypes
      BY <1>2 DEF RouterTypes
    <2>2. rts = [routers EXCEPT ![r] = [routers[r] EXCEPT !.state = "failed"]]
      BY <1>t
    <2>3. QED
      BY <1>t, <1>2, <2>1, <2>2
  <1>4. rms = [rooms EXCEPT ![g] = [room EXCEPT !.making = [@ EXCEPT ![w] = Nobody]]]
    BY <1>t, <1>2 DEF RoomTypes
  <1> HIDE DEF rts, rms, w, g
  <1> DEFINE new == rms[g]
  <1>5. /\ rms \in [Rooms -> RoomTypes] /\ new \in RoomTypes
        /\ \A h \in Rooms \ {g} : rms[h] = EmptyRoom
        /\ new.making = [room.making EXCEPT ![w] = Nobody]
        /\ new.routers = room.routers
        /\ new.peers = room.peers /\ new.primary = room.primary
        /\ new.pending = room.pending /\ new.creating = room.creating
        /\ new.strained = room.strained
    BY <1>t, <1>2, <1>4 DEF RoomTypes
  <1> HIDE DEF new, room
  <1>a. /\ MapsAgree(room, routers, g) /\ PromisesAreHeld(room, routers)
        /\ SomebodyWaits(room) /\ PeersAreCounted(room, routers)
        /\ PrimaryIsThere(room) /\ Together(room)
        /\ routers[r].worker = w /\ routers[r].room = g /\ routers[r].state \in Making
    BY <1>1, <1>2 DEF Sound, w, InMaking, Making
  <1>c. /\ \A v \in Workers : new.making[v] = IF v = w THEN Nobody ELSE room.making[v]
        /\ room.routers \in [Workers -> Routers \cup {Nobody}]
        /\ room.making \in [Workers -> Routers \cup {Nobody}]
    BY <1>2, <1>5 DEF RoomTypes
  <1>d. \A q \in Routers : routers[q].state \in Making \cup {"open"} => routers[q].worker \in Workers
    BY <1>t DEF RouterTypes, NoRouter, Making
  <1>6. MapsAgree(new, rts, g)
    <2>1. \A q \in Routers : rts[q].state \in Making =>
             rts[q].room = g /\ new.making[rts[q].worker] = q
      <3> SUFFICES ASSUME NEW q \in Routers, rts[q].state \in Making
                   PROVE  rts[q].room = g /\ new.making[rts[q].worker] = q
        OBVIOUS
      <3>1. q # r
        BY <1>3 DEF Making
      <3>2. routers[q].state \in Making /\ routers[q].room = g
            /\ room.making[routers[q].worker] = q /\ routers[q].worker \in Workers
        BY <1>3, <1>a, <1>d, <3>1 DEF MapsAgree
      <3>3. routers[q].worker # w
        BY <1>2, <3>1, <3>2
      <3>4. QED
        BY <1>3, <1>c, <3>2, <3>3
    <2>2. \A q \in Routers : rts[q].state = "open" =>
             rts[q].room = g /\ new.routers[rts[q].worker] = q
      BY <1>3, <1>5, <1>a DEF MapsAgree
    <2>3. \A v \in Workers : new.making[v] # Nobody =>
             rts[new.making[v]].state \in Making /\ rts[new.making[v]].worker = v
      BY <1>3, <1>a, <1>c DEF MapsAgree
    <2>4. \A v \in Workers : new.routers[v] # Nobody =>
             /\ rts[new.routers[v]].state = "open" /\ rts[new.routers[v]].worker = v
             /\ new.making[v] = Nobody
      BY <1>3, <1>5, <1>a, <1>c DEF MapsAgree, Making
    <2>5. QED
      BY <2>1, <2>2, <2>3, <2>4 DEF MapsAgree
  <1>7. PromisesAreHeld(new, rts)
    <2>1. \A q \in Routers : /\ routers[q].state \in Alive \cup {"failed"} =>
                                    rts[q].state \in Alive \cup {"failed"}
                             /\ routers[q].state # "none" => rts[q].state # "none"
      BY <1>3 DEF Alive
    <2>2. /\ room.pending \in Routers \cup {Nobody}
          /\ \A p \in Peers : room.creating[p].stage # "none" => room.creating[p].router \in Routers
      BY <1>2 DEF RoomTypes, Creations
    <2>3. QED
      BY <1>5, <1>a, <2>1, <2>2 DEF PromisesAreHeld
  <1>8. SomebodyWaits(new)
    BY <1>5, <1>a, <1>c DEF SomebodyWaits
  <1>9. PeersAreCounted(new, rts)
    BY <1>2, <1>3, <1>5, <1>a, <1>c DEF PeersAreCounted, RoomTypes
  <1>10. PrimaryIsThere(new)
    BY <1>5, <1>a DEF PrimaryIsThere
  <1>11. Together(new)
    BY <1>5, <1>a, <1>c DEF Together
  <1>12. ~IsEmpty(new)
    <2>1. \E p \in Peers : room.creating[p].stage # "none"
      BY <1>2, <1>a DEF SomebodyWaits, w
    <2>2. QED
      BY <1>5, <2>1 DEF IsEmpty
  <1>13. Sound(rms[g], rts, g) /\ ~IsEmpty(rms[g])
    BY <1>6, <1>7, <1>8, <1>9, <1>10, <1>11, <1>12 DEF Sound, new
  <1>14. QED
    BY <1>t, <1>2, <1>b, <1>3, <1>5, <1>13, CommitInv

LEMMA LeaveInv ==
    ASSUME RoutersInv, NothingSettling, NEW p \in Peers, Leave(p)
    PROVE  RoutersInv'
  <1>t. /\ rooms \in [Rooms -> RoomTypes] /\ routers \in [Routers -> RouterTypes]
        /\ full' \in SUBSET Workers
    BY DEF RoutersInv, RoutersTypeOK, Leave
  <1> DEFINE g == current
             room == rooms[g]
             w == room.peers[p]
             r == room.routers[w]
             rest == routers[r].peerIds \ {p}
             gone == [room EXCEPT !.peers[p] = Nobody]
             without == [gone EXCEPT !.routers[w] = Nobody]
             closed == Closed(routers, {r})
  <1>1. g # Nobody /\ w # Nobody
    BY DEF Leave
  <1>2. /\ g \in Rooms /\ Sound(room, routers, g) /\ room \in RoomTypes
        /\ \A h \in Rooms \ {g} : rooms[h] = EmptyRoom
    BY <1>1 DEF RoutersInv, RoutersTypeOK, NobodyInAForgottenRoom
  <1>a. /\ MapsAgree(room, routers, g) /\ PromisesAreHeld(room, routers)
        /\ SomebodyWaits(room) /\ PeersAreCounted(room, routers)
        /\ PrimaryIsThere(room) /\ Together(room)
    BY <1>2 DEF Sound
  <1>b. /\ room.routers \in [Workers -> Routers \cup {Nobody}]
        /\ room.making \in [Workers -> Routers \cup {Nobody}]
        /\ room.peers \in [Peers -> Workers \cup {Nobody}]
        /\ room.pending \in Routers \cup {Nobody}
        /\ room.primary \in Workers \cup {Nobody}
        /\ \A q \in Peers : room.creating[q].stage # "none" => room.creating[q].router \in Routers
    BY <1>2 DEF RoomTypes, Creations
  <1>3. /\ w \in Workers /\ r \in Routers /\ r # Nobody
        /\ routers[r].state = "open" /\ routers[r].worker = w /\ p \in routers[r].peerIds
    <2>1. w \in Workers
      BY <1>1, <1>b
    <2>2. r # Nobody /\ p \in routers[r].peerIds
      BY <1>1, <1>a DEF PeersAreCounted
    <2>3. r \in Routers
      BY <1>b, <2>1, <2>2
    <2>4. routers[r].state = "open" /\ routers[r].worker = w
      BY <1>a, <2>1, <2>2 DEF MapsAgree
    <2>5. QED
      BY <2>1, <2>2, <2>3, <2>4
  <1>4. routers[r] \in [state : {"creating", "measuring", "open", "closed", "failed"},
                        worker : Workers, room : Rooms, peerIds : SUBSET Peers]
    <2>1. routers[r] \in RouterTypes
      BY <1>t, <1>3
    <2>2. routers[r] # NoRouter
      BY <1>3 DEF NoRouter
    <2> HIDE DEF r
    <2>3. QED
      BY <2>1, <2>2 DEF RouterTypes
  <1>p. room.pending # Nobody => routers[room.pending].state \in Making
    BY <1>2 DEF NothingSettling, InMaking, Making
  <1>g. /\ gone \in RoomTypes
        /\ gone.routers = room.routers /\ gone.making = room.making
        /\ gone.peers = [room.peers EXCEPT ![p] = Nobody]
        /\ gone.primary = room.primary /\ gone.pending = room.pending
        /\ gone.creating = room.creating /\ gone.strained = room.strained
    BY <1>2 DEF RoomTypes
  <1>5. ASSUME rest # {}, CommitAndClose([rooms EXCEPT ![g] = gone],
                                         [routers EXCEPT ![r].peerIds = rest], g)
        PROVE  RoutersInv'
    <2> DEFINE rms == [rooms EXCEPT ![g] = gone]
               rts == [routers EXCEPT ![r].peerIds = rest]
    <2>1. /\ rts \in [Routers -> RouterTypes]
          /\ rts[r].peerIds = rest
          /\ \A q \in Routers \ {r} : rts[q] = routers[q]
          /\ \A q \in Routers : rts[q].state = routers[q].state
                /\ rts[q].worker = routers[q].worker /\ rts[q].room = routers[q].room
      <3>1. [routers[r] EXCEPT !.peerIds = rest] \in RouterTypes
        BY <1>4 DEF RouterTypes
      <3>2. rts = [routers EXCEPT ![r] = [routers[r] EXCEPT !.peerIds = rest]]
        BY <1>t
      <3> HIDE DEF rest
      <3>3. QED
        BY <1>t, <1>3, <1>4, <3>1, <3>2
    <2>2. rms \in [Rooms -> RoomTypes] /\ rms[g] = gone /\ \A h \in Rooms \ {g} : rms[h] = EmptyRoom
      <3> HIDE DEF gone
      <3>1. QED
        BY <1>t, <1>2, <1>g
    <2>3. CommitAndClose(rms, rts, g)
      BY <1>5
    <2> HIDE DEF rms, rts, gone, r, w, room
    <2>4. MapsAgree(gone, rts, g)
      BY <1>a, <1>b, <1>g, <2>1 DEF MapsAgree
    <2>5. PromisesAreHeld(gone, rts)
      BY <1>a, <1>b, <1>g, <2>1 DEF PromisesAreHeld
    <2>6. PeersAreCounted(gone, rts)
      <3>1. \A v \in Routers, q \in Peers : q # p /\ q \in routers[v].peerIds => q \in rts[v].peerIds
        BY <2>1
      <3>2. \A q \in Peers : gone.peers[q] # Nobody => q # p /\ gone.peers[q] = room.peers[q]
        BY <1>b, <1>g
      <3>3. QED
        BY <1>a, <1>b, <1>g, <3>1, <3>2 DEF PeersAreCounted
    <2>7. SomebodyWaits(gone) /\ PrimaryIsThere(gone) /\ Together(gone)
      BY <1>a, <1>g DEF SomebodyWaits, PrimaryIsThere, Together
    <2>8. Sound(rms[g], rts, g)
      BY <2>2, <2>4, <2>5, <2>6, <2>7 DEF Sound
    <2> HIDE DEF g
    <2>9. QED
      BY <1>t, <1>2, <2>1, <2>2, <2>3, <2>8, CommitAndCloseInv DEF g
  <1>w. /\ without \in RoomTypes
        /\ without.routers = [room.routers EXCEPT ![w] = Nobody] /\ without.making = room.making
        /\ without.peers = [room.peers EXCEPT ![p] = Nobody]
        /\ without.primary = room.primary /\ without.pending = room.pending
        /\ without.creating = room.creating /\ without.strained = room.strained
    <2> HIDE DEF gone, w, room
    <2>1. QED
      BY <1>3, <1>b, <1>g DEF RoomTypes
  <1>6. ASSUME rest = {},
               NEW k \in IF room.primary = w THEN NextPrimary(without, closed) ELSE {room.primary},
               CommitAndClose([rooms EXCEPT ![g] = [without EXCEPT !.primary = k]], closed, g)
        PROVE  RoutersInv'
    <2> DEFINE new == [without EXCEPT !.primary = k]
               rms == [rooms EXCEPT ![g] = new]
    <2>1. /\ closed \in [Routers -> RouterTypes]
          /\ closed[r].state = "closed"
          /\ \A q \in Routers \ {r} : closed[q] = routers[q]
      <3>1. [routers[r] EXCEPT !.state = "closed", !.peerIds = {}] \in RouterTypes
            /\ [routers[r] EXCEPT !.state = "closed", !.peerIds = {}].state = "closed"
        BY <1>4 DEF RouterTypes
      <3>2. \A q \in Routers : closed[q] =
                IF q = r THEN [routers[r] EXCEPT !.state = "closed", !.peerIds = {}] ELSE routers[q]
        BY DEF Closed
      <3>3. closed = [q \in Routers |-> closed[q]]
        BY DEF Closed
      <3> HIDE DEF closed, r
      <3>4. QED
        BY <1>t, <1>3, <3>1, <3>2, <3>3
    <2>k. /\ k \in Workers \cup {Nobody}
          /\ k # Nobody => without.routers[k] # Nobody
          /\ room.primary # w => k = room.primary
          /\ room.primary = w /\ k = Nobody => HasRouter(without) = {}
      <3>1. CASE room.primary = w
        <4> HIDE DEF without, closed, w, room
        <4>1. QED
          BY <1>6, <3>1, RoutersAssumption DEF NextPrimary, HasRouter
      <3>2. CASE room.primary # w
        <4>1. k = room.primary
          BY <1>6, <3>2
        <4> HIDE DEF without, closed, w, room
        <4>2. QED
          BY <1>a, <1>b, <1>w, <3>2, <4>1 DEF PrimaryIsThere
      <3>3. QED
        BY <3>1, <3>2
    <2>2. /\ new \in RoomTypes
          /\ new.routers = [room.routers EXCEPT ![w] = Nobody] /\ new.making = room.making
          /\ new.peers = [room.peers EXCEPT ![p] = Nobody]
          /\ new.primary = k /\ new.pending = room.pending
          /\ new.creating = room.creating /\ new.strained = room.strained
      <3> HIDE DEF without, w, room
      <3>1. QED
        BY <1>w, <2>k DEF RoomTypes
    <2>3. rms \in [Rooms -> RoomTypes] /\ rms[g] = new /\ \A h \in Rooms \ {g} : rms[h] = EmptyRoom
      <3> HIDE DEF new
      <3>1. QED
        BY <1>t, <1>2, <2>2
    <2>4. CommitAndClose(rms, closed, g)
      BY <1>6
    <2> HIDE DEF rms, closed, new, without, gone, r
    <2>5. /\ \A v \in Workers : new.routers[v] = IF v = w THEN Nobody ELSE room.routers[v]
          /\ \A v \in Workers : v # w /\ room.routers[v] # Nobody =>
                 room.routers[v] # r /\ closed[room.routers[v]] = routers[room.routers[v]]
          /\ room.routers[w] = r
      <3> HIDE DEF w, room
      <3>1. \A v \in Workers : new.routers[v] = IF v = w THEN Nobody ELSE room.routers[v]
        BY <1>b, <2>2
      <3>2. \A v \in Workers : v # w /\ room.routers[v] # Nobody => room.routers[v] \in Routers \ {r}
        BY <1>3, <1>a, <1>b DEF MapsAgree
      <3>3. QED
        BY <2>1, <3>1, <3>2 DEF r
    <2> HIDE DEF w, room
    <2>6. MapsAgree(new, closed, g)
      <3>1. \A q \in Routers : closed[q].state \in Making =>
               closed[q].room = g /\ new.making[closed[q].worker] = q
        BY <1>a, <2>1, <2>2 DEF MapsAgree, Making
      <3>2. \A q \in Routers : closed[q].state = "open" =>
               closed[q].room = g /\ new.routers[closed[q].worker] = q
        <4> SUFFICES ASSUME NEW q \in Routers, closed[q].state = "open"
                     PROVE  closed[q].room = g /\ new.routers[closed[q].worker] = q
          OBVIOUS
        <4>1. q # r /\ closed[q] = routers[q]
          BY <2>1
        <4>2. routers[q].room = g /\ room.routers[routers[q].worker] = q
          BY <1>a, <4>1 DEF MapsAgree
        <4>3. routers[q].worker \in Workers
          BY <1>t, <4>1 DEF RouterTypes, NoRouter
        <4>4. QED
          BY <2>5, <4>1, <4>2, <4>3
      <3>3. \A v \in Workers : new.making[v] # Nobody =>
               closed[new.making[v]].state \in Making /\ closed[new.making[v]].worker = v
        BY <1>3, <1>a, <1>b, <2>1, <2>2 DEF MapsAgree, Making
      <3>4. \A v \in Workers : new.routers[v] # Nobody =>
               /\ closed[new.routers[v]].state = "open" /\ closed[new.routers[v]].worker = v
               /\ new.making[v] = Nobody
        BY <1>a, <2>2, <2>5 DEF MapsAgree
      <3>5. QED
        BY <3>1, <3>2, <3>3, <3>4 DEF MapsAgree
    <2>7. PromisesAreHeld(new, closed)
      <3>1. room.pending # Nobody => room.pending # r
        BY <1>3, <1>p DEF Making
      <3>2. QED
        BY <1>a, <1>b, <2>1, <2>2, <3>1 DEF PromisesAreHeld
    <2>8. PeersAreCounted(new, closed)
      <3>1. \A q \in Peers : new.peers[q] # Nobody => q # p /\ new.peers[q] = room.peers[q]
        BY <1>b, <2>2
      <3>2. \A q \in Peers : q # p /\ room.peers[q] = w => FALSE
        BY <1>1, <1>6, <1>a, <2>5 DEF PeersAreCounted, r
      <3>3. QED
        BY <1>a, <1>b, <2>5, <3>1, <3>2 DEF PeersAreCounted
    <2>9. SomebodyWaits(new)
      BY <1>a, <2>2 DEF SomebodyWaits
    <2>10. PrimaryIsThere(new)
      BY <1>3, <1>a, <1>w, <2>k, <2>2, RoutersAssumption DEF PrimaryIsThere
    <2>11. Together(new)
      <3> SUFFICES ASSUME ~room.strained PROVE Together(new)
        BY <2>2 DEF Together
      <3>1. room.primary = w
        <4>1. room.primary # Nobody
          <5>1. SUFFICES ASSUME room.primary = Nobody PROVE FALSE
            OBVIOUS
          <5>2. r = room.pending
            BY <1>3, <1>a, <2>5, <5>1 DEF Together
          <5>3. QED
            BY <1>3, <1>p, <5>2 DEF Making
        <4>2. QED
          BY <1>3, <1>a, <2>5, <4>1 DEF Together
      <3>2. \A v \in Workers : new.making[v] = Nobody /\ new.routers[v] = Nobody
        BY <1>3, <1>a, <2>2, <2>5, <3>1, RoutersAssumption DEF Together
      <3>3. QED
        BY <3>2 DEF Together
    <2>12. Sound(rms[g], closed, g)
      BY <2>3, <2>6, <2>7, <2>8, <2>9, <2>10, <2>11 DEF Sound
    <2> HIDE DEF g
    <2>13. QED
      BY <1>t, <1>2, <2>1, <2>2, <2>3, <2>4, <2>12, CommitAndCloseInv DEF g
  <1>7. QED
    BY <1>5, <1>6 DEF Leave

LEMMA LoadChangesInv ==
    ASSUME RoutersInv, LoadChanges
    PROVE  RoutersInv'
  <1>1. UNCHANGED <<rooms, current, routers>> /\ full' \in SUBSET Workers
    BY DEF LoadChanges
  <1>2. RoutersTypeOK' /\ NobodyInAForgottenRoom'
    BY <1>1 DEF RoutersInv, RoutersTypeOK, NobodyInAForgottenRoom
  <1>3. QED
    BY <1>1, <1>2 DEF RoutersInv

LEMMA StepInv ==
    ASSUME RoutersInv, [Next]_routerVars
    PROVE  RoutersInv'
  <1>1. CASE UNCHANGED routerVars
    <2>1. UNCHANGED <<rooms, current, routers, full>>
      BY <1>1 DEF routerVars
    <2>2. RoutersTypeOK' /\ NobodyInAForgottenRoom'
      BY <2>1 DEF RoutersInv, RoutersTypeOK, NobodyInAForgottenRoom
    <2>3. QED
      BY <2>1, <2>2 DEF RoutersInv
  <1>2. CASE \E g \in Rooms : PrimarySettles(g)
    BY <1>2, PrimarySettlesInv
  <1>3. ASSUME NothingSettling, NEW p \in Peers, Join(p) \/ Leave(p)
        PROVE  RoutersInv'
    BY <1>3, JoinInv, LeaveInv
  <1>4. ASSUME NEW g \in Rooms, NEW p \in Peers,
               Assign(g, p) \/ Enter(g, p) \/ Retry(g, p) \/ CreationFails(g, p)
        PROVE  RoutersInv'
    BY <1>4, AssignInv, EnterInv, RetryInv, CreationFailsInv
  <1>5. ASSUME NEW r \in Routers, RouterAnswers(r) \/ ObserverAnswers(r) \/ WorkerRefuses(r)
        PROVE  RoutersInv'
    BY <1>5, RouterAnswersInv, ObserverAnswersInv, WorkerRefusesInv
  <1>6. CASE LoadChanges
    BY <1>6, LoadChangesInv
  <1>7. QED
    BY <1>1, <1>2, <1>3, <1>4, <1>5, <1>6 DEF Next

-----------------------------------------------------------------------------
(* What the room promises.                                                 *)

\* RoutersInv is inductive.
THEOREM RoutersSpecInv == Spec => []RoutersInv
  <1>1. Init => RoutersInv
    BY InitInv
  <1>2. RoutersInv /\ [Next]_routerVars => RoutersInv'
    BY StepInv
  <1>3. QED
    BY <1>1, <1>2, PTL DEF Spec

\* A person of a room is served by an open Router that counts him: it is not
\* closed under him, whoever else leaves (createPeer, removePeer,
\* releaseRouterIfIdle).
THEOREM PeersStayOnOpenRouters == Spec => []PeersLiveOnOpenRouters
  <1>1. RoutersInv => PeersLiveOnOpenRouters
    <2> SUFFICES ASSUME RoutersInv, NEW g \in Rooms, NEW p \in Peers, rooms[g].peers[p] # Nobody
                 PROVE  LET r == rooms[g].routers[rooms[g].peers[p]]
                        IN  r # Nobody /\ routers[r].state = "open" /\ p \in routers[r].peerIds
      BY DEF PeersLiveOnOpenRouters, RoutersInv
    <2>1. rooms[g] # EmptyRoom
      BY DEF EmptyRoom
    <2>2. Sound(rooms[g], routers, g) /\ rooms[g] \in RoomTypes
      BY <2>1, InUse
    <2> DEFINE room == rooms[g]
    <2>3. PeersAreCounted(room, routers) /\ MapsAgree(room, routers, g)
      BY <2>2 DEF Sound
    <2>4. room.peers[p] \in Workers
      BY <2>2 DEF RoomTypes
    <2>5. room.routers[room.peers[p]] # Nobody /\ p \in routers[room.routers[room.peers[p]]].peerIds
      BY <2>3 DEF PeersAreCounted
    <2>6. routers[room.routers[room.peers[p]]].state = "open"
      BY <2>3, <2>4, <2>5 DEF MapsAgree
    <2>7. QED
      BY <2>5, <2>6
  <1>2. QED
    BY <1>1, RoutersSpecInv, PTL

\* Nobody is in a room the registry forgot, no primary is a Router that was
\* closed, and no room is kept for nobody (closeRoomIfEmpty).
THEOREM RoomsStaySound == Spec => []RoomsAreSound
  <1>1. RoutersInv => RoomsAreSound
    <2> SUFFICES ASSUME RoutersInv PROVE RoomsAreSound
      OBVIOUS
    <2>1. NobodyInAForgottenRoom
      BY DEF RoutersInv
    <2>2. NoEmptyRoomIsKept
      BY DEF RoutersInv, NoEmptyRoomIsKept
    <2>3. PrimaryIsOneOfTheRouters
      <3> SUFFICES ASSUME NEW g \in Rooms, rooms[g].primary # Nobody
                   PROVE  rooms[g].routers[rooms[g].primary] # Nobody
        BY DEF PrimaryIsOneOfTheRouters
      <3>1. rooms[g] # EmptyRoom
        BY DEF EmptyRoom
      <3>2. QED
        BY <3>1, InUse DEF Sound, PrimaryIsThere
    <2>4. QED
      BY <2>1, <2>2, <2>3 DEF RoomsAreSound
  <1>2. QED
    BY <1>1, RoutersSpecInv, PTL

\* Every Router alive in a Worker is in a map of the room the registry has:
\* it will be closed with that room, or before.
THEOREM RoutersAreNeverLost == Spec => []NoRouterIsLost
  <1>1. RoutersInv => NoRouterIsLost
    <2> SUFFICES ASSUME RoutersInv, NEW r \in Routers, routers[r].state \in {"measuring", "open"}
                 PROVE  /\ routers[r].room = current
                        /\ r \in {rooms[routers[r].room].routers[routers[r].worker],
                                  rooms[routers[r].room].making[routers[r].worker]}
      BY DEF NoRouterIsLost
    <2>1. current # Nobody
      BY DEF RoutersInv, Alive
    <2>2. MapsAgree(rooms[current], routers, current)
      BY <2>1 DEF RoutersInv, Sound
    <2>3. QED
      BY <2>2 DEF MapsAgree, Making
  <1>2. QED
    BY <1>1, RoutersSpecInv, PTL

\* As long as nobody found the Worker of the primary saturated, the room has
\* one Router, made or in the making, however many join at the same time.
THEOREM RoomStaysTogether == Spec => []TogetherUnlessStrained
  <1>1. RoutersInv => TogetherUnlessStrained
    <2> SUFFICES ASSUME RoutersInv, NEW g \in Rooms, ~rooms[g].strained
                 PROVE  Cardinality(HasRouter(rooms[g])
                            \cup {w \in Workers : rooms[g].making[w] # Nobody}) <= 1
      BY DEF TogetherUnlessStrained
    <2> DEFINE used == HasRouter(rooms[g]) \cup {w \in Workers : rooms[g].making[w] # Nobody}
    <2>1. \A v, w \in used : v = w
      <3>1. CASE rooms[g] = EmptyRoom
        BY <3>1 DEF EmptyRoom, HasRouter
      <3>2. CASE rooms[g] # EmptyRoom
        <4>1. Together(rooms[g]) /\ MapsAgree(rooms[g], routers, g)
          BY <3>2, InUse DEF Sound
        <4>2. CASE rooms[g].primary # Nobody
          BY <4>1, <4>2 DEF Together, HasRouter
        <4>3. CASE rooms[g].primary = Nobody
          <5>1. \A w \in used : w \in Workers /\ rooms[g].pending # Nobody
                                  /\ routers[rooms[g].pending].worker = w
            BY <4>1, <4>3 DEF Together, HasRouter, MapsAgree
          <5>2. QED
            BY <5>1
        <4>4. QED
          BY <4>2, <4>3
      <3>3. QED
        BY <3>1, <3>2
    <2> HIDE DEF used
    <2>2. CASE used = {}
      <3>1. Cardinality(used) = 0
        BY <2>2, FS_EmptySet
      <3>2. QED
        BY <3>1 DEF used
    <2>3. ASSUME NEW w \in used PROVE Cardinality(used) <= 1
      <3>1. used = {w}
        BY <2>1
      <3>2. Cardinality(used) = 1
        BY <3>1, FS_Singleton
      <3>3. QED
        BY <3>2
    <2>4. QED
      BY <2>2, <2>3 DEF used
  <1>2. QED
    BY <1>1, RoutersSpecInv, PTL
=============================================================================
