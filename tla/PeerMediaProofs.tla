-------------------------- MODULE PeerMediaProofs --------------------------
(***************************************************************************)
(* Proofs about PeerMedia, for any peers, Workers and number of objects:   *)
(* what a room offers is what its peers send by now, the bridges are those *)
(* it lists, nobody who left receives, and the load of a Worker is the     *)
(* weight of what it forwards.                                             *)
(*                                                                         *)
(* The parts of the invariant are operators of a room m, so that a handler *)
(* that closes one thing after the other can be taken in turns.            *)
(***************************************************************************)
EXTENDS PeerMedia, FiniteSetTheorems, TLAPS

-----------------------------------------------------------------------------
(* The inductive invariant.                                                *)

Peer == [here : BOOLEAN, session : Nat, send : Transports \cup {None},
         recv : Transports \cup {None}, caps : BOOLEAN]
Transport == [state : {"making", "open"}, owner : Peers, direction : {"send", "recv"},
              session : Nat]
Producer == [state : {"making", "open", "gone"}, owner : Peers, kind : Kinds,
             transport : Transports]
Consumer == [state : {"piping", "making", "open"}, owner : Peers, source : Producers,
             transport : Transports, bridge : Bridges \cup {None}]
Bridge == [state : {"making", "open", "gone"}, to : Workers, source : Producers,
           cut : BOOLEAN]

Room == [peers      : [Peers -> Peer],
         transports : [Transports -> {Nothing} \cup Transport],
         producers  : [Producers -> {Nothing} \cup Producer],
         consumers  : [Consumers -> {Nothing} \cup Consumer],
         bridges    : [Bridges -> {Nothing} \cup Bridge],
         onAir      : SUBSET Producers,
         pipes      : [Workers \X Producers -> Bridges \cup {None}],
         units      : [Workers -> Int]]

\* Who is out has nothing, and a peer refers to transports that are open.
PeersAreSound(m) ==
    \A p \in Peers :
        /\ m.peers[p].session <= MaxSessions[p]
        /\ ~m.peers[p].here => m.peers[p].send = None /\ m.peers[p].recv = None
        /\ m.peers[p].send # None => m.transports[m.peers[p].send].state = "open"
        /\ m.peers[p].recv # None => m.transports[m.peers[p].recv].state = "open"

\* The other way round: a transport that is open is the one its peer refers to.
TransportsAreSound(m) ==
    \A t \in In(m.transports, {"open"}) :
        t = IF m.transports[t].direction = "send" THEN m.peers[m.transports[t].owner].send
            ELSE m.peers[m.transports[t].owner].recv

\* A track, and one being made, is sent by the transport of now.
ProducersAreSound(m) ==
    /\ \A x \in In(m.producers, {"making", "open"}) :
           m.peers[m.producers[x].owner].send = m.producers[x].transport
    /\ m.onAir = In(m.producers, {"open"})
    /\ \A x, y \in In(m.producers, {"open"}) :
           m.producers[x].owner = m.producers[y].owner
             /\ m.producers[x].kind = m.producers[y].kind => x = y

\* A consumer, at any stage, is received by the transport of now.
ConsumersAreSound(m) ==
    \A c \in In(m.consumers, {"piping", "making", "open"}) :
        /\ m.peers[m.consumers[c].owner].recv = m.consumers[c].transport
        /\ m.producers[m.consumers[c].source].state \in {"open", "gone"}

BridgesAreSound(m) ==
    \A b \in In(m.bridges, {"making", "open", "gone"}) :
        m.producers[m.bridges[b].source].state \in {"open", "gone"}

PipesAreSound(m) ==
    /\ \A w \in Workers, x \in Producers : m.pipes[<<w, x>>] # None =>
           /\ x \in m.onAir
           /\ m.bridges[m.pipes[<<w, x>>]].state \in {"making", "open"}
           /\ ~m.bridges[m.pipes[<<w, x>>]].cut
           /\ m.bridges[m.pipes[<<w, x>>]].to = w
           /\ m.bridges[m.pipes[<<w, x>>]].source = x
    /\ \A b \in In(m.bridges, {"making", "open"}) :
           m.bridges[b].source \in m.onAir /\ ~m.bridges[b].cut
             => m.pipes[<<m.bridges[b].to, m.bridges[b].source>>] = b

UnitsAreSound(m) ==
    \A w \in Workers :
        m.units[w] = ProducerUnits(m, In(m.producers, {"open"}), w)
                       + ConsumerUnits(m, In(m.consumers, {"open"}), w)
                       + BridgeUnits(m, In(m.bridges, {"open"}), w)

RoomInv(m) ==
    /\ m \in Room
    /\ PeersAreSound(m) /\ TransportsAreSound(m)
    /\ ProducersAreSound(m) /\ ConsumersAreSound(m)
    /\ BridgesAreSound(m) /\ PipesAreSound(m) /\ UnitsAreSound(m)

-----------------------------------------------------------------------------
(* Loads.                                                                  *)

LEMMA WeightIsKnown ==
    ASSUME NEW kind \in Kinds
    PROVE  Weight(kind) \in {1, 5, 10} /\ Weight(kind) \in Int
  BY MediaAssumption DEF Weight

\* What of S weighs n.
Heavy(S, kind, n) == {i \in S : Weight(kind[i]) = n}

LEMMA LoadByWeight ==
    ASSUME NEW S, NEW kind
    PROVE  Load(S, kind) = Cardinality(Heavy(S, kind, 1)) + 5 * Cardinality(Heavy(S, kind, 5))
                             + 10 * Cardinality(Heavy(S, kind, 10))
  BY DEF Load, Heavy

LEMMA LoadIsNumber ==
    ASSUME NEW S, IsFiniteSet(S), NEW kind
    PROVE  Load(S, kind) \in Nat
  <1>1. ASSUME NEW n PROVE Cardinality(Heavy(S, kind, n)) \in Nat
    BY FS_Subset, FS_CardinalityType DEF Heavy
  <1>2. QED
    BY <1>1, LoadByWeight

LEMMA LoadOfNothing ==
    ASSUME NEW kind
    PROVE  Load({}, kind) = 0
  <1>1. \A n : Heavy({}, kind, n) = {}
    BY DEF Heavy
  <1>2. Cardinality({}) = 0
    BY FS_EmptySet
  <1>3. Load({}, kind) = Cardinality(Heavy({}, kind, 1)) + 5 * Cardinality(Heavy({}, kind, 5))
                           + 10 * Cardinality(Heavy({}, kind, 10))
    BY LoadByWeight
  <1>4. QED
    BY <1>1, <1>2, <1>3

LEMMA LoadOfTheSame ==
    ASSUME NEW S, NEW kind, NEW other, \A i \in S : kind[i] = other[i]
    PROVE  Load(S, kind) = Load(S, other)
  <1>1. \A n : Heavy(S, kind, n) = Heavy(S, other, n)
    BY DEF Heavy
  <1>2. QED
    BY <1>1, LoadByWeight

\* What closes takes its weight along.
LEMMA LoadSplits ==
    ASSUME NEW S, IsFiniteSet(S), NEW T, T \subseteq S, NEW kind
    PROVE  Load(S \ T, kind) = Load(S, kind) - Load(T, kind)
  <1>1. ASSUME NEW n
        PROVE  /\ Cardinality(Heavy(S \ T, kind, n))
                     = Cardinality(Heavy(S, kind, n)) - Cardinality(Heavy(T, kind, n))
               /\ Cardinality(Heavy(S, kind, n)) \in Nat
               /\ Cardinality(Heavy(T, kind, n)) \in Nat
    <2>1. Heavy(S \ T, kind, n) = Heavy(S, kind, n) \ Heavy(T, kind, n)
      BY DEF Heavy
    <2>2. /\ IsFiniteSet(Heavy(S, kind, n)) /\ IsFiniteSet(Heavy(T, kind, n))
          /\ Heavy(S, kind, n) \cap Heavy(T, kind, n) = Heavy(T, kind, n)
      BY FS_Subset DEF Heavy
    <2>3. /\ Cardinality(Heavy(S, kind, n)) \in Nat
          /\ Cardinality(Heavy(T, kind, n)) \in Nat
      BY <2>2, FS_CardinalityType
    <2>4. Cardinality(Heavy(S, kind, n) \ Heavy(T, kind, n))
            = Cardinality(Heavy(S, kind, n)) - Cardinality(Heavy(S, kind, n) \cap Heavy(T, kind, n))
      BY <2>2, FS_Difference
    <2>5. QED
      BY <2>1, <2>2, <2>3, <2>4
  <1> DEFINE H(X, n) == Cardinality(Heavy(X, kind, n))
  <1>2. /\ Load(S \ T, kind) = H(S \ T, 1) + 5 * H(S \ T, 5) + 10 * H(S \ T, 10)
        /\ Load(S, kind) = H(S, 1) + 5 * H(S, 5) + 10 * H(S, 10)
        /\ Load(T, kind) = H(T, 1) + 5 * H(T, 5) + 10 * H(T, 10)
    BY LoadByWeight
  <1>3. \A n \in {1, 5, 10} : H(S \ T, n) = H(S, n) - H(T, n) /\ H(S, n) \in Nat /\ H(T, n) \in Nat
    BY <1>1
  <1> HIDE DEF H
  <1>4. QED
    BY <1>2, <1>3

\* What opens brings its own.
LEMMA LoadGrows ==
    ASSUME NEW S, IsFiniteSet(S), NEW i, i \notin S, NEW kind, kind[i] \in Kinds
    PROVE  Load(S \cup {i}, kind) = Load(S, kind) + Weight(kind[i])
  <1>1. ASSUME NEW n
        PROVE  /\ Cardinality(Heavy(S \cup {i}, kind, n))
                     = Cardinality(Heavy(S, kind, n)) + (IF Weight(kind[i]) = n THEN 1 ELSE 0)
               /\ Cardinality(Heavy(S, kind, n)) \in Nat
    <2>1. IsFiniteSet(Heavy(S, kind, n)) /\ i \notin Heavy(S, kind, n)
      BY FS_Subset DEF Heavy
    <2>2. Heavy(S \cup {i}, kind, n)
            = IF Weight(kind[i]) = n THEN Heavy(S, kind, n) \cup {i} ELSE Heavy(S, kind, n)
      BY DEF Heavy
    <2>3. Cardinality(Heavy(S, kind, n) \cup {i}) = Cardinality(Heavy(S, kind, n)) + 1
      BY <2>1, FS_AddElement
    <2>4. Cardinality(Heavy(S, kind, n)) \in Nat
      BY <2>1, FS_CardinalityType
    <2>5. QED
      BY <2>2, <2>3, <2>4
  <1>2. Weight(kind[i]) \in {1, 5, 10}
    BY WeightIsKnown
  <1> DEFINE H(X, n) == Cardinality(Heavy(X, kind, n))
  <1>3. /\ Load(S \cup {i}, kind)
                = H(S \cup {i}, 1) + 5 * H(S \cup {i}, 5) + 10 * H(S \cup {i}, 10)
        /\ Load(S, kind) = H(S, 1) + 5 * H(S, 5) + 10 * H(S, 10)
    BY LoadByWeight
  <1>4. \A n \in {1, 5, 10} :
            /\ H(S \cup {i}, n) = H(S, n) + (IF Weight(kind[i]) = n THEN 1 ELSE 0)
            /\ H(S, n) \in Nat
    BY <1>1
  <1> HIDE DEF H
  <1>5. QED
    BY <1>2, <1>3, <1>4

LEMMA OpenAreFinite ==
    ASSUME NEW m \in Room, NEW states
    PROVE  /\ IsFiniteSet(In(m.producers, states)) /\ In(m.producers, states) \subseteq Producers
           /\ IsFiniteSet(In(m.consumers, states)) /\ In(m.consumers, states) \subseteq Consumers
           /\ IsFiniteSet(In(m.bridges, states)) /\ In(m.bridges, states) \subseteq Bridges
  <1>1. /\ In(m.producers, states) \subseteq Producers
        /\ In(m.consumers, states) \subseteq Consumers
        /\ In(m.bridges, states) \subseteq Bridges
    BY DEF In, Room
  <1>2. QED
    BY <1>1, MediaAssumption, FS_Subset

LEMMA UnitsAreNumbers ==
    ASSUME NEW m, NEW S, NEW w, IsFiniteSet(S)
    PROVE  /\ ProducerUnits(m, S, w) \in Nat
           /\ ConsumerUnits(m, S, w) \in Nat
           /\ BridgeUnits(m, S, w) \in Nat
  <1>1. ASSUME NEW T, T \subseteq S, NEW kind PROVE Load(T, kind) \in Nat
    <2>1. IsFiniteSet(T)
      BY <1>1, FS_Subset
    <2>2. QED
      BY <2>1, LoadIsNumber
  <1>2. QED
    BY <1>1 DEF ProducerUnits, ConsumerUnits, BridgeUnits

\* What is carried weighs the same whatever happens around it.
LEMMA ProducersWeighTheSame ==
    ASSUME NEW m, NEW n, NEW S, NEW w,
           \A x \in S : /\ n.producers[x].owner = m.producers[x].owner
                        /\ n.producers[x].kind = m.producers[x].kind
    PROVE  ProducerUnits(n, S, w) = ProducerUnits(m, S, w)
  <1> DEFINE here == {x \in S : OwnerHome(m, x) = w}
  <1>1. here = {x \in S : OwnerHome(n, x) = w}
    BY DEF OwnerHome
  <1>2. \A x \in here : [i \in here |-> n.producers[i].kind][x] = [i \in here |-> m.producers[i].kind][x]
    OBVIOUS
  <1> HIDE DEF here
  <1>3. Load(here, [i \in here |-> n.producers[i].kind]) = Load(here, [i \in here |-> m.producers[i].kind])
    BY <1>2, LoadOfTheSame
  <1>4. QED
    BY <1>1, <1>3 DEF ProducerUnits, here

LEMMA ConsumersWeighTheSame ==
    ASSUME NEW m, NEW n, NEW S, NEW w,
           \A c \in S : /\ n.consumers[c].owner = m.consumers[c].owner
                        /\ n.producers[n.consumers[c].source].kind
                             = m.producers[m.consumers[c].source].kind
    PROVE  ConsumerUnits(n, S, w) = ConsumerUnits(m, S, w)
  <1> DEFINE here == {c \in S : Home[m.consumers[c].owner] = w}
             K == [c \in here |-> m.producers[m.consumers[c].source].kind]
             L == [c \in here |-> n.producers[n.consumers[c].source].kind]
  <1>1. here = {c \in S : Home[n.consumers[c].owner] = w}
    OBVIOUS
  <1>2. \A c \in here : L[c] = K[c]
    OBVIOUS
  <1> HIDE DEF here, K, L
  <1>3. Load(here, L) = Load(here, K)
    BY <1>2, LoadOfTheSame
  <1>4. ConsumerUnits(n, S, w) = Load(here, L) /\ ConsumerUnits(m, S, w) = Load(here, K)
    BY <1>1 DEF ConsumerUnits, here, K, L
  <1>5. QED
    BY <1>3, <1>4

LEMMA BridgesWeighTheSame ==
    ASSUME NEW m, NEW n, NEW S, NEW w,
           \A b \in S : LET x == m.bridges[b].source IN
               /\ n.bridges[b].to = m.bridges[b].to /\ n.bridges[b].source = x
               /\ n.producers[x].owner = m.producers[x].owner
               /\ n.producers[x].kind = m.producers[x].kind
    PROVE  BridgeUnits(n, S, w) = BridgeUnits(m, S, w)
  <1> DEFINE here == {b \in S : w \in {m.bridges[b].to, OwnerHome(m, m.bridges[b].source)}}
             K == [b \in here |-> m.producers[m.bridges[b].source].kind]
             L == [b \in here |-> n.producers[n.bridges[b].source].kind]
  <1>1. here = {b \in S : w \in {n.bridges[b].to, OwnerHome(n, n.bridges[b].source)}}
    BY DEF OwnerHome
  <1>2. \A b \in here : L[b] = K[b]
    OBVIOUS
  <1> HIDE DEF here, K, L
  <1>3. Load(here, L) = Load(here, K)
    BY <1>2, LoadOfTheSame
  <1>4. BridgeUnits(n, S, w) = Load(here, L) /\ BridgeUnits(m, S, w) = Load(here, K)
    BY <1>1 DEF BridgeUnits, here, K, L
  <1>5. QED
    BY <1>3, <1>4

\* What of S is on one side of a partition weighs what S does, less the other side.
LEMMA PartSplits ==
    ASSUME NEW S, IsFiniteSet(S), NEW T, T \subseteq S, NEW kind,
           NEW other, \A i \in T : other[i] = kind[i],
           NEW rest, \A i \in S \ T : rest[i] = kind[i]
    PROVE  Load(S \ T, rest) = Load(S, kind) - Load(T, other)
  <1>1. Load(S \ T, kind) = Load(S, kind) - Load(T, kind)
    BY LoadSplits
  <1>2. Load(T, other) = Load(T, kind)
    BY LoadOfTheSame
  <1>3. Load(S \ T, rest) = Load(S \ T, kind)
    <2>1. ASSUME NEW U, U = S \ T PROVE Load(U, rest) = Load(U, kind)
      BY <2>1, LoadOfTheSame
    <2>2. QED
      BY <2>1
  <1>4. QED
    BY <1>1, <1>2, <1>3

LEMMA UnitsSplit ==
    ASSUME NEW m, NEW S, IsFiniteSet(S), NEW T, T \subseteq S, NEW w
    PROVE  /\ ProducerUnits(m, S \ T, w) = ProducerUnits(m, S, w) - ProducerUnits(m, T, w)
           /\ ConsumerUnits(m, S \ T, w) = ConsumerUnits(m, S, w) - ConsumerUnits(m, T, w)
           /\ BridgeUnits(m, S \ T, w) = BridgeUnits(m, S, w) - BridgeUnits(m, T, w)
  <1>1. ProducerUnits(m, S \ T, w) = ProducerUnits(m, S, w) - ProducerUnits(m, T, w)
    <2> DEFINE here(U) == {x \in U : OwnerHome(m, x) = w}
               K(U) == [x \in here(U) |-> m.producers[x].kind]
    <2>1. /\ here(T) \subseteq here(S) /\ here(S \ T) = here(S) \ here(T)
          /\ \A i \in here(T) : K(T)[i] = K(S)[i]
          /\ \A i \in here(S \ T) : K(S \ T)[i] = K(S)[i]
          /\ IsFiniteSet(here(S))
      BY FS_Subset
    <2>2. \A U : ProducerUnits(m, U, w) = Load(here(U), K(U))
      BY DEF ProducerUnits
    <2> HIDE DEF here, K
    <2>3. Load(here(S) \ here(T), K(S \ T)) = Load(here(S), K(S)) - Load(here(T), K(T))
      <3>1. IsFiniteSet(here(S)) /\ here(T) \subseteq here(S)
        BY <2>1
      <3>2. \A f, o, r : /\ \A i \in here(T) : o[i] = f[i]
                         /\ \A i \in here(S) \ here(T) : r[i] = f[i]
                         => Load(here(S) \ here(T), r) = Load(here(S), f) - Load(here(T), o)
        BY <3>1, PartSplits
      <3>3. \A i \in here(T) : K(T)[i] = K(S)[i]
        BY <2>1
      <3>4. \A i \in here(S) \ here(T) : K(S \ T)[i] = K(S)[i]
        BY <2>1
      <3>5. QED
        BY <3>2, <3>3, <3>4
    <2>4. QED
      BY <2>1, <2>2, <2>3
  <1>2. ConsumerUnits(m, S \ T, w) = ConsumerUnits(m, S, w) - ConsumerUnits(m, T, w)
    <2> DEFINE here(U) == {c \in U : Home[m.consumers[c].owner] = w}
               K(U) == [c \in here(U) |-> m.producers[m.consumers[c].source].kind]
    <2>1. /\ here(T) \subseteq here(S) /\ here(S \ T) = here(S) \ here(T)
          /\ \A i \in here(T) : K(T)[i] = K(S)[i]
          /\ \A i \in here(S \ T) : K(S \ T)[i] = K(S)[i]
          /\ IsFiniteSet(here(S))
      BY FS_Subset
    <2>2. \A U : ConsumerUnits(m, U, w) = Load(here(U), K(U))
      BY DEF ConsumerUnits
    <2> HIDE DEF here, K
    <2>3. Load(here(S) \ here(T), K(S \ T)) = Load(here(S), K(S)) - Load(here(T), K(T))
      <3>1. IsFiniteSet(here(S)) /\ here(T) \subseteq here(S)
        BY <2>1
      <3>2. \A f, o, r : /\ \A i \in here(T) : o[i] = f[i]
                         /\ \A i \in here(S) \ here(T) : r[i] = f[i]
                         => Load(here(S) \ here(T), r) = Load(here(S), f) - Load(here(T), o)
        BY <3>1, PartSplits
      <3>3. \A i \in here(T) : K(T)[i] = K(S)[i]
        BY <2>1
      <3>4. \A i \in here(S) \ here(T) : K(S \ T)[i] = K(S)[i]
        BY <2>1
      <3>5. QED
        BY <3>2, <3>3, <3>4
    <2>4. QED
      BY <2>1, <2>2, <2>3
  <1>3. BridgeUnits(m, S \ T, w) = BridgeUnits(m, S, w) - BridgeUnits(m, T, w)
    <2> DEFINE here(U) == {b \in U : w \in {m.bridges[b].to, OwnerHome(m, m.bridges[b].source)}}
               K(U) == [b \in here(U) |-> m.producers[m.bridges[b].source].kind]
    <2>1. /\ here(T) \subseteq here(S) /\ here(S \ T) = here(S) \ here(T)
          /\ \A i \in here(T) : K(T)[i] = K(S)[i]
          /\ \A i \in here(S \ T) : K(S \ T)[i] = K(S)[i]
          /\ IsFiniteSet(here(S))
      BY FS_Subset
    <2>2. \A U : BridgeUnits(m, U, w) = Load(here(U), K(U))
      BY DEF BridgeUnits
    <2> HIDE DEF here, K
    <2>3. Load(here(S) \ here(T), K(S \ T)) = Load(here(S), K(S)) - Load(here(T), K(T))
      <3>1. IsFiniteSet(here(S)) /\ here(T) \subseteq here(S)
        BY <2>1
      <3>2. \A f, o, r : /\ \A i \in here(T) : o[i] = f[i]
                         /\ \A i \in here(S) \ here(T) : r[i] = f[i]
                         => Load(here(S) \ here(T), r) = Load(here(S), f) - Load(here(T), o)
        BY <3>1, PartSplits
      <3>3. \A i \in here(T) : K(T)[i] = K(S)[i]
        BY <2>1
      <3>4. \A i \in here(S) \ here(T) : K(S \ T)[i] = K(S)[i]
        BY <2>1
      <3>5. QED
        BY <3>2, <3>3, <3>4
    <2>4. QED
      BY <2>1, <2>2, <2>3
  <1>4. QED
    BY <1>1, <1>2, <1>3

LEMMA PartGrows ==
    ASSUME NEW S, IsFiniteSet(S), NEW i, i \notin S, NEW kind, kind[i] \in Kinds,
           NEW former, \A j \in S : former[j] = kind[j]
    PROVE  Load(S \cup {i}, kind) = Load(S, former) + Weight(kind[i])
  <1>1. Load(S \cup {i}, kind) = Load(S, kind) + Weight(kind[i])
    BY LoadGrows
  <1>2. Load(S, former) = Load(S, kind)
    BY LoadOfTheSame
  <1>3. QED
    BY <1>1, <1>2

LEMMA ProducerUnitsGrow ==
    ASSUME NEW m, NEW S, IsFiniteSet(S), NEW x, x \notin S, NEW w, m.producers[x].kind \in Kinds
    PROVE  ProducerUnits(m, S \cup {x}, w)
             = ProducerUnits(m, S, w)
                 + (IF OwnerHome(m, x) = w THEN Weight(m.producers[x].kind) ELSE 0)
  <1> DEFINE here(U) == {y \in U : OwnerHome(m, y) = w}
             K(U) == [y \in here(U) |-> m.producers[y].kind]
  <1>1. /\ OwnerHome(m, x) = w => here(S \cup {x}) = here(S) \cup {x}
        /\ OwnerHome(m, x) # w => here(S \cup {x}) = here(S)
        /\ \A i \in here(S) : K(S)[i] = K(S \cup {x})[i]
        /\ OwnerHome(m, x) = w => K(S \cup {x})[x] = m.producers[x].kind
        /\ IsFiniteSet(here(S)) /\ x \notin here(S)
    BY FS_Subset
  <1>2. \A U : ProducerUnits(m, U, w) = Load(here(U), K(U))
    BY DEF ProducerUnits
  <1>3. OwnerHome(m, x) # w => K(S \cup {x}) = K(S)
    BY <1>1
  <1> HIDE DEF here, K
  <1>4. CASE OwnerHome(m, x) = w
    <2>1. K(S \cup {x})[x] = m.producers[x].kind
      BY <1>1, <1>4
    <2>2. Load(here(S) \cup {x}, K(S \cup {x})) = Load(here(S), K(S)) + Weight(K(S \cup {x})[x])
      <3>0. IsFiniteSet(here(S)) /\ x \notin here(S)
        BY <1>1
      <3>1. \A f, g : (g[x] \in Kinds /\ \A j \in here(S) : f[j] = g[j])
                         => Load(here(S) \cup {x}, g) = Load(here(S), f) + Weight(g[x])
        BY <3>0, PartGrows
      <3>2. \A j \in here(S) : K(S)[j] = K(S \cup {x})[j]
        BY <1>1
      <3>3. K(S \cup {x})[x] \in Kinds
        BY <2>1
      <3>4. QED
        BY <3>1, <3>2, <3>3
    <2>3. /\ ProducerUnits(m, S \cup {x}, w) = Load(here(S) \cup {x}, K(S \cup {x}))
          /\ ProducerUnits(m, S, w) = Load(here(S), K(S))
      BY <1>1, <1>2, <1>4
    <2>4. QED
      BY <1>4, <2>1, <2>2, <2>3
  <1>5. CASE OwnerHome(m, x) # w
    <2>1. ProducerUnits(m, S, w) \in Nat
      BY UnitsAreNumbers
    <2>2. QED
      BY <1>1, <1>2, <1>3, <1>5, <2>1
  <1>6. QED
    BY <1>4, <1>5

LEMMA ConsumerUnitsGrow ==
    ASSUME NEW m, NEW S, IsFiniteSet(S), NEW x, x \notin S, NEW w,
           m.producers[m.consumers[x].source].kind \in Kinds
    PROVE  ConsumerUnits(m, S \cup {x}, w)
             = ConsumerUnits(m, S, w)
                 + (IF Home[m.consumers[x].owner] = w
                    THEN Weight(m.producers[m.consumers[x].source].kind) ELSE 0)
  <1> DEFINE here(U) == {c \in U : Home[m.consumers[c].owner] = w}
             K(U) == [c \in here(U) |-> m.producers[m.consumers[c].source].kind]
  <1>1. /\ Home[m.consumers[x].owner] = w => here(S \cup {x}) = here(S) \cup {x}
        /\ Home[m.consumers[x].owner] # w => here(S \cup {x}) = here(S)
        /\ \A i \in here(S) : K(S)[i] = K(S \cup {x})[i]
        /\ Home[m.consumers[x].owner] = w =>
               K(S \cup {x})[x] = m.producers[m.consumers[x].source].kind
        /\ IsFiniteSet(here(S)) /\ x \notin here(S)
    BY FS_Subset
  <1>2. \A U : ConsumerUnits(m, U, w) = Load(here(U), K(U))
    BY DEF ConsumerUnits
  <1>3. Home[m.consumers[x].owner] # w => K(S \cup {x}) = K(S)
    BY <1>1
  <1> HIDE DEF here, K
  <1>4. CASE Home[m.consumers[x].owner] = w
    <2>1. K(S \cup {x})[x] = m.producers[m.consumers[x].source].kind
      BY <1>1, <1>4
    <2>2. Load(here(S) \cup {x}, K(S \cup {x})) = Load(here(S), K(S)) + Weight(K(S \cup {x})[x])
      <3>0. IsFiniteSet(here(S)) /\ x \notin here(S)
        BY <1>1
      <3>1. \A f, g : (g[x] \in Kinds /\ \A j \in here(S) : f[j] = g[j])
                         => Load(here(S) \cup {x}, g) = Load(here(S), f) + Weight(g[x])
        BY <3>0, PartGrows
      <3>2. \A j \in here(S) : K(S)[j] = K(S \cup {x})[j]
        BY <1>1
      <3>3. K(S \cup {x})[x] \in Kinds
        BY <2>1
      <3>4. QED
        BY <3>1, <3>2, <3>3
    <2>3. /\ ConsumerUnits(m, S \cup {x}, w) = Load(here(S) \cup {x}, K(S \cup {x}))
          /\ ConsumerUnits(m, S, w) = Load(here(S), K(S))
      BY <1>1, <1>2, <1>4
    <2>4. QED
      BY <1>4, <2>1, <2>2, <2>3
  <1>5. CASE Home[m.consumers[x].owner] # w
    <2>1. ConsumerUnits(m, S, w) \in Nat
      BY UnitsAreNumbers
    <2>2. QED
      BY <1>1, <1>2, <1>3, <1>5, <2>1
  <1>6. QED
    BY <1>4, <1>5

LEMMA BridgeUnitsGrow ==
    ASSUME NEW m, NEW S, IsFiniteSet(S), NEW x, x \notin S, NEW w,
           m.producers[m.bridges[x].source].kind \in Kinds
    PROVE  BridgeUnits(m, S \cup {x}, w)
             = BridgeUnits(m, S, w)
                 + (IF w \in {m.bridges[x].to, OwnerHome(m, m.bridges[x].source)}
                    THEN Weight(m.producers[m.bridges[x].source].kind) ELSE 0)
  <1> DEFINE Ends(b) == {m.bridges[b].to, OwnerHome(m, m.bridges[b].source)}
             here(U) == {b \in U : w \in Ends(b)}
             K(U) == [b \in here(U) |-> m.producers[m.bridges[b].source].kind]
  <1>1. \A U : BridgeUnits(m, U, w) = Load(here(U), K(U))
    BY DEF BridgeUnits
  <1>e. Ends(x) = {m.bridges[x].to, OwnerHome(m, m.bridges[x].source)}
    OBVIOUS
  <1> HIDE DEF Ends
  <1>2. /\ w \in Ends(x) => here(S \cup {x}) = here(S) \cup {x}
        /\ w \notin Ends(x) => here(S \cup {x}) = here(S)
        /\ \A i \in here(S) : K(S)[i] = K(S \cup {x})[i]
        /\ w \in Ends(x) => K(S \cup {x})[x] = m.producers[m.bridges[x].source].kind
        /\ IsFiniteSet(here(S)) /\ x \notin here(S)
    BY FS_Subset
  <1>3. w \notin Ends(x) => K(S \cup {x}) = K(S)
    BY <1>2
  <1> HIDE DEF here, K
  <1>4. CASE w \in Ends(x)
    <2>1. K(S \cup {x})[x] = m.producers[m.bridges[x].source].kind
      BY <1>2, <1>4
    <2>2. Load(here(S) \cup {x}, K(S \cup {x})) = Load(here(S), K(S)) + Weight(K(S \cup {x})[x])
      <3>0. IsFiniteSet(here(S)) /\ x \notin here(S)
        BY <1>2
      <3>1. \A f, g : (g[x] \in Kinds /\ \A j \in here(S) : f[j] = g[j])
                         => Load(here(S) \cup {x}, g) = Load(here(S), f) + Weight(g[x])
        BY <3>0, PartGrows
      <3>2. \A j \in here(S) : K(S)[j] = K(S \cup {x})[j]
        BY <1>2
      <3>3. K(S \cup {x})[x] \in Kinds
        BY <2>1
      <3>4. QED
        BY <3>1, <3>2, <3>3
    <2>3. /\ BridgeUnits(m, S \cup {x}, w) = Load(here(S) \cup {x}, K(S \cup {x}))
          /\ BridgeUnits(m, S, w) = Load(here(S), K(S))
      BY <1>1, <1>2, <1>4
    <2>4. QED
      BY <1>4, <1>e, <2>1, <2>2, <2>3
  <1>5. CASE w \notin Ends(x)
    <2>1. BridgeUnits(m, S, w) \in Nat
      BY UnitsAreNumbers
    <2>2. QED
      BY <1>1, <1>2, <1>3, <1>5, <1>e, <2>1
  <1>6. QED
    BY <1>4, <1>5

\* From room m to room n, X, C and B closed, their weight with them, and the rest
\* stayed what it was.
Closes(m, n, X, C, B) ==
    /\ X \subseteq In(m.producers, {"open"})
    /\ C \subseteq In(m.consumers, {"open"})
    /\ B \subseteq In(m.bridges, {"open"})
    /\ In(n.producers, {"open"}) = In(m.producers, {"open"}) \ X
    /\ In(n.consumers, {"open"}) = In(m.consumers, {"open"}) \ C
    /\ In(n.bridges, {"open"}) = In(m.bridges, {"open"}) \ B
    /\ \A x \in In(n.producers, {"open"}) :
           /\ n.producers[x].owner = m.producers[x].owner
           /\ n.producers[x].kind = m.producers[x].kind
    /\ \A c \in In(n.consumers, {"open"}) :
           /\ n.consumers[c].owner = m.consumers[c].owner
           /\ n.producers[n.consumers[c].source].kind = m.producers[m.consumers[c].source].kind
    /\ \A b \in In(n.bridges, {"open"}) :
           LET x == m.bridges[b].source IN
           /\ n.bridges[b].to = m.bridges[b].to /\ n.bridges[b].source = x
           /\ n.producers[x].owner = m.producers[x].owner
           /\ n.producers[x].kind = m.producers[x].kind
    /\ \A w \in Workers : n.units[w] = m.units[w] - ProducerUnits(m, X, w)
                                          - ConsumerUnits(m, C, w) - BridgeUnits(m, B, w)

LEMMA UnitsFollowClosing ==
    ASSUME NEW m, m \in Room, UnitsAreSound(m), NEW n, NEW X, NEW C, NEW B, Closes(m, n, X, C, B)
    PROVE  UnitsAreSound(n)
  <1> DEFINE PO == In(m.producers, {"open"})
             CO == In(m.consumers, {"open"})
             BO == In(m.bridges, {"open"})
  <1>1. IsFiniteSet(PO) /\ IsFiniteSet(CO) /\ IsFiniteSet(BO)
    BY OpenAreFinite
  <1>2. X \subseteq PO /\ C \subseteq CO /\ B \subseteq BO
    BY DEF Closes
  <1>3. IsFiniteSet(X) /\ IsFiniteSet(C) /\ IsFiniteSet(B)
    BY <1>1, <1>2, FS_Subset
  <1> SUFFICES ASSUME NEW w \in Workers
               PROVE  n.units[w] = ProducerUnits(n, In(n.producers, {"open"}), w)
                                     + ConsumerUnits(n, In(n.consumers, {"open"}), w)
                                     + BridgeUnits(n, In(n.bridges, {"open"}), w)
    BY DEF UnitsAreSound
  <1>4. /\ ProducerUnits(n, In(n.producers, {"open"}), w) = ProducerUnits(m, In(n.producers, {"open"}), w)
        /\ ConsumerUnits(n, In(n.consumers, {"open"}), w) = ConsumerUnits(m, In(n.consumers, {"open"}), w)
        /\ BridgeUnits(n, In(n.bridges, {"open"}), w) = BridgeUnits(m, In(n.bridges, {"open"}), w)
    BY ProducersWeighTheSame, ConsumersWeighTheSame, BridgesWeighTheSame DEF Closes
  <1>5. /\ In(n.producers, {"open"}) = PO \ X
        /\ In(n.consumers, {"open"}) = CO \ C
        /\ In(n.bridges, {"open"}) = BO \ B
    BY DEF Closes
  <1>6. n.units[w] = m.units[w] - ProducerUnits(m, X, w) - ConsumerUnits(m, C, w) - BridgeUnits(m, B, w)
    BY DEF Closes
  <1>7. m.units[w] = ProducerUnits(m, PO, w) + ConsumerUnits(m, CO, w) + BridgeUnits(m, BO, w)
    BY DEF UnitsAreSound
  <1> HIDE DEF PO, CO, BO
  <1>8. /\ ProducerUnits(m, PO \ X, w) = ProducerUnits(m, PO, w) - ProducerUnits(m, X, w)
        /\ ConsumerUnits(m, CO \ C, w) = ConsumerUnits(m, CO, w) - ConsumerUnits(m, C, w)
        /\ BridgeUnits(m, BO \ B, w) = BridgeUnits(m, BO, w) - BridgeUnits(m, B, w)
    BY <1>1, <1>2, UnitsSplit
  <1>9. /\ ProducerUnits(m, PO, w) \in Nat /\ ProducerUnits(m, X, w) \in Nat
        /\ ConsumerUnits(m, CO, w) \in Nat /\ ConsumerUnits(m, C, w) \in Nat
        /\ BridgeUnits(m, BO, w) \in Nat /\ BridgeUnits(m, B, w) \in Nat
    BY <1>1, <1>3, UnitsAreNumbers
  <1>10. /\ ProducerUnits(n, In(n.producers, {"open"}), w) = ProducerUnits(m, PO, w) - ProducerUnits(m, X, w)
         /\ ConsumerUnits(n, In(n.consumers, {"open"}), w) = ConsumerUnits(m, CO, w) - ConsumerUnits(m, C, w)
         /\ BridgeUnits(n, In(n.bridges, {"open"}), w) = BridgeUnits(m, BO, w) - BridgeUnits(m, B, w)
    BY <1>4, <1>5, <1>8
  <1>11. QED
    BY <1>6, <1>7, <1>9, <1>10

-----------------------------------------------------------------------------
(* What closing changes.                                                   *)

LEMMA InRoom ==
    ASSUME NEW m, m \in Room, NEW states, "none" \notin states
    PROVE  /\ \A t \in In(m.transports, states) :
                  t \in Transports /\ m.transports[t] \in Transport /\ m.transports[t].state \in states
           /\ \A x \in In(m.producers, states) :
                  x \in Producers /\ m.producers[x] \in Producer /\ m.producers[x].state \in states
           /\ \A c \in In(m.consumers, states) :
                  c \in Consumers /\ m.consumers[c] \in Consumer /\ m.consumers[c].state \in states
           /\ \A b \in In(m.bridges, states) :
                  b \in Bridges /\ m.bridges[b] \in Bridge /\ m.bridges[b].state \in states
  BY DEF In, Room, Nothing

LEMMA ClosingProducers ==
    ASSUME NEW m, m \in Room, NEW X, X \subseteq In(m.producers, {"open"}),
           NEW n, n = CloseProducers(m, X)
    PROVE  /\ n \in Room
           /\ n.peers = m.peers /\ n.transports = m.transports
           /\ n.consumers = m.consumers /\ n.bridges = m.bridges
           /\ \A x \in Producers :
                  n.producers[x] = IF x \in X THEN [m.producers[x] EXCEPT !.state = "gone"]
                                   ELSE m.producers[x]
           /\ n.onAir = m.onAir \ X
           /\ \A w \in Workers, x \in Producers :
                  n.pipes[<<w, x>>] = IF x \in X THEN None ELSE m.pipes[<<w, x>>]
           /\ \A w \in Workers : n.units[w] = m.units[w] - ProducerUnits(m, X, w)
  <1>1. \A x \in X : x \in Producers /\ m.producers[x] \in Producer
    BY InRoom
  <1> DEFINE P == [x \in Producers |->
                      IF x \in X THEN [m.producers[x] EXCEPT !.state = "gone"] ELSE m.producers[x]]
             Q == [k \in Workers \X Producers |-> IF k[2] \in X THEN None ELSE m.pipes[k]]
             U == [w \in Workers |-> m.units[w] - ProducerUnits(m, X, w)]
  <1>2. P \in [Producers -> {Nothing} \cup Producer]
    BY <1>1 DEF Producer, Room
  <1>3. Q \in [Workers \X Producers -> Bridges \cup {None}]
    BY DEF Room
  <1>4. U \in [Workers -> Int]
    <2>1. IsFiniteSet(X)
      BY OpenAreFinite, FS_Subset
    <2>2. \A w : ProducerUnits(m, X, w) \in Nat
      BY <2>1, UnitsAreNumbers
    <2> HIDE DEF P, Q
    <2>3. QED
      BY <2>2 DEF Room
  <1>5. n = [m EXCEPT !.producers = P, !.onAir = m.onAir \ X, !.pipes = Q, !.units = U]
    BY DEF CloseProducers
  <1>6. /\ \A x \in Producers : P[x] = IF x \in X THEN [m.producers[x] EXCEPT !.state = "gone"]
                                       ELSE m.producers[x]
        /\ \A w \in Workers, x \in Producers :
               Q[<<w, x>>] = IF x \in X THEN None ELSE m.pipes[<<w, x>>]
        /\ \A w \in Workers : U[w] = m.units[w] - ProducerUnits(m, X, w)
    OBVIOUS
  <1> HIDE DEF P, Q, U
  <1>7. /\ n \in Room
        /\ n.peers = m.peers /\ n.transports = m.transports
        /\ n.consumers = m.consumers /\ n.bridges = m.bridges
        /\ n.producers = P /\ n.onAir = m.onAir \ X /\ n.pipes = Q /\ n.units = U
    BY <1>2, <1>3, <1>4, <1>5 DEF Room
  <1>8. QED
    BY <1>6, <1>7

LEMMA ClosingConsumers ==
    ASSUME NEW m, m \in Room, NEW C, C \subseteq In(m.consumers, {"open"}),
           NEW n, n = CloseConsumers(m, C)
    PROVE  /\ n \in Room
           /\ n.peers = m.peers /\ n.transports = m.transports
           /\ n.producers = m.producers /\ n.bridges = m.bridges
           /\ n.onAir = m.onAir /\ n.pipes = m.pipes
           /\ \A c \in Consumers : n.consumers[c] = IF c \in C THEN Nothing ELSE m.consumers[c]
           /\ \A w \in Workers : n.units[w] = m.units[w] - ConsumerUnits(m, C, w)
  <1> DEFINE P == [c \in Consumers |-> IF c \in C THEN Nothing ELSE m.consumers[c]]
             U == [w \in Workers |-> m.units[w] - ConsumerUnits(m, C, w)]
  <1>1. P \in [Consumers -> {Nothing} \cup Consumer]
    BY DEF Room
  <1>2. U \in [Workers -> Int]
    <2>1. IsFiniteSet(C)
      BY OpenAreFinite, FS_Subset
    <2>2. \A w : ConsumerUnits(m, C, w) \in Nat
      BY <2>1, UnitsAreNumbers
    <2> HIDE DEF P
    <2>3. QED
      BY <2>2 DEF Room
  <1>3. n = [m EXCEPT !.consumers = P, !.units = U]
    BY DEF CloseConsumers
  <1>4. /\ \A c \in Consumers : P[c] = IF c \in C THEN Nothing ELSE m.consumers[c]
        /\ \A w \in Workers : U[w] = m.units[w] - ConsumerUnits(m, C, w)
    OBVIOUS
  <1> HIDE DEF P, U
  <1>5. /\ n \in Room
        /\ n.peers = m.peers /\ n.transports = m.transports
        /\ n.producers = m.producers /\ n.bridges = m.bridges
        /\ n.onAir = m.onAir /\ n.pipes = m.pipes
        /\ n.consumers = P /\ n.units = U
    BY <1>1, <1>2, <1>3 DEF Room
  <1>6. QED
    BY <1>4, <1>5

LEMMA ClosingBridges ==
    ASSUME NEW m, m \in Room, NEW B, B \subseteq In(m.bridges, {"open"}),
           NEW n, n = CloseBridges(m, B)
    PROVE  /\ n \in Room
           /\ n.peers = m.peers /\ n.transports = m.transports
           /\ n.producers = m.producers /\ n.onAir = m.onAir
           /\ \A b \in Bridges :
                  n.bridges[b] = IF b \in B THEN [m.bridges[b] EXCEPT !.state = "gone"]
                                 ELSE m.bridges[b]
           /\ \A k \in Workers \X Producers :
                  n.pipes[k] = IF m.pipes[k] \in B THEN None ELSE m.pipes[k]
           /\ \A c \in Consumers :
                  n.consumers[c] = IF m.consumers[c].state = "piping" /\ m.consumers[c].bridge \in B
                                   THEN Nothing ELSE m.consumers[c]
           /\ \A w \in Workers : n.units[w] = m.units[w] - BridgeUnits(m, B, w)
  <1>1. \A b \in B : b \in Bridges /\ m.bridges[b] \in Bridge
    BY InRoom
  <1> DEFINE P == [b \in Bridges |->
                      IF b \in B THEN [m.bridges[b] EXCEPT !.state = "gone"] ELSE m.bridges[b]]
             Q == [k \in Workers \X Producers |-> IF m.pipes[k] \in B THEN None ELSE m.pipes[k]]
             C == [c \in Consumers |->
                      IF m.consumers[c].state = "piping" /\ m.consumers[c].bridge \in B
                      THEN Nothing ELSE m.consumers[c]]
             U == [w \in Workers |-> m.units[w] - BridgeUnits(m, B, w)]
  <1>2. P \in [Bridges -> {Nothing} \cup Bridge]
    BY <1>1 DEF Bridge, Room
  <1>3. Q \in [Workers \X Producers -> Bridges \cup {None}]
    BY DEF Room
  <1>4. C \in [Consumers -> {Nothing} \cup Consumer]
    BY DEF Room
  <1>5. U \in [Workers -> Int]
    <2>1. IsFiniteSet(B)
      BY OpenAreFinite, FS_Subset
    <2>2. \A w : BridgeUnits(m, B, w) \in Nat
      BY <2>1, UnitsAreNumbers
    <2> HIDE DEF P, Q, C
    <2>3. QED
      BY <2>2 DEF Room
  <1>6. n = [m EXCEPT !.bridges = P, !.pipes = Q, !.consumers = C, !.units = U]
    BY DEF CloseBridges
  <1>7. /\ \A b \in Bridges : P[b] = IF b \in B THEN [m.bridges[b] EXCEPT !.state = "gone"]
                                     ELSE m.bridges[b]
        /\ \A k \in Workers \X Producers : Q[k] = IF m.pipes[k] \in B THEN None ELSE m.pipes[k]
        /\ \A c \in Consumers :
               C[c] = IF m.consumers[c].state = "piping" /\ m.consumers[c].bridge \in B
                      THEN Nothing ELSE m.consumers[c]
        /\ \A w \in Workers : U[w] = m.units[w] - BridgeUnits(m, B, w)
    OBVIOUS
  <1> HIDE DEF P, Q, C, U
  <1>8. /\ n \in Room
        /\ n.peers = m.peers /\ n.transports = m.transports
        /\ n.producers = m.producers /\ n.onAir = m.onAir
        /\ n.bridges = P /\ n.pipes = Q /\ n.consumers = C /\ n.units = U
    BY <1>2, <1>3, <1>4, <1>5, <1>6 DEF Room
  <1>9. QED
    BY <1>7, <1>8

LEMMA NothingWeighs ==
    ASSUME NEW m, NEW w
    PROVE  ProducerUnits(m, {}, w) = 0 /\ ConsumerUnits(m, {}, w) = 0 /\ BridgeUnits(m, {}, w) = 0
  <1>1. ASSUME NEW S, S = {}, NEW kind PROVE Load(S, kind) = 0
    BY <1>1, LoadOfNothing
  <1>2. QED
    BY <1>1 DEF ProducerUnits, ConsumerUnits, BridgeUnits

\* From room m to room n, all that is open stayed what it was.
Stays(m, n) ==
    /\ In(n.producers, {"open"}) = In(m.producers, {"open"})
    /\ In(n.consumers, {"open"}) = In(m.consumers, {"open"})
    /\ In(n.bridges, {"open"}) = In(m.bridges, {"open"})
    /\ \A x \in In(m.producers, {"open"}) : n.producers[x] = m.producers[x]
    /\ \A c \in In(m.consumers, {"open"}) :
           /\ n.consumers[c] = m.consumers[c]
           /\ n.producers[m.consumers[c].source] = m.producers[m.consumers[c].source]
    /\ \A b \in In(m.bridges, {"open"}) :
           /\ n.bridges[b].to = m.bridges[b].to /\ n.bridges[b].source = m.bridges[b].source
           /\ n.producers[m.bridges[b].source] = m.producers[m.bridges[b].source]
    /\ n.units = m.units

LEMMA UnitsStay ==
    ASSUME NEW m, m \in Room, UnitsAreSound(m), NEW n, Stays(m, n)
    PROVE  UnitsAreSound(n)
  <1>1. \A w \in Workers : n.units[w] = m.units[w] - ProducerUnits(m, {}, w)
                                          - ConsumerUnits(m, {}, w) - BridgeUnits(m, {}, w)
    <2>1. \A w \in Workers : m.units[w] \in Int /\ n.units[w] = m.units[w]
      BY DEF Room, Stays
    <2>2. \A w : ProducerUnits(m, {}, w) = 0 /\ ConsumerUnits(m, {}, w) = 0 /\ BridgeUnits(m, {}, w) = 0
      BY NothingWeighs
    <2>3. QED
      BY <2>1, <2>2
  <1>2. Closes(m, n, {}, {}, {})
    BY <1>1 DEF Closes, Stays
  <1>3. QED
    BY <1>2, UnitsFollowClosing

-----------------------------------------------------------------------------
(* What nobody refers to any more.                                         *)

LEMMA Collecting ==
    ASSUME NEW m, m \in Room, NEW n, n = Collected(m)
    PROVE  /\ n \in Room
           /\ n.peers = m.peers /\ n.transports = m.transports /\ n.consumers = m.consumers
           /\ n.onAir = m.onAir /\ n.pipes = m.pipes /\ n.units = m.units
           /\ \A b \in Bridges :
                  \/ n.bridges[b] = m.bridges[b]
                  \/ m.bridges[b].state = "gone" /\ n.bridges[b] = Nothing
           /\ \A x \in Producers :
                  \/ n.producers[x] = m.producers[x]
                  \/ /\ m.producers[x].state = "gone" /\ n.producers[x] = Nothing
                     /\ \A c \in In(m.consumers, {"piping", "making", "open"}) :
                            m.consumers[c].source # x
                     /\ \A b \in In(n.bridges, {"making", "open", "gone"}) :
                            n.bridges[b].source # x
  <1> DEFINE heard == In(m.consumers, {"piping", "making", "open"})
             P == [b \in Bridges |->
                      IF m.bridges[b].state = "gone" /\ \A c \in heard : m.consumers[c].bridge # b
                      THEN Nothing ELSE m.bridges[b]]
             used == {m.consumers[c].source : c \in heard}
                       \cup {P[b].source : b \in In(P, {"making", "open", "gone"})}
             Q == [x \in Producers |->
                      IF m.producers[x].state = "gone" /\ x \notin used
                      THEN Nothing ELSE m.producers[x]]
  <1>1. n = [m EXCEPT !.bridges = P, !.producers = Q]
    BY DEF Collected
  <1>2. P \in [Bridges -> {Nothing} \cup Bridge] /\ Q \in [Producers -> {Nothing} \cup Producer]
    BY DEF Room
  <1>3. /\ \A b \in Bridges : P[b] = m.bridges[b] \/ (m.bridges[b].state = "gone" /\ P[b] = Nothing)
        /\ \A x \in Producers :
               \/ Q[x] = m.producers[x]
               \/ m.producers[x].state = "gone" /\ Q[x] = Nothing /\ x \notin used
    OBVIOUS
  <1>4. \A x : x \notin used =>
            /\ \A c \in heard : m.consumers[c].source # x
            /\ \A b \in In(P, {"making", "open", "gone"}) : P[b].source # x
    OBVIOUS
  <1> HIDE DEF P, used, Q
  <1>5. /\ n \in Room
        /\ n.peers = m.peers /\ n.transports = m.transports /\ n.consumers = m.consumers
        /\ n.onAir = m.onAir /\ n.pipes = m.pipes /\ n.units = m.units
        /\ n.bridges = P /\ n.producers = Q
    BY <1>1, <1>2 DEF Room
  <1>6. QED
    BY <1>3, <1>4, <1>5

LEMMA CollectedInv ==
    ASSUME NEW m, RoomInv(m)
    PROVE  RoomInv(Collected(m))
  <1>1. PICK n : n = Collected(m)
    OBVIOUS
  <1>2. m \in Room
    BY DEF RoomInv
  <1>3. /\ n \in Room
        /\ n.peers = m.peers /\ n.transports = m.transports /\ n.consumers = m.consumers
        /\ n.onAir = m.onAir /\ n.pipes = m.pipes /\ n.units = m.units
    BY <1>1, <1>2, Collecting
  <1>4. \A b \in Bridges : \/ n.bridges[b] = m.bridges[b]
                           \/ m.bridges[b].state = "gone" /\ n.bridges[b] = Nothing
    BY <1>1, <1>2, Collecting
  <1>5. \A x \in Producers :
            \/ n.producers[x] = m.producers[x]
            \/ /\ m.producers[x].state = "gone" /\ n.producers[x] = Nothing
               /\ \A c \in In(m.consumers, {"piping", "making", "open"}) :
                      m.consumers[c].source # x
               /\ \A b \in In(n.bridges, {"making", "open", "gone"}) :
                      n.bridges[b].source # x
    BY <1>1, <1>2, Collecting
  <1>6. /\ DOMAIN m.producers = Producers /\ DOMAIN n.producers = Producers
        /\ DOMAIN m.bridges = Bridges /\ DOMAIN n.bridges = Bridges
    BY <1>2, <1>3 DEF Room
  <1>7. /\ In(n.producers, {"open"}) = In(m.producers, {"open"})
        /\ In(n.producers, {"making", "open"}) = In(m.producers, {"making", "open"})
        /\ \A x \in In(m.producers, {"making", "open"}) : n.producers[x] = m.producers[x]
        /\ In(n.bridges, {"open"}) = In(m.bridges, {"open"})
        /\ In(n.bridges, {"making", "open"}) = In(m.bridges, {"making", "open"})
        /\ \A b \in In(m.bridges, {"making", "open"}) : n.bridges[b] = m.bridges[b]
        /\ In(n.bridges, {"making", "open", "gone"}) \subseteq In(m.bridges, {"making", "open", "gone"})
        /\ \A b \in In(n.bridges, {"making", "open", "gone"}) : n.bridges[b] = m.bridges[b]
    BY <1>4, <1>5, <1>6 DEF In, Nothing
  <1>8. \A b \in In(n.bridges, {"making", "open", "gone"}) :
            m.bridges[b].source \in Producers
              /\ n.producers[m.bridges[b].source] = m.producers[m.bridges[b].source]
    <2>1. \A b \in In(m.bridges, {"making", "open", "gone"}) : m.bridges[b].source \in Producers
      BY <1>2, InRoom DEF Bridge
    <2>2. QED
      BY <1>5, <1>7, <2>1
  <1>9. \A c \in In(m.consumers, {"piping", "making", "open"}) :
            n.producers[m.consumers[c].source] = m.producers[m.consumers[c].source]
    <2>1. \A c \in In(m.consumers, {"piping", "making", "open"}) : m.consumers[c].source \in Producers
      BY <1>2, InRoom DEF Consumer
    <2>2. QED
      BY <1>5, <2>1
  <1>10. PeersAreSound(n) /\ TransportsAreSound(n)
    BY <1>3 DEF RoomInv, PeersAreSound, TransportsAreSound
  <1>11. ProducersAreSound(n)
    <2>1. In(m.producers, {"open"}) \subseteq In(m.producers, {"making", "open"})
      BY DEF In
    <2>2. QED
      BY <1>3, <1>7, <2>1 DEF RoomInv, ProducersAreSound
  <1>12. ConsumersAreSound(n)
    BY <1>3, <1>9 DEF RoomInv, ConsumersAreSound
  <1>13. BridgesAreSound(n)
    BY <1>7, <1>8 DEF RoomInv, BridgesAreSound
  <1>14. PipesAreSound(n)
    <2>1. ASSUME NEW w \in Workers, NEW x \in Producers, m.pipes[<<w, x>>] # None
          PROVE  n.bridges[m.pipes[<<w, x>>]] = m.bridges[m.pipes[<<w, x>>]]
      <3>1. m.bridges[m.pipes[<<w, x>>]].state \in {"making", "open"} /\ m.pipes[<<w, x>>] \in Bridges
        BY <1>2, <2>1 DEF RoomInv, PipesAreSound, Room
      <3>2. QED
        BY <1>4, <3>1
    <2>2. \A b \in In(n.bridges, {"making", "open"}) :
              n.bridges[b].source \in n.onAir /\ ~n.bridges[b].cut
                => n.pipes[<<n.bridges[b].to, n.bridges[b].source>>] = b
      BY <1>3, <1>7 DEF RoomInv, PipesAreSound
    <2>3. QED
      BY <1>3, <2>1, <2>2 DEF RoomInv, PipesAreSound
  <1>15. UnitsAreSound(n)
    <2>1. /\ In(m.producers, {"open"}) \subseteq In(m.producers, {"making", "open"})
          /\ In(m.bridges, {"open"}) \subseteq In(m.bridges, {"making", "open"})
          /\ In(m.bridges, {"open"}) \subseteq In(n.bridges, {"making", "open", "gone"})
          /\ In(m.consumers, {"open"}) \subseteq In(m.consumers, {"piping", "making", "open"})
      BY <1>4, <1>6 DEF In, Nothing
    <2>2. Stays(m, n)
      BY <1>3, <1>7, <1>8, <1>9, <2>1 DEF Stays
    <2>3. QED
      BY <1>2, <2>2, UnitsStay DEF RoomInv
  <1>16. QED
    BY <1>1, <1>3, <1>10, <1>11, <1>12, <1>13, <1>14, <1>15 DEF RoomInv

-----------------------------------------------------------------------------
(* Closing transports, and all that is on them.                            *)

LEMMA OnRoom ==
    ASSUME NEW m, m \in Room, NEW T
    PROVE  /\ \A x \in On(m.producers, {"open"}, T) :
                  x \in In(m.producers, {"open"}) /\ m.producers[x].transport \in T
           /\ \A x \in In(m.producers, {"open"}) :
                  m.producers[x].transport \in T => x \in On(m.producers, {"open"}, T)
           /\ \A c \in On(m.consumers, {"open"}, T) :
                  c \in In(m.consumers, {"open"}) /\ m.consumers[c].transport \in T
           /\ \A c \in In(m.consumers, {"open"}) :
                  m.consumers[c].transport \in T => c \in On(m.consumers, {"open"}, T)
  BY DEF On

\* Before the tracks and the subscriptions on them: transports, peers, and whatever
\* was still being made.
LEMMA Quieting ==
    ASSUME NEW m, m \in Room, NEW T, T \subseteq Transports,
           NEW n, n = Quieted(m, T)
    PROVE  /\ n \in Room
           /\ \A t \in Transports : n.transports[t] = IF t \in T THEN Nothing ELSE m.transports[t]
           /\ \A p \in Peers :
                  /\ n.peers[p].here = m.peers[p].here /\ n.peers[p].session = m.peers[p].session
                  /\ n.peers[p].send = IF m.peers[p].send \in T THEN None ELSE m.peers[p].send
                  /\ n.peers[p].recv = IF m.peers[p].recv \in T THEN None ELSE m.peers[p].recv
           /\ \A x \in Producers :
                  n.producers[x] = IF m.producers[x].state = "making" /\ m.producers[x].transport \in T
                                   THEN Nothing ELSE m.producers[x]
           /\ \A c \in Consumers :
                  n.consumers[c] = IF /\ m.consumers[c].state \in {"piping", "making"}
                                      /\ m.consumers[c].transport \in T
                                   THEN Nothing ELSE m.consumers[c]
           /\ n.bridges = m.bridges /\ n.onAir = m.onAir
           /\ n.pipes = m.pipes /\ n.units = m.units
  <1> DEFINE A == [t \in Transports |-> IF t \in T THEN Nothing ELSE m.transports[t]]
             S(p) == IF m.peers[p].send \in T THEN None ELSE m.peers[p].send
             R(p) == IF m.peers[p].recv \in T THEN None ELSE m.peers[p].recv
             P == [p \in Peers |-> Without(m.peers[p], T)]
             X == [x \in Producers |->
                      IF x \in On(m.producers, {"making"}, T) THEN Nothing ELSE m.producers[x]]
             C == [c \in Consumers |->
                      IF c \in On(m.consumers, {"piping", "making"}, T)
                      THEN Nothing ELSE m.consumers[c]]
  <1>1. n = [m EXCEPT !.transports = A, !.peers = P, !.producers = X, !.consumers = C]
    BY DEF Quieted
  <1>2. A \in [Transports -> {Nothing} \cup Transport]
    BY DEF Room
  <1>3. ASSUME NEW p \in Peers
        PROVE  /\ P[p] \in Peer /\ P[p].here = m.peers[p].here /\ P[p].session = m.peers[p].session
               /\ P[p].send = S(p) /\ P[p].recv = R(p)
    <2>1. m.peers[p] \in Peer
      BY DEF Room
    <2>2. S(p) \in Transports \cup {None} /\ R(p) \in Transports \cup {None}
      BY <2>1 DEF Peer
    <2>3. P[p] = [m.peers[p] EXCEPT !.send = S(p), !.recv = R(p)]
      BY DEF Without
    <2> HIDE DEF P, S, R
    <2>4. QED
      BY <2>1, <2>2, <2>3 DEF Peer
  <1>4. P \in [Peers -> Peer]
    BY <1>3
  <1>5. X \in [Producers -> {Nothing} \cup Producer] /\ C \in [Consumers -> {Nothing} \cup Consumer]
    BY DEF Room
  <1>6. /\ \A t \in Transports : A[t] = IF t \in T THEN Nothing ELSE m.transports[t]
        /\ \A x \in Producers :
                  X[x] = IF m.producers[x].state = "making" /\ m.producers[x].transport \in T
                         THEN Nothing ELSE m.producers[x]
        /\ \A c \in Consumers :
                  C[c] = IF /\ m.consumers[c].state \in {"piping", "making"}
                            /\ m.consumers[c].transport \in T
                         THEN Nothing ELSE m.consumers[c]
    BY DEF On, In, Room
  <1> HIDE DEF A, P, X, C
  <1>7. /\ n \in Room
        /\ n.transports = A /\ n.peers = P /\ n.producers = X /\ n.consumers = C
        /\ n.bridges = m.bridges /\ n.onAir = m.onAir
        /\ n.pipes = m.pipes /\ n.units = m.units
    BY <1>1, <1>2, <1>4, <1>5 DEF Room
  <1>8. QED
    BY <1>3, <1>6, <1>7

LEMMA ClosingTransports ==
    ASSUME NEW m, RoomInv(m), NEW T, T \subseteq Transports,
           NEW n, n = CloseTransports(m, T)
    PROVE  LET X == On(m.producers, {"open"}, T)
               C == On(m.consumers, {"open"}, T)
           IN
           /\ n \in Room
           /\ \A t \in Transports : n.transports[t] = IF t \in T THEN Nothing ELSE m.transports[t]
           /\ \A p \in Peers :
                  /\ n.peers[p].here = m.peers[p].here /\ n.peers[p].session = m.peers[p].session
                  /\ n.peers[p].send = IF m.peers[p].send \in T THEN None ELSE m.peers[p].send
                  /\ n.peers[p].recv = IF m.peers[p].recv \in T THEN None ELSE m.peers[p].recv
           /\ \A x \in Producers :
                  n.producers[x] =
                      IF m.producers[x].state = "making" /\ m.producers[x].transport \in T
                      THEN Nothing
                      ELSE IF x \in X THEN [m.producers[x] EXCEPT !.state = "gone"]
                      ELSE m.producers[x]
           /\ \A c \in Consumers :
                  n.consumers[c] = IF /\ m.consumers[c].state \in {"piping", "making", "open"}
                                      /\ m.consumers[c].transport \in T
                                   THEN Nothing ELSE m.consumers[c]
           /\ n.bridges = m.bridges /\ n.onAir = m.onAir \ X
           /\ \A w \in Workers, x \in Producers :
                  n.pipes[<<w, x>>] = IF x \in X THEN None ELSE m.pipes[<<w, x>>]
           /\ \A w \in Workers :
                  n.units[w] = m.units[w] - ConsumerUnits(m, C, w) - ProducerUnits(m, X, w)
  <1> DEFINE X == On(m.producers, {"open"}, T)
             C == On(m.consumers, {"open"}, T)
  <1>0. m \in Room
    BY DEF RoomInv
  <1>1. PICK q : q = Quieted(m, T)
    OBVIOUS
  <1>2. PICK r : r = CloseConsumers(q, C)
    OBVIOUS
  <1>3. n = CloseProducers(r, X)
    BY <1>1, <1>2 DEF CloseTransports
  <1>4. /\ q \in Room
        /\ \A t \in Transports : q.transports[t] = IF t \in T THEN Nothing ELSE m.transports[t]
        /\ \A p \in Peers :
               /\ q.peers[p].here = m.peers[p].here /\ q.peers[p].session = m.peers[p].session
               /\ q.peers[p].send = IF m.peers[p].send \in T THEN None ELSE m.peers[p].send
               /\ q.peers[p].recv = IF m.peers[p].recv \in T THEN None ELSE m.peers[p].recv
        /\ \A x \in Producers :
               q.producers[x] = IF m.producers[x].state = "making" /\ m.producers[x].transport \in T
                                THEN Nothing ELSE m.producers[x]
        /\ \A c \in Consumers :
               q.consumers[c] = IF /\ m.consumers[c].state \in {"piping", "making"}
                                   /\ m.consumers[c].transport \in T
                                THEN Nothing ELSE m.consumers[c]
        /\ q.bridges = m.bridges /\ q.onAir = m.onAir
        /\ q.pipes = m.pipes /\ q.units = m.units
    BY <1>0, <1>1, Quieting
  <1>5. X \subseteq In(m.producers, {"open"}) /\ C \subseteq In(m.consumers, {"open"})
    BY DEF On
  <1>6. X \subseteq In(q.producers, {"open"}) /\ C \subseteq In(q.consumers, {"open"})
    BY <1>0, <1>4, <1>5 DEF In, Room
  <1>c. \A c \in Consumers : c \in C <=> (m.consumers[c].state = "open" /\ m.consumers[c].transport \in T)
    BY <1>0 DEF On, In, Room
  <1> HIDE DEF X, C
  <1>7. /\ r \in Room
        /\ r.peers = q.peers /\ r.transports = q.transports
        /\ r.producers = q.producers /\ r.bridges = q.bridges
        /\ r.onAir = q.onAir /\ r.pipes = q.pipes
        /\ \A c \in Consumers : r.consumers[c] = IF c \in C THEN Nothing ELSE q.consumers[c]
        /\ \A w \in Workers : r.units[w] = q.units[w] - ConsumerUnits(q, C, w)
    BY <1>2, <1>4, <1>6, ClosingConsumers
  <1>8. /\ n \in Room
        /\ n.peers = r.peers /\ n.transports = r.transports
        /\ n.consumers = r.consumers /\ n.bridges = r.bridges
        /\ \A x \in Producers :
               n.producers[x] = IF x \in X THEN [r.producers[x] EXCEPT !.state = "gone"]
                                ELSE r.producers[x]
        /\ n.onAir = r.onAir \ X
        /\ \A w \in Workers, x \in Producers :
               n.pipes[<<w, x>>] = IF x \in X THEN None ELSE r.pipes[<<w, x>>]
        /\ \A w \in Workers : n.units[w] = r.units[w] - ProducerUnits(r, X, w)
    BY <1>3, <1>6, <1>7, ClosingProducers
  <1>9. \A x \in In(m.producers, {"open", "gone"}) : q.producers[x] = m.producers[x]
    BY <1>0, <1>4 DEF In, Room
  <1>10. \A w : ConsumerUnits(q, C, w) = ConsumerUnits(m, C, w)
    <2>1. \A c \in C : /\ q.consumers[c] = m.consumers[c]
                       /\ q.producers[m.consumers[c].source] = m.producers[m.consumers[c].source]
      <3> SUFFICES ASSUME NEW c \in C
                   PROVE  /\ q.consumers[c] = m.consumers[c]
                          /\ q.producers[m.consumers[c].source] = m.producers[m.consumers[c].source]
        OBVIOUS
      <3>1. c \in Consumers /\ m.consumers[c] \in Consumer /\ m.consumers[c].state = "open"
        BY <1>0, <1>5, InRoom
      <3>2. c \in In(m.consumers, {"piping", "making", "open"})
        BY <1>0, <3>1 DEF In, Room
      <3>3. m.consumers[c].source \in Producers
              /\ m.producers[m.consumers[c].source].state \in {"open", "gone"}
        BY <3>1, <3>2 DEF RoomInv, ConsumersAreSound, Consumer
      <3>4. QED
        BY <1>4, <3>1, <3>3
    <2>2. QED
      BY <2>1, ConsumersWeighTheSame
  <1>11. \A w : ProducerUnits(r, X, w) = ProducerUnits(m, X, w)
    <2>1. \A x \in X : r.producers[x] = m.producers[x]
      BY <1>5, <1>7, <1>9 DEF In
    <2>2. QED
      BY <2>1, ProducersWeighTheSame
  <1>12. \A w \in Workers :
             n.units[w] = m.units[w] - ConsumerUnits(m, C, w) - ProducerUnits(m, X, w)
    BY <1>4, <1>7, <1>8, <1>10, <1>11
  <1>13. \A x \in X : x \in Producers /\ m.producers[x].state = "open"
    BY <1>0, <1>5, InRoom
  <1>14. \A x \in Producers :
             n.producers[x] =
                 IF m.producers[x].state = "making" /\ m.producers[x].transport \in T
                 THEN Nothing
                 ELSE IF x \in X THEN [m.producers[x] EXCEPT !.state = "gone"]
                 ELSE m.producers[x]
    <2> SUFFICES ASSUME NEW x \in Producers
                 PROVE  n.producers[x] =
                            IF m.producers[x].state = "making" /\ m.producers[x].transport \in T
                            THEN Nothing
                            ELSE IF x \in X THEN [m.producers[x] EXCEPT !.state = "gone"]
                            ELSE m.producers[x]
      OBVIOUS
    <2>1. CASE x \in X
      <3>1. q.producers[x] = m.producers[x] /\ m.producers[x].state # "making"
        BY <1>4, <1>13, <2>1
      <3>2. n.producers[x] = [m.producers[x] EXCEPT !.state = "gone"]
        BY <1>7, <1>8, <2>1, <3>1
      <3>3. QED
        BY <2>1, <3>1, <3>2
    <2>2. CASE x \notin X
      <3>1. n.producers[x] = q.producers[x]
        BY <1>7, <1>8, <2>2
      <3>2. q.producers[x] = IF m.producers[x].state = "making" /\ m.producers[x].transport \in T
                             THEN Nothing ELSE m.producers[x]
        BY <1>4
      <3>3. QED
        BY <2>2, <3>1, <3>2
    <2>3. QED
      BY <2>1, <2>2
  <1>15. \A c \in Consumers :
             n.consumers[c] = IF /\ m.consumers[c].state \in {"piping", "making", "open"}
                                 /\ m.consumers[c].transport \in T
                              THEN Nothing ELSE m.consumers[c]
    BY <1>4, <1>7, <1>8, <1>c
  <1>16. QED
    BY <1>4, <1>7, <1>8, <1>12, <1>14, <1>15 DEF X, C

LEMMA CloseTransportsInv ==
    ASSUME NEW m, RoomInv(m), NEW T, T \subseteq Transports
    PROVE  RoomInv(CloseTransports(m, T))
  <1> DEFINE X == On(m.producers, {"open"}, T)
             C == On(m.consumers, {"open"}, T)
  <1>0. m \in Room
    BY DEF RoomInv
  <1>1. PICK n : n = CloseTransports(m, T)
    OBVIOUS
  <1>2. /\ n \in Room
        /\ \A t \in Transports : n.transports[t] = IF t \in T THEN Nothing ELSE m.transports[t]
        /\ \A p \in Peers :
               /\ n.peers[p].here = m.peers[p].here /\ n.peers[p].session = m.peers[p].session
               /\ n.peers[p].send = IF m.peers[p].send \in T THEN None ELSE m.peers[p].send
               /\ n.peers[p].recv = IF m.peers[p].recv \in T THEN None ELSE m.peers[p].recv
        /\ n.bridges = m.bridges /\ n.onAir = m.onAir \ X
    BY <1>1, ClosingTransports
  <1>3. \A x \in Producers :
            n.producers[x] =
                IF m.producers[x].state = "making" /\ m.producers[x].transport \in T
                THEN Nothing
                ELSE IF x \in X THEN [m.producers[x] EXCEPT !.state = "gone"]
                ELSE m.producers[x]
    BY <1>1, ClosingTransports
  <1>4. \A c \in Consumers :
            n.consumers[c] = IF /\ m.consumers[c].state \in {"piping", "making", "open"}
                                /\ m.consumers[c].transport \in T
                             THEN Nothing ELSE m.consumers[c]
    BY <1>1, ClosingTransports
  <1>5. \A w \in Workers, x \in Producers :
            n.pipes[<<w, x>>] = IF x \in X THEN None ELSE m.pipes[<<w, x>>]
    <2> SUFFICES ASSUME NEW w \in Workers, NEW x \in Producers
                 PROVE  n.pipes[<<w, x>>] = IF x \in X THEN None ELSE m.pipes[<<w, x>>]
      OBVIOUS
    <2>1. QED
      BY <1>1, ClosingTransports
  <1>6. \A w \in Workers :
            n.units[w] = m.units[w] - ConsumerUnits(m, C, w) - ProducerUnits(m, X, w)
    BY <1>1, ClosingTransports
  <1>7. /\ DOMAIN m.producers = Producers /\ DOMAIN n.producers = Producers
        /\ DOMAIN m.consumers = Consumers /\ DOMAIN n.consumers = Consumers
        /\ DOMAIN m.transports = Transports /\ DOMAIN n.transports = Transports
    BY <1>0, <1>2 DEF Room
  <1>8. \A x \in Producers : x \in X <=> (m.producers[x].state = "open" /\ m.producers[x].transport \in T)
    BY <1>7 DEF On, In
  <1>x. X \subseteq In(m.producers, {"open"}) /\ C \subseteq In(m.consumers, {"open"})
    BY DEF On
  <1>c. \A c \in Consumers : c \in C <=> (m.consumers[c].state = "open" /\ m.consumers[c].transport \in T)
    BY <1>7 DEF On, In
  <1> HIDE DEF X, C
  \* What became of each track.
  <1>9. \A x \in Producers :
            /\ m.producers[x].state \in {"making", "open"} /\ m.producers[x].transport \notin T =>
                   n.producers[x] = m.producers[x]
            /\ n.producers[x].state \in {"making", "open"} =>
                   n.producers[x] = m.producers[x] /\ m.producers[x].transport \notin T
            /\ m.producers[x].state \in {"open", "gone"} =>
                   /\ n.producers[x].state \in {"open", "gone"}
                   /\ n.producers[x].owner = m.producers[x].owner
                   /\ n.producers[x].kind = m.producers[x].kind
    <2> SUFFICES ASSUME NEW x \in Producers
                 PROVE
            /\ m.producers[x].state \in {"making", "open"} /\ m.producers[x].transport \notin T =>
                   n.producers[x] = m.producers[x]
            /\ n.producers[x].state \in {"making", "open"} =>
                   n.producers[x] = m.producers[x] /\ m.producers[x].transport \notin T
            /\ m.producers[x].state \in {"open", "gone"} =>
                   /\ n.producers[x].state \in {"open", "gone"}
                   /\ n.producers[x].owner = m.producers[x].owner
                   /\ n.producers[x].kind = m.producers[x].kind
      OBVIOUS
    <2>1. CASE x \in X
      <3>1. /\ m.producers[x] \in Producer /\ m.producers[x].state = "open"
            /\ m.producers[x].transport \in T
        BY <1>0, <1>8, <1>x, <2>1, InRoom
      <3>2. n.producers[x] = [m.producers[x] EXCEPT !.state = "gone"]
        BY <1>3, <2>1, <3>1
      <3>3. /\ n.producers[x].state = "gone" /\ n.producers[x].owner = m.producers[x].owner
            /\ n.producers[x].kind = m.producers[x].kind
        BY <3>1, <3>2 DEF Producer
      <3>4. QED
        BY <3>1, <3>3
    <2>2. CASE m.producers[x].state = "making" /\ m.producers[x].transport \in T
      <3>1. n.producers[x] = Nothing
        BY <1>3, <2>2
      <3>2. QED
        BY <2>2, <3>1 DEF Nothing
    <2>3. CASE x \notin X /\ ~(m.producers[x].state = "making" /\ m.producers[x].transport \in T)
      <3>1. n.producers[x] = m.producers[x]
        BY <1>3, <2>3
      <3>2. QED
        BY <1>8, <2>3, <3>1
    <2>4. QED
      BY <2>1, <2>2, <2>3
  <1>10. PeersAreSound(n)
    <2> SUFFICES ASSUME NEW p \in Peers
                 PROVE  /\ n.peers[p].session <= MaxSessions[p]
                        /\ ~n.peers[p].here => n.peers[p].send = None /\ n.peers[p].recv = None
                        /\ n.peers[p].send # None => n.transports[n.peers[p].send].state = "open"
                        /\ n.peers[p].recv # None => n.transports[n.peers[p].recv].state = "open"
      BY DEF PeersAreSound
    <2>1. /\ m.peers[p].session <= MaxSessions[p]
          /\ ~m.peers[p].here => m.peers[p].send = None /\ m.peers[p].recv = None
          /\ m.peers[p].send # None => m.transports[m.peers[p].send].state = "open"
          /\ m.peers[p].recv # None => m.transports[m.peers[p].recv].state = "open"
      BY DEF RoomInv, PeersAreSound
    <2>2. m.peers[p].send \in Transports \cup {None} /\ m.peers[p].recv \in Transports \cup {None}
      BY <1>0 DEF Room, Peer
    <2>3. QED
      BY <1>2, <2>1, <2>2
  <1>11. TransportsAreSound(n)
    <2> SUFFICES ASSUME NEW t \in In(n.transports, {"open"})
                 PROVE  t = IF n.transports[t].direction = "send"
                            THEN n.peers[n.transports[t].owner].send
                            ELSE n.peers[n.transports[t].owner].recv
      BY DEF TransportsAreSound
    <2>1. /\ t \in Transports /\ t \notin T /\ n.transports[t] = m.transports[t]
          /\ t \in In(m.transports, {"open"})
      BY <1>2, <1>7 DEF In, Nothing
    <2>2. m.transports[t].owner \in Peers
      BY <1>0, <2>1, InRoom DEF Transport
    <2>3. t = IF m.transports[t].direction = "send"
              THEN m.peers[m.transports[t].owner].send
              ELSE m.peers[m.transports[t].owner].recv
      BY <2>1 DEF RoomInv, TransportsAreSound
    <2>4. QED
      BY <1>2, <2>1, <2>2, <2>3
  <1>12. /\ \A x \in In(n.producers, {"making", "open"}) :
                /\ x \in In(m.producers, {"making", "open"})
                /\ n.producers[x] = m.producers[x] /\ m.producers[x].transport \notin T
         /\ In(n.producers, {"open"}) = In(m.producers, {"open"}) \ X
         /\ \A x \in In(n.producers, {"open"}) : n.producers[x] = m.producers[x]
    BY <1>7, <1>8, <1>9 DEF In
  <1>13. ProducersAreSound(n)
    <2>1. ASSUME NEW x \in In(n.producers, {"making", "open"})
          PROVE  n.peers[n.producers[x].owner].send = n.producers[x].transport
      <3>1. m.producers[x].owner \in Peers
        BY <1>0, <1>12, InRoom DEF Producer
      <3>2. m.peers[m.producers[x].owner].send = m.producers[x].transport
        BY <1>12 DEF RoomInv, ProducersAreSound
      <3>3. QED
        BY <1>2, <1>12, <3>1, <3>2
    <2>2. n.onAir = In(n.producers, {"open"})
      BY <1>2, <1>12 DEF RoomInv, ProducersAreSound
    <2>3. \A x, y \in In(n.producers, {"open"}) :
              n.producers[x].owner = n.producers[y].owner
                /\ n.producers[x].kind = n.producers[y].kind => x = y
      BY <1>12 DEF RoomInv, ProducersAreSound
    <2>4. QED
      BY <2>1, <2>2, <2>3 DEF ProducersAreSound
  <1>14. \A c \in In(n.consumers, {"piping", "making", "open"}) :
             /\ c \in In(m.consumers, {"piping", "making", "open"})
             /\ n.consumers[c] = m.consumers[c] /\ m.consumers[c].transport \notin T
    BY <1>4, <1>7 DEF In, Nothing
  <1>s. \A c \in In(m.consumers, {"piping", "making", "open"}) :
            /\ m.consumers[c].source \in Producers /\ m.consumers[c].owner \in Peers
            /\ m.producers[m.consumers[c].source].state \in {"open", "gone"}
    BY <1>0, InRoom DEF RoomInv, ConsumersAreSound, Consumer
  <1>15. ConsumersAreSound(n)
    <2> SUFFICES ASSUME NEW c \in In(n.consumers, {"piping", "making", "open"})
                 PROVE  /\ n.peers[n.consumers[c].owner].recv = n.consumers[c].transport
                        /\ n.producers[n.consumers[c].source].state \in {"open", "gone"}
      BY DEF ConsumersAreSound
    <2>1. m.peers[m.consumers[c].owner].recv = m.consumers[c].transport
      BY <1>14 DEF RoomInv, ConsumersAreSound
    <2>2. n.peers[n.consumers[c].owner].recv = n.consumers[c].transport
      BY <1>2, <1>14, <1>s, <2>1
    <2>3. QED
      BY <1>9, <1>14, <1>s, <2>2
  <1>b. \A b \in In(m.bridges, {"making", "open", "gone"}) :
            /\ m.bridges[b].source \in Producers
            /\ m.producers[m.bridges[b].source].state \in {"open", "gone"}
    BY <1>0, InRoom DEF RoomInv, BridgesAreSound, Bridge
  <1>16. BridgesAreSound(n)
    BY <1>2, <1>9, <1>b DEF BridgesAreSound
  <1>17. PipesAreSound(n)
    <2>1. ASSUME NEW w \in Workers, NEW x \in Producers, n.pipes[<<w, x>>] # None
          PROVE  /\ x \in n.onAir /\ n.pipes[<<w, x>>] = m.pipes[<<w, x>>]
                 /\ m.pipes[<<w, x>>] # None
      BY <1>2, <1>5, <2>1 DEF RoomInv, PipesAreSound
    <2>2. ASSUME NEW b \in In(m.bridges, {"making", "open"}),
                 m.bridges[b].source \in n.onAir, ~m.bridges[b].cut
          PROVE  n.pipes[<<m.bridges[b].to, m.bridges[b].source>>] = b
      <3>1. m.bridges[b].to \in Workers /\ m.bridges[b].source \in Producers
        BY <1>0, InRoom DEF Bridge
      <3>2. m.pipes[<<m.bridges[b].to, m.bridges[b].source>>] = b
        BY <1>2, <2>2 DEF RoomInv, PipesAreSound
      <3>3. QED
        BY <1>2, <1>5, <2>2, <3>1, <3>2
    <2>3. QED
      BY <1>2, <2>1, <2>2 DEF RoomInv, PipesAreSound
  <1>18. UnitsAreSound(n)
    <2>1. In(n.consumers, {"open"}) = In(m.consumers, {"open"}) \ C
      BY <1>4, <1>7, <1>c DEF In, Nothing
    <2>2. \A c \in In(n.consumers, {"open"}) :
              /\ n.consumers[c].owner = m.consumers[c].owner
              /\ n.producers[n.consumers[c].source].kind = m.producers[m.consumers[c].source].kind
      <3>1. In(n.consumers, {"open"}) \subseteq In(n.consumers, {"piping", "making", "open"})
        BY DEF In
      <3>2. QED
        BY <1>9, <1>14, <1>s, <3>1
    <2>3. \A b \in In(n.bridges, {"open"}) :
             /\ n.bridges[b] = m.bridges[b]
             /\ n.producers[m.bridges[b].source].owner = m.producers[m.bridges[b].source].owner
             /\ n.producers[m.bridges[b].source].kind = m.producers[m.bridges[b].source].kind
      <3>1. In(n.bridges, {"open"}) \subseteq In(m.bridges, {"making", "open", "gone"})
        BY <1>2 DEF In
      <3>2. QED
        BY <1>2, <1>9, <1>b, <3>1
    <2>4. \A w \in Workers : n.units[w] = m.units[w] - ProducerUnits(m, X, w)
                                            - ConsumerUnits(m, C, w) - BridgeUnits(m, {}, w)
      <3>1. IsFiniteSet(X) /\ IsFiniteSet(C)
        BY <1>0, <1>x, OpenAreFinite, FS_Subset
      <3>2. \A w : /\ ProducerUnits(m, X, w) \in Nat /\ ConsumerUnits(m, C, w) \in Nat
                   /\ BridgeUnits(m, {}, w) = 0
        BY <3>1, UnitsAreNumbers, NothingWeighs
      <3>3. \A w \in Workers : m.units[w] \in Int
        BY <1>0 DEF Room
      <3>4. QED
        BY <1>6, <3>2, <3>3
    <2>5. Closes(m, n, X, C, {})
      <3>1. /\ In(n.bridges, {"open"}) = In(m.bridges, {"open"}) \ {}
            /\ {} \subseteq In(m.bridges, {"open"})
        BY <1>2
      <3>2. QED
        BY <1>12, <1>x, <2>1, <2>2, <2>3, <2>4, <3>1 DEF Closes
    <2>6. QED
      BY <1>0, <2>5, UnitsFollowClosing DEF RoomInv
  <1>19. QED
    BY <1>1, <1>2, <1>10, <1>11, <1>13, <1>15, <1>16, <1>17, <1>18 DEF RoomInv

-----------------------------------------------------------------------------
(* Closing a Router nobody lives on.                                       *)

\* The bridges that end at Worker w.
Crossing(m, states, w) ==
    {b \in In(m.bridges, states) : w \in {m.bridges[b].to, OwnerHome(m, m.bridges[b].source)}}

LEMMA CrossingInRoom ==
    ASSUME NEW m, m \in Room, NEW states, "none" \notin states, NEW w, NEW b \in Crossing(m, states, w)
    PROVE  /\ b \in Bridges /\ m.bridges[b] \in Bridge
           /\ m.bridges[b].state \in states /\ b \in In(m.bridges, states)
  <1>1. b \in In(m.bridges, states)
    BY DEF Crossing
  <1>2. b \in Bridges /\ m.bridges[b].state \in states
    BY <1>1 DEF In, Room
  <1>3. m.bridges[b] # Nothing
    BY <1>2 DEF Nothing
  <1>4. QED
    BY <1>1, <1>2, <1>3 DEF Room

LEMMA ClosingRouter ==
    ASSUME NEW m, m \in Room, NEW w \in Workers, NEW n, n = CloseRouter(m, w)
    PROVE  /\ n \in Room
           /\ n.peers = m.peers /\ n.producers = m.producers /\ n.onAir = m.onAir
           /\ \A t \in Transports :
                  \/ n.transports[t] = m.transports[t]
                  \/ m.transports[t].state = "making" /\ n.transports[t] = Nothing
           /\ \A b \in Bridges :
                  n.bridges[b] =
                      IF b \in Crossing(m, {"open"}, w) THEN [m.bridges[b] EXCEPT !.state = "gone"]
                      ELSE IF b \in Crossing(m, {"making"}, w) THEN [m.bridges[b] EXCEPT !.cut = TRUE]
                      ELSE m.bridges[b]
           /\ \A k \in Workers \X Producers :
                  n.pipes[k] = IF k[1] = w \/ m.pipes[k] \in Crossing(m, {"open"}, w) THEN None
                               ELSE m.pipes[k]
           /\ \A c \in Consumers :
                  \/ n.consumers[c] = m.consumers[c]
                  \/ m.consumers[c].state = "piping" /\ n.consumers[c] = Nothing
           /\ \A v \in Workers :
                  n.units[v] = m.units[v] - BridgeUnits(m, Crossing(m, {"open"}, w), v)
  <1> DEFINE B == Crossing(m, {"open"}, w)
             asked == {t \in In(m.transports, {"making"}) : Home[m.transports[t].owner] = w}
             A == [t \in Transports |-> IF t \in asked THEN Nothing ELSE m.transports[t]]
             D == [b \in Bridges |->
                      IF m.bridges[b].state = "making"
                           /\ w \in {m.bridges[b].to, OwnerHome(m, m.bridges[b].source)}
                      THEN [m.bridges[b] EXCEPT !.cut = TRUE] ELSE m.bridges[b]]
             Q == [k \in Workers \X Producers |-> IF k[1] = w THEN None ELSE m.pipes[k]]
  <1>1. PICK q : q = [m EXCEPT !.transports = A, !.bridges = D, !.pipes = Q]
    OBVIOUS
  <1>2. n = CloseBridges(q, B)
    BY <1>1 DEF CloseRouter, Crossing
  <1>3. A \in [Transports -> {Nothing} \cup Transport]
    BY DEF Room
  <1>4. \A b \in Bridges :
            D[b] = IF b \in Crossing(m, {"making"}, w) THEN [m.bridges[b] EXCEPT !.cut = TRUE]
                   ELSE m.bridges[b]
    BY DEF Crossing, In, Room
  <1>m. \A b \in Bridges : b \in Crossing(m, {"making"}, w) =>
            m.bridges[b] \in Bridge /\ m.bridges[b].state = "making"
    BY CrossingInRoom
  <1>5. D \in [Bridges -> {Nothing} \cup Bridge]
    <2>1. ASSUME NEW b \in Bridges
          PROVE  D[b] \in {Nothing} \cup Bridge
      <3>1. m.bridges[b] \in {Nothing} \cup Bridge
        BY DEF Room
      <3>2. CASE b \in Crossing(m, {"making"}, w)
        <4>1. m.bridges[b] \in Bridge
          BY <1>m, <3>2
        <4>2. [m.bridges[b] EXCEPT !.cut = TRUE] \in Bridge
          BY <4>1 DEF Bridge
        <4>3. D[b] = [m.bridges[b] EXCEPT !.cut = TRUE]
          BY <1>4, <3>2
        <4>4. QED
          BY <4>2, <4>3
      <3>3. CASE b \notin Crossing(m, {"making"}, w)
        <4>1. D[b] = m.bridges[b]
          BY <1>4, <3>3
        <4>2. QED
          BY <3>1, <4>1
      <3>4. QED
        BY <3>2, <3>3
    <2>2. QED
      BY <2>1
  <1>6. Q \in [Workers \X Producers -> Bridges \cup {None}]
    BY DEF Room
  <1>7. /\ \A t \in Transports :
               \/ A[t] = m.transports[t]
               \/ m.transports[t].state = "making" /\ A[t] = Nothing
        /\ \A k \in Workers \X Producers : Q[k] = IF k[1] = w THEN None ELSE m.pipes[k]
    BY DEF In
  <1> HIDE DEF A, D, Q
  <1>8. /\ q \in Room
        /\ q.peers = m.peers /\ q.producers = m.producers /\ q.onAir = m.onAir
        /\ q.consumers = m.consumers /\ q.units = m.units
        /\ q.transports = A /\ q.bridges = D /\ q.pipes = Q
    BY <1>1, <1>3, <1>5, <1>6 DEF Room
  <1>9. \A b \in B : /\ b \in Bridges /\ m.bridges[b] \in Bridge /\ m.bridges[b].state = "open"
                     /\ q.bridges[b] = m.bridges[b]
    <2>1. \A b \in B : b \in Bridges /\ m.bridges[b] \in Bridge /\ m.bridges[b].state = "open"
      BY InRoom DEF Crossing
    <2>2. \A b \in B : b \notin Crossing(m, {"making"}, w)
      BY <1>m, <2>1
    <2> HIDE DEF B
    <2>3. QED
      BY <1>4, <1>8, <2>1, <2>2
  <1> HIDE DEF B
  <1>10. B \subseteq In(q.bridges, {"open"})
    BY <1>8, <1>9 DEF In, Room
  <1>11. /\ n \in Room
         /\ n.peers = q.peers /\ n.transports = q.transports
         /\ n.producers = q.producers /\ n.onAir = q.onAir
         /\ \A b \in Bridges :
                n.bridges[b] = IF b \in B THEN [q.bridges[b] EXCEPT !.state = "gone"]
                               ELSE q.bridges[b]
         /\ \A k \in Workers \X Producers :
                n.pipes[k] = IF q.pipes[k] \in B THEN None ELSE q.pipes[k]
         /\ \A c \in Consumers :
                n.consumers[c] = IF q.consumers[c].state = "piping" /\ q.consumers[c].bridge \in B
                                 THEN Nothing ELSE q.consumers[c]
         /\ \A v \in Workers : n.units[v] = q.units[v] - BridgeUnits(q, B, v)
    BY <1>2, <1>8, <1>10, ClosingBridges
  <1>12. \A v : BridgeUnits(q, B, v) = BridgeUnits(m, B, v)
    BY <1>8, <1>9, BridgesWeighTheSame
  <1>13. \A b \in Bridges :
             n.bridges[b] = IF b \in B THEN [m.bridges[b] EXCEPT !.state = "gone"]
                            ELSE IF b \in Crossing(m, {"making"}, w) THEN [m.bridges[b] EXCEPT !.cut = TRUE]
                            ELSE m.bridges[b]
    <2> SUFFICES ASSUME NEW b \in Bridges
                 PROVE  n.bridges[b] =
                            IF b \in B THEN [m.bridges[b] EXCEPT !.state = "gone"]
                            ELSE IF b \in Crossing(m, {"making"}, w) THEN [m.bridges[b] EXCEPT !.cut = TRUE]
                            ELSE m.bridges[b]
      OBVIOUS
    <2>1. CASE b \in B
      BY <1>9, <1>11, <2>1
    <2>2. CASE b \notin B
      BY <1>4, <1>8, <1>11, <2>2
    <2>3. QED
      BY <2>1, <2>2
  <1>14. \A k \in Workers \X Producers :
             n.pipes[k] = IF k[1] = w \/ m.pipes[k] \in B THEN None ELSE m.pipes[k]
    <2>1. None \notin B
      BY <1>9, MediaAssumption
    <2>2. QED
      BY <1>7, <1>8, <1>11, <2>1
  <1>15. QED
    BY <1>7, <1>8, <1>11, <1>12, <1>13, <1>14 DEF B

\* No track comes from a Router nobody lives on.
LEMMA NoTrackFromAway ==
    ASSUME NEW m, RoomInv(m), NEW w, ~RouterIsOpen(m, w), NEW x \in m.onAir
    PROVE  OwnerHome(m, x) # w
  <1>1. x \in In(m.producers, {"open"}) /\ x \in In(m.producers, {"making", "open"})
    BY DEF RoomInv, ProducersAreSound, In
  <1>2. m.producers[x] \in Producer
    BY <1>1, InRoom DEF RoomInv
  <1>3. /\ m.producers[x].owner \in Peers
        /\ m.peers[m.producers[x].owner].send = m.producers[x].transport
        /\ m.producers[x].transport # None
    BY <1>1, <1>2, MediaAssumption DEF RoomInv, ProducersAreSound, Producer
  <1>4. m.peers[m.producers[x].owner].here
    BY <1>3 DEF RoomInv, PeersAreSound, Room, Peer
  <1>5. QED
    BY <1>3, <1>4 DEF RouterIsOpen, OwnerHome

LEMMA CloseRouterInv ==
    ASSUME NEW m, RoomInv(m), NEW w \in Workers, ~RouterIsOpen(m, w)
    PROVE  RoomInv(CloseRouter(m, w))
  <1> DEFINE B == Crossing(m, {"open"}, w)
             A == Crossing(m, {"making"}, w)
  <1>0. m \in Room
    BY DEF RoomInv
  <1>1. PICK n : n = CloseRouter(m, w)
    OBVIOUS
  <1>2. /\ n \in Room
        /\ n.peers = m.peers /\ n.producers = m.producers /\ n.onAir = m.onAir
        /\ \A t \in Transports :
               \/ n.transports[t] = m.transports[t]
               \/ m.transports[t].state = "making" /\ n.transports[t] = Nothing
        /\ \A c \in Consumers :
               \/ n.consumers[c] = m.consumers[c]
               \/ m.consumers[c].state = "piping" /\ n.consumers[c] = Nothing
    BY <1>0, <1>1, ClosingRouter
  <1>3. \A b \in Bridges :
            n.bridges[b] = IF b \in B THEN [m.bridges[b] EXCEPT !.state = "gone"]
                           ELSE IF b \in A THEN [m.bridges[b] EXCEPT !.cut = TRUE]
                           ELSE m.bridges[b]
    BY <1>0, <1>1, ClosingRouter
  <1>4. /\ \A k \in Workers \X Producers :
               n.pipes[k] = IF k[1] = w \/ m.pipes[k] \in B THEN None ELSE m.pipes[k]
        /\ \A v \in Workers : n.units[v] = m.units[v] - BridgeUnits(m, B, v)
    BY <1>0, <1>1, ClosingRouter
  <1>5. /\ DOMAIN m.transports = Transports /\ DOMAIN n.transports = Transports
        /\ DOMAIN m.consumers = Consumers /\ DOMAIN n.consumers = Consumers
        /\ DOMAIN m.bridges = Bridges /\ DOMAIN n.bridges = Bridges
    BY <1>0, <1>2 DEF Room
  <1>6. /\ \A b \in A : m.bridges[b] \in Bridge /\ m.bridges[b].state = "making"
        /\ \A b \in B : m.bridges[b] \in Bridge /\ m.bridges[b].state = "open"
        /\ B \subseteq In(m.bridges, {"open"})
    <2>1. ASSUME NEW b \in A PROVE m.bridges[b] \in Bridge /\ m.bridges[b].state = "making"
      <3>1. "none" \notin {"making"}
        OBVIOUS
      <3>2. m.bridges[b] \in Bridge /\ m.bridges[b].state \in {"making"}
        BY <1>0, <2>1, <3>1, CrossingInRoom
      <3>3. QED
        BY <3>2
    <2>2. ASSUME NEW b \in B PROVE m.bridges[b] \in Bridge /\ m.bridges[b].state = "open"
      <3>1. "none" \notin {"open"}
        OBVIOUS
      <3>2. m.bridges[b] \in Bridge /\ m.bridges[b].state \in {"open"}
        BY <1>0, <2>2, <3>1, CrossingInRoom
      <3>3. QED
        BY <3>2
    <2>3. B \subseteq In(m.bridges, {"open"})
      BY DEF Crossing
    <2>4. QED
      BY <2>1, <2>2, <2>3
  <1>7. \A b \in Bridges : b \in A \cup B <=>
            /\ m.bridges[b].state \in {"making", "open"}
            /\ w \in {m.bridges[b].to, OwnerHome(m, m.bridges[b].source)}
    BY <1>5 DEF Crossing, In
  <1> HIDE DEF A, B
  \* What became of each bridge.
  <1>8. \A b \in Bridges :
            /\ b \in B => /\ n.bridges[b].state = "gone" /\ n.bridges[b].to = m.bridges[b].to
                          /\ n.bridges[b].source = m.bridges[b].source
            /\ b \in A => /\ n.bridges[b].state = "making" /\ n.bridges[b].cut
                          /\ n.bridges[b].to = m.bridges[b].to
                          /\ n.bridges[b].source = m.bridges[b].source
            /\ b \notin A \cup B => n.bridges[b] = m.bridges[b]
    BY <1>3, <1>6 DEF Bridge
  <1>9. PeersAreSound(n)
    <2>1. \A t \in Transports : m.transports[t].state = "open" => n.transports[t].state = "open"
      BY <1>2
    <2>2. \A p \in Peers : /\ m.peers[p].send \in Transports \cup {None}
                           /\ m.peers[p].recv \in Transports \cup {None}
      BY <1>0 DEF Room, Peer
    <2>3. QED
      BY <1>2, <2>1, <2>2 DEF RoomInv, PeersAreSound
  <1>10. TransportsAreSound(n)
    <2>1. \A t \in In(n.transports, {"open"}) :
              t \in In(m.transports, {"open"}) /\ n.transports[t] = m.transports[t]
      BY <1>2, <1>5 DEF In, Nothing
    <2>2. QED
      BY <1>2, <2>1 DEF RoomInv, TransportsAreSound
  <1>11. ProducersAreSound(n)
    BY <1>2 DEF RoomInv, ProducersAreSound
  <1>12. ConsumersAreSound(n)
    <2>1. \A c \in In(n.consumers, {"piping", "making", "open"}) :
              /\ c \in In(m.consumers, {"piping", "making", "open"})
              /\ n.consumers[c] = m.consumers[c]
      BY <1>2, <1>5 DEF In, Nothing
    <2>2. QED
      BY <1>2, <2>1 DEF RoomInv, ConsumersAreSound
  <1>13. BridgesAreSound(n)
    <2>1. \A b \in In(n.bridges, {"making", "open", "gone"}) :
              /\ b \in In(m.bridges, {"making", "open", "gone"})
              /\ n.bridges[b].source = m.bridges[b].source
      BY <1>5, <1>6, <1>8 DEF In
    <2>2. QED
      BY <1>2, <2>1 DEF RoomInv, BridgesAreSound
  <1>14. PipesAreSound(n)
    <2>1. ASSUME NEW v \in Workers, NEW x \in Producers, n.pipes[<<v, x>>] # None
          PROVE  /\ x \in n.onAir
                 /\ n.bridges[n.pipes[<<v, x>>]].state \in {"making", "open"}
                 /\ ~n.bridges[n.pipes[<<v, x>>]].cut
                 /\ n.bridges[n.pipes[<<v, x>>]].to = v
                 /\ n.bridges[n.pipes[<<v, x>>]].source = x
      <3>1. v # w /\ n.pipes[<<v, x>>] = m.pipes[<<v, x>>] /\ m.pipes[<<v, x>>] # None
        BY <1>4, <2>1
      <3>2. PICK b \in Bridges : b = m.pipes[<<v, x>>]
        BY <1>0, <3>1 DEF Room
      <3>3. /\ x \in m.onAir /\ m.bridges[b].state \in {"making", "open"} /\ ~m.bridges[b].cut
            /\ m.bridges[b].to = v /\ m.bridges[b].source = x
        BY <3>1, <3>2 DEF RoomInv, PipesAreSound
      <3>4. OwnerHome(m, x) # w
        BY <3>3, NoTrackFromAway
      <3>5. b \notin A \cup B
        BY <1>7, <3>1, <3>3, <3>4
      <3>6. n.bridges[b] = m.bridges[b]
        BY <1>8, <3>5
      <3>7. QED
        BY <1>2, <3>1, <3>2, <3>3, <3>6
    <2>2. ASSUME NEW b \in In(n.bridges, {"making", "open"}),
                 n.bridges[b].source \in n.onAir, ~n.bridges[b].cut
          PROVE  n.pipes[<<n.bridges[b].to, n.bridges[b].source>>] = b
      <3>1. b \in Bridges /\ n.bridges[b].state \in {"making", "open"}
        BY <1>5 DEF In
      <3>2. b \notin A \cup B
        BY <1>8, <2>2, <3>1
      <3>3. n.bridges[b] = m.bridges[b] /\ b \in In(m.bridges, {"making", "open"})
        BY <1>5, <1>8, <3>1, <3>2 DEF In
      <3>4. m.pipes[<<m.bridges[b].to, m.bridges[b].source>>] = b
        BY <1>2, <2>2, <3>3 DEF RoomInv, PipesAreSound
      <3>5. <<m.bridges[b].to, m.bridges[b].source>> \in Workers \X Producers
        BY <1>0, <3>3, InRoom DEF Bridge
      <3>6. m.bridges[b].to # w
        BY <1>7, <3>1, <3>2, <3>3
      <3>7. QED
        BY <1>4, <3>2, <3>3, <3>4, <3>5, <3>6
    <2>3. QED
      BY <2>1, <2>2 DEF PipesAreSound
  <1>15. UnitsAreSound(n)
    <2>1. In(n.consumers, {"open"}) = In(m.consumers, {"open"})
            /\ \A c \in In(m.consumers, {"open"}) : n.consumers[c] = m.consumers[c]
      BY <1>2, <1>5 DEF In, Nothing
    <2>2. In(n.bridges, {"open"}) = In(m.bridges, {"open"}) \ B
            /\ \A b \in In(n.bridges, {"open"}) : n.bridges[b] = m.bridges[b]
      BY <1>5, <1>6, <1>8 DEF In
    <2>3. \A v \in Workers : n.units[v] = m.units[v] - ProducerUnits(m, {}, v)
                                            - ConsumerUnits(m, {}, v) - BridgeUnits(m, B, v)
      <3>1. IsFiniteSet(B)
        BY <1>0, <1>6, OpenAreFinite, FS_Subset
      <3>2. \A v : /\ ProducerUnits(m, {}, v) = 0 /\ ConsumerUnits(m, {}, v) = 0
                   /\ BridgeUnits(m, B, v) \in Nat
        BY <3>1, UnitsAreNumbers, NothingWeighs
      <3>3. \A v \in Workers : m.units[v] \in Int
        BY <1>0 DEF Room
      <3>4. QED
        BY <1>4, <3>2, <3>3
    <2>4. Closes(m, n, {}, {}, B)
      <3>1. /\ In(n.producers, {"open"}) = In(m.producers, {"open"}) \ {}
            /\ In(n.consumers, {"open"}) = In(m.consumers, {"open"}) \ {}
        BY <1>2, <2>1
      <3>2. QED
        BY <1>2, <1>6, <2>1, <2>2, <2>3, <3>1 DEF Closes
    <2>5. QED
      BY <1>0, <2>4, UnitsFollowClosing DEF RoomInv
  <1>16. QED
    BY <1>1, <1>2, <1>9, <1>10, <1>11, <1>12, <1>13, <1>14, <1>15 DEF RoomInv

-----------------------------------------------------------------------------
(* Closing one thing at a time.                                            *)

\* What is subscribed to, or crosses, is a track that was once on the air.
LEMMA SourcesAreTracks ==
    ASSUME NEW m, RoomInv(m)
    PROVE  /\ \A c \in In(m.consumers, {"piping", "making", "open"}) :
                  /\ m.consumers[c].source \in Producers /\ m.consumers[c].owner \in Peers
                  /\ m.producers[m.consumers[c].source].state \in {"open", "gone"}
           /\ \A b \in In(m.bridges, {"making", "open", "gone"}) :
                  /\ m.bridges[b].source \in Producers /\ m.bridges[b].to \in Workers
                  /\ m.producers[m.bridges[b].source].state \in {"open", "gone"}
  <1>1. m \in Room
    BY DEF RoomInv
  <1>2. \A c \in In(m.consumers, {"piping", "making", "open"}) :
            /\ m.consumers[c].source \in Producers /\ m.consumers[c].owner \in Peers
            /\ m.producers[m.consumers[c].source].state \in {"open", "gone"}
    BY <1>1, InRoom DEF RoomInv, ConsumersAreSound, Consumer
  <1>3. \A b \in In(m.bridges, {"making", "open", "gone"}) :
            /\ m.bridges[b].source \in Producers /\ m.bridges[b].to \in Workers
            /\ m.producers[m.bridges[b].source].state \in {"open", "gone"}
    BY <1>1, InRoom DEF RoomInv, BridgesAreSound, Bridge
  <1>4. QED
    BY <1>2, <1>3

LEMMA CloseProducersInv ==
    ASSUME NEW m, RoomInv(m), NEW X, X \subseteq In(m.producers, {"open"})
    PROVE  RoomInv(CloseProducers(m, X))
  <1>0. m \in Room
    BY DEF RoomInv
  <1>1. PICK n : n = CloseProducers(m, X)
    OBVIOUS
  <1>2. /\ n \in Room
        /\ n.peers = m.peers /\ n.transports = m.transports
        /\ n.consumers = m.consumers /\ n.bridges = m.bridges
        /\ n.onAir = m.onAir \ X
    BY <1>0, <1>1, ClosingProducers
  <1>3. \A x \in Producers :
            n.producers[x] = IF x \in X THEN [m.producers[x] EXCEPT !.state = "gone"]
                             ELSE m.producers[x]
    BY <1>0, <1>1, ClosingProducers
  <1>4. \A w \in Workers, x \in Producers :
            n.pipes[<<w, x>>] = IF x \in X THEN None ELSE m.pipes[<<w, x>>]
    <2> SUFFICES ASSUME NEW w \in Workers, NEW x \in Producers
                 PROVE  n.pipes[<<w, x>>] = IF x \in X THEN None ELSE m.pipes[<<w, x>>]
      OBVIOUS
    <2>1. QED
      BY <1>0, <1>1, ClosingProducers
  <1>5. \A w \in Workers : n.units[w] = m.units[w] - ProducerUnits(m, X, w)
    BY <1>0, <1>1, ClosingProducers
  <1>6. DOMAIN m.producers = Producers /\ DOMAIN n.producers = Producers
    BY <1>0, <1>2 DEF Room
  <1>7. \A x \in X : x \in Producers /\ m.producers[x] \in Producer /\ m.producers[x].state = "open"
    BY <1>0, InRoom
  <1>8. \A x \in Producers :
            /\ x \in X => n.producers[x].state = "gone" /\ m.producers[x].state = "open"
            /\ x \notin X => n.producers[x] = m.producers[x]
            /\ m.producers[x].state \in {"open", "gone"} =>
                   /\ n.producers[x].state \in {"open", "gone"}
                   /\ n.producers[x].owner = m.producers[x].owner
                   /\ n.producers[x].kind = m.producers[x].kind
    BY <1>3, <1>7 DEF Producer
  <1>9. /\ \A x \in In(n.producers, {"making", "open"}) :
               x \in In(m.producers, {"making", "open"}) /\ n.producers[x] = m.producers[x]
        /\ In(n.producers, {"open"}) = In(m.producers, {"open"}) \ X
        /\ \A x \in In(n.producers, {"open"}) : n.producers[x] = m.producers[x]
    BY <1>6, <1>8 DEF In
  <1>10. PeersAreSound(n) /\ TransportsAreSound(n)
    BY <1>2 DEF RoomInv, PeersAreSound, TransportsAreSound
  <1>11. ProducersAreSound(n)
    <2>1. n.onAir = In(n.producers, {"open"})
      BY <1>2, <1>9 DEF RoomInv, ProducersAreSound
    <2>2. QED
      BY <1>2, <1>9, <2>1 DEF RoomInv, ProducersAreSound
  <1>12. ConsumersAreSound(n)
    BY <1>2, <1>8, SourcesAreTracks DEF RoomInv, ConsumersAreSound
  <1>13. BridgesAreSound(n)
    BY <1>2, <1>8, SourcesAreTracks DEF RoomInv, BridgesAreSound
  <1>14. PipesAreSound(n)
    <2>1. ASSUME NEW w \in Workers, NEW x \in Producers, n.pipes[<<w, x>>] # None
          PROVE  /\ x \in n.onAir /\ n.pipes[<<w, x>>] = m.pipes[<<w, x>>]
                 /\ m.pipes[<<w, x>>] # None
      BY <1>2, <1>4, <2>1 DEF RoomInv, PipesAreSound
    <2>2. ASSUME NEW b \in In(m.bridges, {"making", "open"}),
                 m.bridges[b].source \in n.onAir, ~m.bridges[b].cut
          PROVE  n.pipes[<<m.bridges[b].to, m.bridges[b].source>>] = b
      <3>1. m.bridges[b].to \in Workers /\ m.bridges[b].source \in Producers
        BY <1>0, InRoom DEF Bridge
      <3>2. m.pipes[<<m.bridges[b].to, m.bridges[b].source>>] = b
        BY <1>2, <2>2 DEF RoomInv, PipesAreSound
      <3>3. QED
        BY <1>2, <1>4, <2>2, <3>1, <3>2
    <2>3. QED
      BY <1>2, <2>1, <2>2 DEF RoomInv, PipesAreSound
  <1>15. UnitsAreSound(n)
    <2>1. \A c \in In(m.consumers, {"open"}) : c \in In(m.consumers, {"piping", "making", "open"})
      BY DEF In
    <2>2. \A b \in In(m.bridges, {"open"}) : b \in In(m.bridges, {"making", "open", "gone"})
      BY DEF In
    <2>3. /\ \A c \in In(m.consumers, {"open"}) :
                n.producers[m.consumers[c].source].kind = m.producers[m.consumers[c].source].kind
          /\ \A b \in In(m.bridges, {"open"}) :
                /\ n.producers[m.bridges[b].source].owner = m.producers[m.bridges[b].source].owner
                /\ n.producers[m.bridges[b].source].kind = m.producers[m.bridges[b].source].kind
      BY <1>8, <2>1, <2>2, SourcesAreTracks
    <2>4. \A w \in Workers : n.units[w] = m.units[w] - ProducerUnits(m, X, w)
                                            - ConsumerUnits(m, {}, w) - BridgeUnits(m, {}, w)
      <3>1. IsFiniteSet(X)
        BY <1>0, OpenAreFinite, FS_Subset
      <3>2. \A w : /\ ProducerUnits(m, X, w) \in Nat /\ ConsumerUnits(m, {}, w) = 0
                   /\ BridgeUnits(m, {}, w) = 0
        BY <3>1, UnitsAreNumbers, NothingWeighs
      <3>3. \A w \in Workers : m.units[w] \in Int
        BY <1>0 DEF Room
      <3>4. QED
        BY <1>5, <3>2, <3>3
    <2>5. Closes(m, n, X, {}, {})
      <3>1. /\ In(n.bridges, {"open"}) = In(m.bridges, {"open"}) \ {}
            /\ In(n.consumers, {"open"}) = In(m.consumers, {"open"}) \ {}
        BY <1>2
      <3>2. QED
        BY <1>2, <1>9, <2>3, <2>4, <3>1 DEF Closes
    <2>6. QED
      BY <1>0, <2>5, UnitsFollowClosing DEF RoomInv
  <1>16. QED
    BY <1>1, <1>2, <1>10, <1>11, <1>12, <1>13, <1>14, <1>15 DEF RoomInv

LEMMA CloseConsumersInv ==
    ASSUME NEW m, RoomInv(m), NEW C, C \subseteq In(m.consumers, {"open"})
    PROVE  RoomInv(CloseConsumers(m, C))
  <1>0. m \in Room
    BY DEF RoomInv
  <1>1. PICK n : n = CloseConsumers(m, C)
    OBVIOUS
  <1>2. /\ n \in Room
        /\ n.peers = m.peers /\ n.transports = m.transports
        /\ n.producers = m.producers /\ n.bridges = m.bridges
        /\ n.onAir = m.onAir /\ n.pipes = m.pipes
        /\ \A c \in Consumers : n.consumers[c] = IF c \in C THEN Nothing ELSE m.consumers[c]
        /\ \A w \in Workers : n.units[w] = m.units[w] - ConsumerUnits(m, C, w)
    BY <1>0, <1>1, ClosingConsumers
  <1>3. DOMAIN m.consumers = Consumers /\ DOMAIN n.consumers = Consumers
    BY <1>0, <1>2 DEF Room
  <1>4. /\ In(n.consumers, {"open"}) = In(m.consumers, {"open"}) \ C
        /\ \A c \in In(n.consumers, {"piping", "making", "open"}) :
               /\ c \in In(m.consumers, {"piping", "making", "open"})
               /\ n.consumers[c] = m.consumers[c]
        /\ In(n.consumers, {"open"}) \subseteq In(n.consumers, {"piping", "making", "open"})
    BY <1>2, <1>3 DEF In, Nothing
  <1>5. /\ PeersAreSound(n) /\ TransportsAreSound(n) /\ ProducersAreSound(n)
        /\ BridgesAreSound(n) /\ PipesAreSound(n)
    <2>1. PeersAreSound(n) /\ TransportsAreSound(n)
      BY <1>2 DEF RoomInv, PeersAreSound, TransportsAreSound
    <2>2. ProducersAreSound(n)
      BY <1>2 DEF RoomInv, ProducersAreSound
    <2>3. BridgesAreSound(n)
      BY <1>2 DEF RoomInv, BridgesAreSound
    <2>4. PipesAreSound(n)
      BY <1>2 DEF RoomInv, PipesAreSound
    <2>5. QED
      BY <2>1, <2>2, <2>3, <2>4
  <1>6. ConsumersAreSound(n)
    BY <1>2, <1>4 DEF RoomInv, ConsumersAreSound
  <1>7. UnitsAreSound(n)
    <2>1. \A w \in Workers : n.units[w] = m.units[w] - ProducerUnits(m, {}, w)
                                            - ConsumerUnits(m, C, w) - BridgeUnits(m, {}, w)
      <3>1. IsFiniteSet(C)
        BY <1>0, OpenAreFinite, FS_Subset
      <3>2. \A w : /\ ProducerUnits(m, {}, w) = 0 /\ ConsumerUnits(m, C, w) \in Nat
                   /\ BridgeUnits(m, {}, w) = 0
        BY <3>1, UnitsAreNumbers, NothingWeighs
      <3>3. \A w \in Workers : m.units[w] \in Int
        BY <1>0 DEF Room
      <3>4. QED
        BY <1>2, <3>2, <3>3
    <2>2. Closes(m, n, {}, C, {})
      <3>1. /\ In(n.bridges, {"open"}) = In(m.bridges, {"open"}) \ {}
            /\ In(n.producers, {"open"}) = In(m.producers, {"open"}) \ {}
        BY <1>2
      <3>2. QED
        BY <1>2, <1>4, <2>1, <3>1 DEF Closes
    <2>3. QED
      BY <1>0, <2>2, UnitsFollowClosing DEF RoomInv
  <1>8. QED
    BY <1>1, <1>2, <1>5, <1>6, <1>7 DEF RoomInv

LEMMA CloseBridgesInv ==
    ASSUME NEW m, RoomInv(m), NEW B, B \subseteq In(m.bridges, {"open"})
    PROVE  RoomInv(CloseBridges(m, B))
  <1>0. m \in Room
    BY DEF RoomInv
  <1>1. PICK n : n = CloseBridges(m, B)
    OBVIOUS
  <1>2. /\ n \in Room
        /\ n.peers = m.peers /\ n.transports = m.transports
        /\ n.producers = m.producers /\ n.onAir = m.onAir
        /\ \A w \in Workers : n.units[w] = m.units[w] - BridgeUnits(m, B, w)
    BY <1>0, <1>1, ClosingBridges
  <1>3. \A b \in Bridges :
            n.bridges[b] = IF b \in B THEN [m.bridges[b] EXCEPT !.state = "gone"] ELSE m.bridges[b]
    BY <1>0, <1>1, ClosingBridges
  <1>4. \A k \in Workers \X Producers :
            n.pipes[k] = IF m.pipes[k] \in B THEN None ELSE m.pipes[k]
    BY <1>0, <1>1, ClosingBridges
  <1>5. \A c \in Consumers :
            \/ n.consumers[c] = m.consumers[c]
            \/ m.consumers[c].state = "piping" /\ n.consumers[c] = Nothing
    <2>1. \A c \in Consumers :
              n.consumers[c] = IF m.consumers[c].state = "piping" /\ m.consumers[c].bridge \in B
                               THEN Nothing ELSE m.consumers[c]
      BY <1>0, <1>1, ClosingBridges
    <2>2. QED
      BY <2>1
  <1>6. /\ DOMAIN m.bridges = Bridges /\ DOMAIN n.bridges = Bridges
        /\ DOMAIN m.consumers = Consumers /\ DOMAIN n.consumers = Consumers
    BY <1>0, <1>2 DEF Room
  <1>7. \A b \in B : b \in Bridges /\ m.bridges[b] \in Bridge /\ m.bridges[b].state = "open"
    <2>1. "none" \notin {"open"}
      OBVIOUS
    <2>2. \A b \in In(m.bridges, {"open"}) :
              b \in Bridges /\ m.bridges[b] \in Bridge /\ m.bridges[b].state \in {"open"}
      BY <1>0, <2>1, InRoom
    <2>3. QED
      BY <2>2
  <1>8. \A b \in Bridges :
            /\ b \in B => /\ n.bridges[b].state = "gone" /\ m.bridges[b].state = "open"
                          /\ n.bridges[b].source = m.bridges[b].source
            /\ b \notin B => n.bridges[b] = m.bridges[b]
    BY <1>3, <1>7 DEF Bridge
  <1>9. /\ \A b \in In(n.bridges, {"making", "open"}) :
               /\ b \in In(m.bridges, {"making", "open"}) /\ b \notin B
               /\ n.bridges[b] = m.bridges[b]
        /\ In(n.bridges, {"open"}) = In(m.bridges, {"open"}) \ B
        /\ \A b \in In(n.bridges, {"open"}) : n.bridges[b] = m.bridges[b]
        /\ \A b \in In(n.bridges, {"making", "open", "gone"}) :
               /\ b \in In(m.bridges, {"making", "open", "gone"})
               /\ n.bridges[b].source = m.bridges[b].source
    <2>1. ASSUME NEW states, NEW b
          PROVE  /\ b \in In(n.bridges, states) <=> b \in Bridges /\ n.bridges[b].state \in states
                 /\ b \in In(m.bridges, states) <=> b \in Bridges /\ m.bridges[b].state \in states
      BY <1>6 DEF In
    <2>2. \A b \in In(n.bridges, {"making", "open"}) :
               /\ b \in In(m.bridges, {"making", "open"}) /\ b \notin B
               /\ n.bridges[b] = m.bridges[b]
      BY <1>8, <2>1
    <2>3. In(n.bridges, {"open"}) = In(m.bridges, {"open"}) \ B
      BY <1>8, <2>1
    <2>4. \A b \in In(n.bridges, {"open"}) : n.bridges[b] = m.bridges[b]
      BY <1>8, <2>1
    <2>5. \A b \in In(n.bridges, {"making", "open", "gone"}) :
               /\ b \in In(m.bridges, {"making", "open", "gone"})
               /\ n.bridges[b].source = m.bridges[b].source
      BY <1>8, <2>1
    <2>6. QED
      BY <2>2, <2>3, <2>4, <2>5
  <1>10. /\ In(n.consumers, {"open"}) = In(m.consumers, {"open"})
         /\ \A c \in In(n.consumers, {"piping", "making", "open"}) :
                /\ c \in In(m.consumers, {"piping", "making", "open"})
                /\ n.consumers[c] = m.consumers[c]
         /\ \A c \in In(m.consumers, {"open"}) : n.consumers[c] = m.consumers[c]
    BY <1>5, <1>6 DEF In, Nothing
  <1>11. PeersAreSound(n)
    BY <1>2 DEF RoomInv, PeersAreSound
  <1>12. TransportsAreSound(n)
    BY <1>2 DEF RoomInv, TransportsAreSound
  <1>13. ProducersAreSound(n)
    BY <1>2 DEF RoomInv, ProducersAreSound
  <1>14. ConsumersAreSound(n)
    BY <1>2, <1>10 DEF RoomInv, ConsumersAreSound
  <1>15. BridgesAreSound(n)
    BY <1>2, <1>9 DEF RoomInv, BridgesAreSound
  <1>16. PipesAreSound(n)
    <2>1. ASSUME NEW w \in Workers, NEW x \in Producers, n.pipes[<<w, x>>] # None
          PROVE  /\ x \in n.onAir
                 /\ n.bridges[n.pipes[<<w, x>>]].state \in {"making", "open"}
                 /\ ~n.bridges[n.pipes[<<w, x>>]].cut
                 /\ n.bridges[n.pipes[<<w, x>>]].to = w
                 /\ n.bridges[n.pipes[<<w, x>>]].source = x
      <3>1. /\ n.pipes[<<w, x>>] = m.pipes[<<w, x>>] /\ m.pipes[<<w, x>>] # None
            /\ m.pipes[<<w, x>>] \notin B
        BY <1>4, <2>1
      <3>2. PICK b \in Bridges : b = m.pipes[<<w, x>>]
        BY <1>0, <3>1 DEF Room
      <3>3. /\ x \in m.onAir /\ m.bridges[b].state \in {"making", "open"} /\ ~m.bridges[b].cut
            /\ m.bridges[b].to = w /\ m.bridges[b].source = x
        BY <3>1, <3>2 DEF RoomInv, PipesAreSound
      <3>4. n.bridges[b] = m.bridges[b]
        BY <1>8, <3>1, <3>2
      <3>5. QED
        BY <1>2, <3>1, <3>2, <3>3, <3>4
    <2>2. ASSUME NEW b \in In(n.bridges, {"making", "open"}),
                 n.bridges[b].source \in n.onAir, ~n.bridges[b].cut
          PROVE  n.pipes[<<n.bridges[b].to, n.bridges[b].source>>] = b
      <3>1. /\ n.bridges[b] = m.bridges[b] /\ b \in In(m.bridges, {"making", "open"})
            /\ b \notin B
        BY <1>9
      <3>2. m.pipes[<<m.bridges[b].to, m.bridges[b].source>>] = b
        BY <1>2, <2>2, <3>1 DEF RoomInv, PipesAreSound
      <3>3. <<m.bridges[b].to, m.bridges[b].source>> \in Workers \X Producers
        BY <1>0, <3>1, InRoom DEF Bridge
      <3>4. QED
        BY <1>4, <3>1, <3>2, <3>3
    <2>3. QED
      BY <2>1, <2>2 DEF PipesAreSound
  <1>17. UnitsAreSound(n)
    <2>1. \A w \in Workers : n.units[w] = m.units[w] - ProducerUnits(m, {}, w)
                                            - ConsumerUnits(m, {}, w) - BridgeUnits(m, B, w)
      <3>1. IsFiniteSet(B)
        BY <1>0, OpenAreFinite, FS_Subset
      <3>2. \A w : /\ ProducerUnits(m, {}, w) = 0 /\ ConsumerUnits(m, {}, w) = 0
                   /\ BridgeUnits(m, B, w) \in Nat
        BY <3>1, UnitsAreNumbers, NothingWeighs
      <3>3. \A w \in Workers : m.units[w] \in Int
        BY <1>0 DEF Room
      <3>4. QED
        BY <1>2, <3>2, <3>3
    <2>2. Closes(m, n, {}, {}, B)
      <3>1. /\ In(n.producers, {"open"}) = In(m.producers, {"open"}) \ {}
            /\ In(n.consumers, {"open"}) = In(m.consumers, {"open"}) \ {}
        BY <1>2, <1>10
      <3>2. QED
        BY <1>2, <1>9, <1>10, <2>1, <3>1 DEF Closes
    <2>3. QED
      BY <1>0, <2>2, UnitsFollowClosing DEF RoomInv
  <1>18. QED
    BY <1>1, <1>2, <1>11, <1>12, <1>13, <1>14, <1>15, <1>16, <1>17 DEF RoomInv

-----------------------------------------------------------------------------
(* Sessions.                                                               *)

LEMMA NothingIsOpen ==
    ASSUME NEW D, NEW f, f = [i \in D |-> Nothing], NEW states, "none" \notin states
    PROVE  In(f, states) = {}
  BY DEF In, Nothing

LEMMA InitInv == RoomInv(EmptyRoom)
  <1>1. PICK m : m = EmptyRoom
    OBVIOUS
  <1>2. /\ m.peers = [p \in Peers |-> [here |-> FALSE, session |-> 0, send |-> None,
                                       recv |-> None, caps |-> FALSE]]
        /\ m.transports = [t \in Transports |-> Nothing]
        /\ m.producers  = [x \in Producers |-> Nothing]
        /\ m.consumers  = [c \in Consumers |-> Nothing]
        /\ m.bridges    = [b \in Bridges |-> Nothing]
        /\ m.onAir      = {}
        /\ m.pipes      = [k \in Workers \X Producers |-> None]
        /\ m.units      = [w \in Workers |-> 0]
    BY <1>1 DEF EmptyRoom
  <1>3. m \in Room
    <2>1. m.peers \in [Peers -> Peer]
      BY <1>2 DEF Peer
    <2>2. /\ m.transports \in [Transports -> {Nothing} \cup Transport]
          /\ m.producers \in [Producers -> {Nothing} \cup Producer]
          /\ m.consumers \in [Consumers -> {Nothing} \cup Consumer]
          /\ m.bridges \in [Bridges -> {Nothing} \cup Bridge]
      BY <1>2
    <2>3. /\ m.onAir \in SUBSET Producers
          /\ m.pipes \in [Workers \X Producers -> Bridges \cup {None}]
          /\ m.units \in [Workers -> Int]
      BY <1>2
    <2>4. m = [peers |-> m.peers, transports |-> m.transports, producers |-> m.producers,
               consumers |-> m.consumers, bridges |-> m.bridges, onAir |-> m.onAir,
               pipes |-> m.pipes, units |-> m.units]
      BY <1>1 DEF EmptyRoom
    <2>5. QED
      BY <2>1, <2>2, <2>3, <2>4 DEF Room
  <1>4. \A states : "none" \notin states =>
            /\ In(m.transports, states) = {} /\ In(m.producers, states) = {}
            /\ In(m.consumers, states) = {} /\ In(m.bridges, states) = {}
    BY <1>2, NothingIsOpen
  <1>5. PeersAreSound(m)
    BY <1>2, MediaAssumption DEF PeersAreSound
  <1>6. /\ TransportsAreSound(m) /\ ProducersAreSound(m)
        /\ ConsumersAreSound(m) /\ BridgesAreSound(m)
    BY <1>2, <1>4 DEF TransportsAreSound, ProducersAreSound, ConsumersAreSound, BridgesAreSound
  <1>7. PipesAreSound(m)
    BY <1>2, <1>4 DEF PipesAreSound
  <1>8. UnitsAreSound(m)
    <2>1. /\ In(m.producers, {"open"}) = {} /\ In(m.consumers, {"open"}) = {}
          /\ In(m.bridges, {"open"}) = {}
      BY <1>4
    <2>2. \A w \in Workers :
              /\ m.units[w] = 0 /\ ProducerUnits(m, {}, w) = 0
              /\ ConsumerUnits(m, {}, w) = 0 /\ BridgeUnits(m, {}, w) = 0
      BY <1>2, NothingWeighs
    <2>3. QED
      BY <2>1, <2>2 DEF UnitsAreSound
  <1>9. QED
    BY <1>1, <1>3, <1>5, <1>6, <1>7, <1>8 DEF RoomInv

\* What a peer is may change while its transports stay.
LEMMA PeersChange ==
    ASSUME NEW m, RoomInv(m), NEW n, NEW P, P \in [Peers -> Peer], n = [m EXCEPT !.peers = P],
           \A p \in Peers :
               /\ P[p].send = m.peers[p].send /\ P[p].recv = m.peers[p].recv
               /\ P[p].session <= MaxSessions[p]
               /\ ~P[p].here => P[p].send = None /\ P[p].recv = None
    PROVE  RoomInv(n)
  <1>0. m \in Room
    BY DEF RoomInv
  <1>1. /\ n \in Room /\ n.peers = P
        /\ n.transports = m.transports /\ n.producers = m.producers
        /\ n.consumers = m.consumers /\ n.bridges = m.bridges
        /\ n.onAir = m.onAir /\ n.pipes = m.pipes /\ n.units = m.units
    BY <1>0 DEF Room
  <1>2. \A p \in Peers :
            /\ n.peers[p].send = m.peers[p].send /\ n.peers[p].recv = m.peers[p].recv
            /\ n.peers[p].session <= MaxSessions[p]
            /\ ~n.peers[p].here => n.peers[p].send = None /\ n.peers[p].recv = None
    BY <1>1
  <1>3. PeersAreSound(n)
    BY <1>1, <1>2 DEF RoomInv, PeersAreSound
  <1>4. TransportsAreSound(n)
    <2>1. \A t \in In(m.transports, {"open"}) : m.transports[t].owner \in Peers
      BY <1>0, InRoom DEF Transport
    <2>2. QED
      BY <1>1, <1>2, <2>1 DEF RoomInv, TransportsAreSound
  <1>5. ProducersAreSound(n)
    <2>1. \A x \in In(m.producers, {"making", "open"}) : m.producers[x].owner \in Peers
      BY <1>0, InRoom DEF Producer
    <2>2. QED
      BY <1>1, <1>2, <2>1 DEF RoomInv, ProducersAreSound
  <1>6. ConsumersAreSound(n)
    <2> SUFFICES ASSUME NEW c \in In(m.consumers, {"piping", "making", "open"})
                 PROVE  /\ n.peers[m.consumers[c].owner].recv = m.consumers[c].transport
                        /\ m.producers[m.consumers[c].source].state \in {"open", "gone"}
      BY <1>1 DEF ConsumersAreSound
    <2>1. m.consumers[c].owner \in Peers
      BY SourcesAreTracks
    <2>2. /\ m.peers[m.consumers[c].owner].recv = m.consumers[c].transport
          /\ m.producers[m.consumers[c].source].state \in {"open", "gone"}
      BY DEF RoomInv, ConsumersAreSound
    <2>3. QED
      BY <1>2, <2>1, <2>2
  <1>7. BridgesAreSound(n)
    BY <1>1 DEF RoomInv, BridgesAreSound
  <1>8. PipesAreSound(n)
    BY <1>1 DEF RoomInv, PipesAreSound
  <1>9. UnitsAreSound(n)
    <2>1. Stays(m, n)
      BY <1>1 DEF Stays
    <2>2. QED
      BY <1>0, <2>1, UnitsStay DEF RoomInv
  <1>10. QED
    BY <1>1, <1>3, <1>4, <1>5, <1>6, <1>7, <1>8, <1>9 DEF RoomInv

\* Closing its transports leaves a peer without any.
LEMMA OwnTransportsClose ==
    ASSUME NEW m, RoomInv(m), NEW p \in Peers, NEW n, n = CloseTransports(m, OwnTransports(m, p))
    PROVE  /\ RoomInv(n)
           /\ n.peers[p].send = None /\ n.peers[p].recv = None
           /\ n.peers[p].here = m.peers[p].here /\ n.peers[p].session = m.peers[p].session
  <1> DEFINE T == OwnTransports(m, p)
  <1>1. /\ m.peers[p].send \in Transports \cup {None} /\ m.peers[p].recv \in Transports \cup {None}
    BY DEF RoomInv, Room, Peer
  <1>2. /\ T \subseteq Transports
        /\ m.peers[p].send \in T \cup {None} /\ m.peers[p].recv \in T \cup {None}
    BY <1>1 DEF OwnTransports
  <1> HIDE DEF T
  <1>3. n = CloseTransports(m, T)
    BY DEF T
  <1>4. RoomInv(n)
    BY <1>2, <1>3, CloseTransportsInv
  <1>5. /\ n.peers[p].here = m.peers[p].here /\ n.peers[p].session = m.peers[p].session
        /\ n.peers[p].send = IF m.peers[p].send \in T THEN None ELSE m.peers[p].send
        /\ n.peers[p].recv = IF m.peers[p].recv \in T THEN None ELSE m.peers[p].recv
    BY <1>2, <1>3, ClosingTransports
  <1>6. QED
    BY <1>2, <1>4, <1>5

LEMMA JoinPeerInv ==
    ASSUME RoomInv(media), NEW p \in Peers, JoinPeer(p)
    PROVE  RoomInv(media')
  <1>0. media \in Room
    BY DEF RoomInv
  <1>m. MaxSessions[p] \in Nat
    BY MediaAssumption
  <1>1. CASE ~media.peers[p].here
    <2> DEFINE P == [media.peers EXCEPT ![p].here = TRUE, ![p].session = @ + 1]
    <2>1. PICK n : n = [media EXCEPT !.peers[p].here = TRUE, !.peers[p].session = @ + 1]
      OBVIOUS
    <2>2. media' = Collected(n)
      BY <1>1, <2>1 DEF JoinPeer, Become
    <2>3. media.peers \in [Peers -> Peer]
      BY <1>0 DEF Room
    <2>4. media.peers[p].session < MaxSessions[p]
      BY DEF JoinPeer
    <2>5. /\ P \in [Peers -> Peer]
          /\ \A q \in Peers :
               /\ P[q].send = media.peers[q].send /\ P[q].recv = media.peers[q].recv
               /\ P[q].session = IF q = p THEN media.peers[p].session + 1 ELSE media.peers[q].session
               /\ P[q].here = IF q = p THEN TRUE ELSE media.peers[q].here
      <3> DEFINE r == media.peers[p]
                 a == [r EXCEPT !.here = TRUE]
                 b == [a EXCEPT !.session = @ + 1]
      <3>1. P = [q \in Peers |-> IF q = p THEN b ELSE media.peers[q]]
        BY <2>3
      <3>2. a \in Peer /\ a.here = TRUE /\ a.session = r.session /\ a.send = r.send /\ a.recv = r.recv
        BY <2>3 DEF Peer
      <3> HIDE DEF a
      <3>3. /\ b \in Peer /\ b.here = TRUE /\ b.session = r.session + 1
            /\ b.send = r.send /\ b.recv = r.recv
        BY <3>2 DEF Peer
      <3> HIDE DEF b, P
      <3>4. QED
        BY <2>3, <3>1, <3>3
    <2>6. n = [media EXCEPT !.peers = P]
      BY <1>0, <2>1 DEF Room
    <2> HIDE DEF P
    <2>7. \A q \in Peers :
               /\ P[q].session <= MaxSessions[q]
               /\ ~P[q].here => P[q].send = None /\ P[q].recv = None
      <3> SUFFICES ASSUME NEW q \in Peers
                   PROVE  /\ P[q].session <= MaxSessions[q]
                          /\ ~P[q].here => P[q].send = None /\ P[q].recv = None
        OBVIOUS
      <3>1. /\ media.peers[q].session <= MaxSessions[q]
            /\ ~media.peers[q].here => media.peers[q].send = None /\ media.peers[q].recv = None
        BY DEF RoomInv, PeersAreSound
      <3>2. media.peers[p].session \in Nat
        BY <2>3 DEF Peer
      <3>3. CASE q = p
        <4>1. P[p].session = media.peers[p].session + 1 /\ P[p].here = TRUE
          BY <2>5
        <4>2. P[p].session <= MaxSessions[p]
          BY <1>m, <2>4, <3>2, <4>1
        <4>3. QED
          BY <3>3, <4>1, <4>2
      <3>4. CASE q # p
        BY <2>5, <3>1, <3>4
      <3>5. QED
        BY <3>3, <3>4
    <2>8. RoomInv(n)
      <3>1. \A q \in Peers :
                /\ P[q].send = media.peers[q].send /\ P[q].recv = media.peers[q].recv
                /\ P[q].session <= MaxSessions[q]
                /\ ~P[q].here => P[q].send = None /\ P[q].recv = None
        BY <2>5, <2>7
      <3>2. P \in [Peers -> Peer]
        BY <2>5
      <3>3. QED
        BY <2>6, <3>1, <3>2, PeersChange
    <2>9. QED
      BY <2>2, <2>8, CollectedInv
  <1>2. CASE media.peers[p].here /\ OwnTransports(media, p) = {}
    <2> DEFINE P == [media.peers EXCEPT ![p].caps = FALSE]
    <2>1. PICK n : n = [media EXCEPT !.peers[p].caps = FALSE]
      OBVIOUS
    <2>2. media' = Collected(n)
      BY <1>2, <2>1 DEF JoinPeer, ResetPeerMedia, Become
    <2>3. media.peers \in [Peers -> Peer]
      BY <1>0 DEF Room
    <2>5. /\ P \in [Peers -> Peer]
          /\ \A q \in Peers :
               /\ P[q].send = media.peers[q].send /\ P[q].recv = media.peers[q].recv
               /\ P[q].session = media.peers[q].session /\ P[q].here = media.peers[q].here
      BY <2>3 DEF Peer
    <2>6. n = [media EXCEPT !.peers = P]
      BY <1>0, <2>1 DEF Room
    <2> HIDE DEF P
    <2>7. RoomInv(n)
      BY <2>5, <2>6, PeersChange DEF RoomInv, PeersAreSound
    <2>8. QED
      BY <2>2, <2>7, CollectedInv
  <1>3. CASE media.peers[p].here /\ OwnTransports(media, p) # {}
    <2>1. PICK q : q = CloseTransports(media, OwnTransports(media, p))
      OBVIOUS
    <2>2. /\ RoomInv(q) /\ q \in Room
          /\ q.peers[p].send = None /\ q.peers[p].recv = None
          /\ q.peers[p].session = media.peers[p].session
      BY <2>1, OwnTransportsClose DEF RoomInv
    <2> DEFINE P == [q.peers EXCEPT ![p].session = @ + 1, ![p].caps = FALSE]
    <2>3. PICK n : n = [q EXCEPT !.peers[p].session = @ + 1, !.peers[p].caps = FALSE]
      OBVIOUS
    <2>4. media' = Collected(n)
      BY <1>3, <2>1, <2>3 DEF JoinPeer, ResetPeerMedia, Become
    <2>5. q.peers \in [Peers -> Peer]
      BY <2>2 DEF Room
    <2>6. q.peers[p].session < MaxSessions[p]
      BY <2>2 DEF JoinPeer
    <2>7. /\ P \in [Peers -> Peer]
          /\ \A r \in Peers :
               /\ P[r].send = q.peers[r].send /\ P[r].recv = q.peers[r].recv
               /\ P[r].session = IF r = p THEN q.peers[p].session + 1 ELSE q.peers[r].session
               /\ P[r].here = q.peers[r].here
      <3> DEFINE o == q.peers[p]
                 a == [o EXCEPT !.session = @ + 1]
                 b == [a EXCEPT !.caps = FALSE]
      <3>1. P = [r \in Peers |-> IF r = p THEN b ELSE q.peers[r]]
        BY <2>5
      <3>2. /\ a \in Peer /\ a.here = o.here /\ a.session = o.session + 1
            /\ a.send = o.send /\ a.recv = o.recv
        BY <2>5 DEF Peer
      <3> HIDE DEF a
      <3>3. /\ b \in Peer /\ b.here = o.here /\ b.session = o.session + 1
            /\ b.send = o.send /\ b.recv = o.recv
        BY <3>2 DEF Peer
      <3> HIDE DEF b, P
      <3>4. QED
        BY <2>5, <3>1, <3>3
    <2>8. n = [q EXCEPT !.peers = P]
      BY <2>2, <2>3 DEF Room
    <2> HIDE DEF P
    <2>9. \A r \in Peers :
               /\ P[r].session <= MaxSessions[r]
               /\ ~P[r].here => P[r].send = None /\ P[r].recv = None
      BY <1>m, <2>2, <2>5, <2>6, <2>7 DEF RoomInv, PeersAreSound, Peer
    <2>10. RoomInv(n)
      BY <2>2, <2>7, <2>8, <2>9, PeersChange
    <2>11. QED
      BY <2>4, <2>10, CollectedInv
  <1>4. QED
    BY <1>1, <1>2, <1>3

LEMMA SetPeerRtpCapabilitiesInv ==
    ASSUME RoomInv(media), NEW p \in Peers, SetPeerRtpCapabilities(p)
    PROVE  RoomInv(media')
  <1>0. media \in Room /\ media.peers \in [Peers -> Peer]
    BY DEF RoomInv, Room
  <1> DEFINE P == [media.peers EXCEPT ![p].caps = TRUE]
  <1>1. PICK n : n = [media EXCEPT !.peers[p].caps = TRUE]
    OBVIOUS
  <1>2. media' = Collected(n)
    BY <1>1 DEF SetPeerRtpCapabilities, Become
  <1>3. /\ P \in [Peers -> Peer]
        /\ \A q \in Peers :
             /\ P[q].send = media.peers[q].send /\ P[q].recv = media.peers[q].recv
             /\ P[q].session = media.peers[q].session /\ P[q].here = media.peers[q].here
    BY <1>0 DEF Peer
  <1>4. n = [media EXCEPT !.peers = P]
    BY <1>0, <1>1 DEF Room
  <1> HIDE DEF P
  <1>5. RoomInv(n)
    BY <1>3, <1>4, PeersChange DEF RoomInv, PeersAreSound
  <1>6. QED
    BY <1>2, <1>5, CollectedInv

LEMMA RemovePeerInv ==
    ASSUME RoomInv(media), NEW p \in Peers, RemovePeer(p)
    PROVE  RoomInv(media')
  <1>1. PICK q : q = CloseTransports(media, OwnTransports(media, p))
    OBVIOUS
  <1>2. /\ RoomInv(q) /\ q \in Room /\ q.peers \in [Peers -> Peer]
        /\ q.peers[p].send = None /\ q.peers[p].recv = None
    <2>1. RoomInv(q) /\ q.peers[p].send = None /\ q.peers[p].recv = None
      BY <1>1, OwnTransportsClose
    <2>2. QED
      BY <2>1 DEF RoomInv, Room
  <1> DEFINE P == [q.peers EXCEPT ![p].here = FALSE, ![p].caps = FALSE]
  <1>3. PICK n : n = [q EXCEPT !.peers[p].here = FALSE, !.peers[p].caps = FALSE]
    OBVIOUS
  <1>4. media' = Collected(IF RouterIsOpen(n, Home[p]) THEN n ELSE CloseRouter(n, Home[p]))
    BY <1>1, <1>3 DEF RemovePeer, Become
  <1>5. /\ P \in [Peers -> Peer]
        /\ \A r \in Peers :
             /\ P[r].send = q.peers[r].send /\ P[r].recv = q.peers[r].recv
             /\ P[r].session = q.peers[r].session
             /\ P[r].here = (r # p /\ q.peers[r].here)
    BY <1>2 DEF Peer
  <1>6. n = [q EXCEPT !.peers = P]
    BY <1>2, <1>3 DEF Room
  <1> HIDE DEF P
  <1>7. \A r \in Peers :
            /\ P[r].session <= MaxSessions[r]
            /\ ~P[r].here => P[r].send = None /\ P[r].recv = None
    BY <1>2, <1>5 DEF RoomInv, PeersAreSound
  <1>8. RoomInv(n)
    BY <1>2, <1>5, <1>6, <1>7, PeersChange
  <1>9. Home[p] \in Workers
    BY DEF Workers
  <1>10. ~RouterIsOpen(n, Home[p]) => RoomInv(CloseRouter(n, Home[p]))
    BY <1>8, <1>9, CloseRouterInv
  <1>11. QED
    BY <1>4, <1>8, <1>10, CollectedInv

-----------------------------------------------------------------------------
(* Transports.                                                             *)

LEMMA NewIsFree ==
    ASSUME NEW f, HasNew(f)
    PROVE  New(f) \in DOMAIN f /\ f[New(f)] = Nothing
  BY DEF New, HasNew

\* Whose an object is, and by what it goes.
LEMMA OwnersAreKnown ==
    ASSUME NEW m, m \in Room
    PROVE  /\ \A t \in In(m.transports, {"making", "open"}) : t # None /\ m.transports[t].owner \in Peers
           /\ \A x \in In(m.producers, {"making", "open"}) :
                  /\ m.producers[x].owner \in Peers /\ m.producers[x].transport # None
                  /\ m.producers[x].kind \in Kinds
           /\ \A c \in In(m.consumers, {"piping", "making", "open"}) :
                  m.consumers[c].owner \in Peers /\ m.consumers[c].transport # None
  <1>n. \A t \in Transports : t # None
    BY MediaAssumption
  <1>1. \A t \in In(m.transports, {"making", "open"}) : t # None /\ m.transports[t].owner \in Peers
    BY <1>n, InRoom DEF Transport
  <1>2. ASSUME NEW x \in In(m.producers, {"making", "open"})
        PROVE  /\ m.producers[x].owner \in Peers /\ m.producers[x].transport # None
               /\ m.producers[x].kind \in Kinds
    <2>1. m.producers[x] \in Producer
      BY InRoom
    <2>2. QED
      BY <1>n, <2>1 DEF Producer
  <1>3. ASSUME NEW c \in In(m.consumers, {"piping", "making", "open"})
        PROVE  m.consumers[c].owner \in Peers /\ m.consumers[c].transport # None
    <2>1. m.consumers[c] \in Consumer
      BY InRoom
    <2>2. QED
      BY <1>n, <2>1 DEF Consumer
  <1>4. QED
    BY <1>1, <1>2, <1>3

\* A transport that is not open changes nothing for anybody.
LEMMA TransportAsked ==
    ASSUME NEW m, RoomInv(m), NEW t \in Transports, m.transports[t].state # "open",
           NEW v \in Transport, v.state = "making",
           NEW n, n = [m EXCEPT !.transports[t] = v]
    PROVE  RoomInv(n)
  <1>0. m \in Room /\ m.transports \in [Transports -> {Nothing} \cup Transport]
    BY DEF RoomInv, Room
  <1>1. /\ n.transports = [m.transports EXCEPT ![t] = v] /\ n.peers = m.peers
        /\ n.producers = m.producers /\ n.consumers = m.consumers /\ n.bridges = m.bridges
        /\ n.onAir = m.onAir /\ n.pipes = m.pipes /\ n.units = m.units
        /\ n \in Room
    BY <1>0 DEF Room
  <1>2. /\ \A u \in Transports : u # t => n.transports[u] = m.transports[u]
        /\ n.transports[t].state = "making"
        /\ DOMAIN n.transports = Transports /\ DOMAIN m.transports = Transports
    BY <1>0, <1>1
  <1>3. PeersAreSound(n)
    <2>1. \A p \in Peers : /\ m.peers[p].send \in Transports \cup {None}
                           /\ m.peers[p].recv \in Transports \cup {None}
      BY <1>0 DEF Room, Peer
    <2>2. \A u \in Transports : m.transports[u].state = "open" => n.transports[u].state = "open"
      BY <1>2
    <2>3. QED
      BY <1>1, <2>1, <2>2 DEF RoomInv, PeersAreSound
  <1>4. TransportsAreSound(n)
    <2>1. \A u \in In(n.transports, {"open"}) :
              u \in In(m.transports, {"open"}) /\ n.transports[u] = m.transports[u]
      BY <1>2 DEF In
    <2>2. QED
      BY <1>1, <2>1 DEF RoomInv, TransportsAreSound
  <1>5. ProducersAreSound(n)
    BY <1>1 DEF RoomInv, ProducersAreSound
  <1>6. ConsumersAreSound(n)
    BY <1>1 DEF RoomInv, ConsumersAreSound
  <1>7. BridgesAreSound(n)
    BY <1>1 DEF RoomInv, BridgesAreSound
  <1>8. PipesAreSound(n)
    BY <1>1 DEF RoomInv, PipesAreSound
  <1>9. UnitsAreSound(n)
    <2>1. Stays(m, n)
      BY <1>1 DEF Stays
    <2>2. QED
      BY <1>0, <2>1, UnitsStay DEF RoomInv
  <1>10. QED
    BY <1>1, <1>3, <1>4, <1>5, <1>6, <1>7, <1>8, <1>9 DEF RoomInv

LEMMA CreateTransportInv ==
    ASSUME RoomInv(media), NEW u \in Uses, CreateTransport(u[1], u[2])
    PROVE  RoomInv(media')
  <1> DEFINE t == New(media.transports)
             v == [state |-> "making", owner |-> u[1], direction |-> u[2],
                   session |-> media.peers[u[1]].session]
  <1>0. media \in Room
    BY DEF RoomInv
  <1>1. u[1] \in Peers /\ u[2] \in {"send", "recv"}
    BY MediaAssumption
  <1>2. t \in Transports /\ media.transports[t] = Nothing
    BY <1>0, NewIsFree DEF CreateTransport, Room
  <1>3. v \in Transport /\ v.state = "making"
    <2>1. media.peers[u[1]].session \in Nat
      BY <1>0, <1>1 DEF Room, Peer
    <2>2. QED
      BY <1>1, <2>1 DEF Transport
  <1>4. media' = Collected([media EXCEPT !.transports[t] = v])
    BY DEF CreateTransport, Become
  <1>5. media.transports[t].state # "open"
    BY <1>2 DEF Nothing
  <1> HIDE DEF t, v
  <1>6. RoomInv([media EXCEPT !.transports[t] = v])
    BY <1>2, <1>3, <1>5, TransportAsked
  <1>7. QED
    BY <1>4, <1>6, CollectedInv

\* The transport of a peer that has none in this direction.
LEMMA InstalledInv ==
    ASSUME NEW m, RoomInv(m), NEW t \in Transports, m.transports[t].state = "making",
           m.peers[m.transports[t].owner].here,
           IF m.transports[t].direction = "send" THEN m.peers[m.transports[t].owner].send = None
           ELSE m.peers[m.transports[t].owner].recv = None
    PROVE  RoomInv(Installed(m, t))
  <1> DEFINE o == m.transports[t].owner
             d == m.transports[t].direction
             v == [m.transports[t] EXCEPT !.state = "open"]
             w == IF d = "send" THEN [m.peers[o] EXCEPT !.send = t]
                  ELSE [m.peers[o] EXCEPT !.recv = t]
             A == [m.transports EXCEPT ![t] = v]
             P == [m.peers EXCEPT ![o] = w]
  <1>0. /\ m \in Room /\ m.transports \in [Transports -> {Nothing} \cup Transport]
        /\ m.peers \in [Peers -> Peer]
    BY DEF RoomInv, Room
  <1>t. m.transports[t] \in Transport
    BY <1>0 DEF Nothing
  <1>o. o \in Peers /\ d \in {"send", "recv"} /\ t # None
    BY <1>t, MediaAssumption DEF Transport
  <1>1. PICK n : n = Installed(m, t)
    OBVIOUS
  <1>2. n = [m EXCEPT !.transports = A, !.peers = P]
    <2>1. CASE d = "send"
      BY <1>0, <1>1, <2>1 DEF Installed, Room
    <2>2. CASE d # "send"
      BY <1>0, <1>1, <2>2 DEF Installed, Room
    <2>3. QED
      BY <2>1, <2>2
  <1>3. /\ v \in Transport /\ v.state = "open" /\ v.owner = o /\ v.direction = d
    BY <1>t DEF Transport
  <1>4. /\ w \in Peer /\ w.here = m.peers[o].here /\ w.session = m.peers[o].session
        /\ w.send = IF d = "send" THEN t ELSE m.peers[o].send
        /\ w.recv = IF d = "send" THEN m.peers[o].recv ELSE t
    BY <1>0, <1>o DEF Peer
  <1>d. IF d = "send" THEN m.peers[o].send = None ELSE m.peers[o].recv = None
    OBVIOUS
  <1>h. m.peers[o].here /\ m.transports[t].state = "making"
    OBVIOUS
  <1> HIDE DEF v, w
  <1>5. A \in [Transports -> {Nothing} \cup Transport] /\ P \in [Peers -> Peer]
    BY <1>0, <1>3, <1>4, <1>o
  <1>6. /\ A[t] = v /\ \A u \in Transports : u # t => A[u] = m.transports[u]
        /\ P[o] = w /\ \A p \in Peers : p # o => P[p] = m.peers[p]
    BY <1>0, <1>o
  <1> HIDE DEF A, P
  <1>7. /\ n.transports = A /\ n.peers = P
        /\ n.producers = m.producers /\ n.consumers = m.consumers /\ n.bridges = m.bridges
        /\ n.onAir = m.onAir /\ n.pipes = m.pipes /\ n.units = m.units
        /\ n \in Room
    BY <1>0, <1>2, <1>5 DEF Room
  <1> HIDE DEF o, d
  <1>8. \A p \in Peers :
            /\ n.peers[p].here = m.peers[p].here /\ n.peers[p].session = m.peers[p].session
            /\ n.peers[p].send = IF p = o /\ d = "send" THEN t ELSE m.peers[p].send
            /\ n.peers[p].recv = IF p = o /\ d # "send" THEN t ELSE m.peers[p].recv
            /\ m.peers[p].send \in Transports \cup {None}
            /\ m.peers[p].recv \in Transports \cup {None}
    BY <1>0, <1>4, <1>6, <1>7 DEF Peer
  <1>9. PeersAreSound(n)
    <2> SUFFICES ASSUME NEW p \in Peers
                 PROVE  /\ n.peers[p].session <= MaxSessions[p]
                        /\ ~n.peers[p].here => n.peers[p].send = None /\ n.peers[p].recv = None
                        /\ n.peers[p].send # None => n.transports[n.peers[p].send].state = "open"
                        /\ n.peers[p].recv # None => n.transports[n.peers[p].recv].state = "open"
      BY DEF PeersAreSound
    <2>1. /\ m.peers[p].session <= MaxSessions[p]
          /\ ~m.peers[p].here => m.peers[p].send = None /\ m.peers[p].recv = None
          /\ m.peers[p].send # None => m.transports[m.peers[p].send].state = "open"
          /\ m.peers[p].recv # None => m.transports[m.peers[p].recv].state = "open"
      BY DEF RoomInv, PeersAreSound
    <2>2. \A u \in Transports :
              m.transports[u].state = "open" \/ u = t => n.transports[u].state = "open"
      BY <1>3, <1>6, <1>7
    <2>3. QED
      BY <1>8, <1>h, <2>1, <2>2
  <1>10. TransportsAreSound(n)
    <2> SUFFICES ASSUME NEW u \in In(n.transports, {"open"})
                 PROVE  u = IF n.transports[u].direction = "send"
                            THEN n.peers[n.transports[u].owner].send
                            ELSE n.peers[n.transports[u].owner].recv
      BY DEF TransportsAreSound
    <2>1. u \in Transports /\ n.transports[u].state = "open"
      BY <1>5, <1>7 DEF In
    <2>2. CASE u = t
      <3>1. n.transports[u].direction = d /\ n.transports[u].owner = o
        BY <1>3, <1>6, <1>7, <2>2
      <3>2. QED
        BY <1>8, <1>o, <2>2, <3>1
    <2>3. CASE u # t
      <3>1. n.transports[u] = m.transports[u] /\ u \in In(m.transports, {"open"})
        BY <1>0, <1>6, <1>7, <2>1, <2>3 DEF In
      <3>2. m.transports[u].owner \in Peers /\ u # None
        <4>1. u \in In(m.transports, {"making", "open"})
          BY <3>1 DEF In
        <4>2. QED
          BY <1>0, <4>1, OwnersAreKnown
      <3>3. u = IF m.transports[u].direction = "send"
                THEN m.peers[m.transports[u].owner].send
                ELSE m.peers[m.transports[u].owner].recv
        BY <3>1 DEF RoomInv, TransportsAreSound
      <3>4. QED
        BY <1>8, <1>d, <3>1, <3>2, <3>3
    <2>4. QED
      BY <2>2, <2>3
  <1>11. ProducersAreSound(n)
    <2>1. ASSUME NEW x \in In(m.producers, {"making", "open"})
          PROVE  n.peers[m.producers[x].owner].send = m.producers[x].transport
      <3>1. /\ m.producers[x].owner \in Peers
            /\ m.producers[x].transport # None
        BY <1>0, OwnersAreKnown
      <3>2. m.peers[m.producers[x].owner].send = m.producers[x].transport
        BY DEF RoomInv, ProducersAreSound
      <3>3. QED
        BY <1>8, <1>d, <3>1, <3>2
    <2>2. QED
      BY <1>7, <2>1 DEF RoomInv, ProducersAreSound
  <1>12. ConsumersAreSound(n)
    <2>1. ASSUME NEW c \in In(m.consumers, {"piping", "making", "open"})
          PROVE  n.peers[m.consumers[c].owner].recv = m.consumers[c].transport
      <3>1. /\ m.consumers[c].owner \in Peers
            /\ m.consumers[c].transport # None
        BY <1>0, OwnersAreKnown
      <3>2. m.peers[m.consumers[c].owner].recv = m.consumers[c].transport
        BY DEF RoomInv, ConsumersAreSound
      <3>3. QED
        BY <1>8, <1>d, <3>1, <3>2
    <2>2. \A c \in In(m.consumers, {"piping", "making", "open"}) :
             m.producers[m.consumers[c].source].state \in {"open", "gone"}
      BY DEF RoomInv, ConsumersAreSound
    <2>3. n.consumers = m.consumers /\ n.producers = m.producers
      BY <1>7
    <2>4. QED
      BY <2>1, <2>2, <2>3 DEF ConsumersAreSound
  <1>13. BridgesAreSound(n)
    BY <1>7 DEF RoomInv, BridgesAreSound
  <1>14. PipesAreSound(n)
    BY <1>7 DEF RoomInv, PipesAreSound
  <1>15. UnitsAreSound(n)
    <2>1. Stays(m, n)
      BY <1>7 DEF Stays
    <2>2. QED
      BY <1>0, <2>1, UnitsStay DEF RoomInv
  <1>16. QED
    BY <1>1, <1>7, <1>9, <1>10, <1>11, <1>12, <1>13, <1>14, <1>15 DEF RoomInv

LEMMA TransportReadyInv ==
    ASSUME RoomInv(media), NEW t \in Transports, TransportReady(t)
    PROVE  RoomInv(media')
  <1> DEFINE made == media.transports[t]
             o == made.owner
             T == Former(made)
  <1>T. ASSUME NEW S, S \subseteq Transports, NEW q, q = CloseTransports(media, S)
        PROVE  /\ \A u \in Transports :
                      q.transports[u] = IF u \in S THEN Nothing ELSE media.transports[u]
               /\ \A p \in Peers :
                      /\ q.peers[p].here = media.peers[p].here
                      /\ q.peers[p].send = IF media.peers[p].send \in S THEN None ELSE media.peers[p].send
                      /\ q.peers[p].recv = IF media.peers[p].recv \in S THEN None ELSE media.peers[p].recv
    BY <1>T, ClosingTransports
  <1>0. /\ media \in Room /\ media.transports \in [Transports -> {Nothing} \cup Transport]
        /\ media.peers \in [Peers -> Peer]
    BY DEF RoomInv, Room
  <1>1. made.state = "making" /\ made \in Transport
    BY <1>0 DEF TransportReady, Nothing
  <1>2. o \in Peers /\ made.direction \in {"send", "recv"}
    BY <1>1 DEF Transport
  <1>3. CASE SameSession(t)
    <2>1. PICK q : q = CloseTransports(media, T)
      OBVIOUS
    <2>2. media' = Collected(Installed(q, t))
      BY <1>3, <2>1 DEF TransportReady, Become
    <2>p. /\ media.peers[o].send \in Transports \cup {None}
          /\ media.peers[o].recv \in Transports \cup {None}
      BY <1>0, <1>2 DEF Peer
    <2>3. /\ T \subseteq Transports
          /\ T = (IF made.direction = "send" THEN {media.peers[o].send}
                  ELSE {media.peers[o].recv}) \ {None}
      BY <2>p DEF Former
    <2>4. t \notin T
      <3>1. /\ media.peers[o].send # None => media.transports[media.peers[o].send].state = "open"
            /\ media.peers[o].recv # None => media.transports[media.peers[o].recv].state = "open"
        BY <1>2 DEF RoomInv, PeersAreSound
      <3>2. QED
        BY <1>1, <2>3, <3>1
    <2> HIDE DEF T
    <2>s. T \subseteq Transports
      BY <2>3
    <2>c. q = CloseTransports(media, T)
      BY <2>1
    <2>5. RoomInv(q)
      BY <2>1, <2>3, CloseTransportsInv
    <2>6. q.transports[t] = made
      <3>1. \A u \in Transports : q.transports[u] = IF u \in T THEN Nothing ELSE media.transports[u]
        BY <2>c, <2>s, <1>T
      <3>2. QED
        BY <2>4, <3>1
    <2>7. /\ q.peers[o].here = media.peers[o].here
          /\ q.peers[o].send = IF media.peers[o].send \in T THEN None ELSE media.peers[o].send
          /\ q.peers[o].recv = IF media.peers[o].recv \in T THEN None ELSE media.peers[o].recv
      <3>1. \A p \in Peers :
                /\ q.peers[p].here = media.peers[p].here
                /\ q.peers[p].send = IF media.peers[p].send \in T THEN None ELSE media.peers[p].send
                /\ q.peers[p].recv = IF media.peers[p].recv \in T THEN None ELSE media.peers[p].recv
        BY <2>c, <2>s, <1>T
      <3>2. QED
        BY <1>2, <3>1
    <2>8. q.peers[o].here
      BY <1>3, <2>7 DEF SameSession
    <2>9. IF made.direction = "send" THEN q.peers[o].send = None ELSE q.peers[o].recv = None
      BY <2>3, <2>7
    <2> HIDE DEF made
    <2>10. /\ q.transports[t].state = "making"
           /\ q.peers[q.transports[t].owner].here
           /\ IF q.transports[t].direction = "send" THEN q.peers[q.transports[t].owner].send = None
              ELSE q.peers[q.transports[t].owner].recv = None
      BY <1>1, <2>6, <2>8, <2>9
    <2>11. RoomInv(Installed(q, t))
      BY <2>5, <2>10, InstalledInv
    <2>12. QED
      BY <2>2, <2>11, CollectedInv
  <1>4. CASE ~SameSession(t)
    <2>1. media' = Collected(CloseTransports(media, {t}))
      BY <1>4 DEF TransportReady, Become
    <2>2. RoomInv(CloseTransports(media, {t}))
      BY CloseTransportsInv
    <2>3. QED
      BY <2>1, <2>2, CollectedInv
  <1>5. QED
    BY <1>3, <1>4

LEMMA TransportGoneInv ==
    ASSUME RoomInv(media), NEW t \in Transports, TransportRefused(t) \/ TransportDies(t)
    PROVE  RoomInv(media')
  <1>1. media' = Collected(CloseTransports(media, {t}))
    BY DEF TransportRefused, TransportDies, Become
  <1>2. RoomInv(CloseTransports(media, {t}))
    BY CloseTransportsInv
  <1>3. QED
    BY <1>1, <1>2, CollectedInv

-----------------------------------------------------------------------------
(* Publishing.                                                             *)

\* A track in the making, asked for or given up, is not on the air.
LEMMA TrackAsked ==
    ASSUME NEW m, RoomInv(m), NEW x \in Producers, m.producers[x].state \in {"none", "making"},
           NEW v \in {Nothing} \cup Producer, v.state \in {"none", "making"},
           v.state = "making" => m.peers[v.owner].send = v.transport,
           NEW n, n = [m EXCEPT !.producers[x] = v]
    PROVE  RoomInv(n)
  <1>0. m \in Room /\ m.producers \in [Producers -> {Nothing} \cup Producer]
    BY DEF RoomInv, Room
  <1>1. /\ n.producers = [m.producers EXCEPT ![x] = v] /\ n.peers = m.peers
        /\ n.transports = m.transports /\ n.consumers = m.consumers /\ n.bridges = m.bridges
        /\ n.onAir = m.onAir /\ n.pipes = m.pipes /\ n.units = m.units
        /\ n \in Room
    BY <1>0 DEF Room
  <1>2. /\ \A y \in Producers : y # x => n.producers[y] = m.producers[y]
        /\ n.producers[x] = v
        /\ DOMAIN n.producers = Producers /\ DOMAIN m.producers = Producers
    BY <1>0, <1>1
  <1>3. /\ \A y \in Producers : m.producers[y].state \in {"open", "gone"} =>
               n.producers[y] = m.producers[y]
        /\ \A y \in Producers : n.producers[y].state \in {"open", "gone"} =>
               n.producers[y] = m.producers[y]
    BY <1>2
  <1>4. In(n.producers, {"open"}) = In(m.producers, {"open"})
    BY <1>2, <1>3 DEF In
  <1>5. \A y \in In(n.producers, {"making", "open"}) :
            n.peers[n.producers[y].owner].send = n.producers[y].transport
    <2> SUFFICES ASSUME NEW y \in In(n.producers, {"making", "open"})
                 PROVE  n.peers[n.producers[y].owner].send = n.producers[y].transport
      OBVIOUS
    <2>1. CASE y = x
      <3>1. v.state = "making"
        BY <1>2, <2>1 DEF In
      <3>2. QED
        BY <1>1, <1>2, <2>1, <3>1
    <2>2. CASE y # x
      <3>1. y \in In(m.producers, {"making", "open"}) /\ n.producers[y] = m.producers[y]
        BY <1>2, <2>2 DEF In
      <3>2. QED
        BY <1>1, <3>1 DEF RoomInv, ProducersAreSound
    <2>3. QED
      BY <2>1, <2>2
  <1>6. PeersAreSound(n)
    BY <1>1 DEF RoomInv, PeersAreSound
  <1>7. TransportsAreSound(n)
    BY <1>1 DEF RoomInv, TransportsAreSound
  <1>8. ProducersAreSound(n)
    <2>1. \A y \in In(n.producers, {"open"}) : n.producers[y] = m.producers[y]
      BY <1>2, <1>3 DEF In
    <2>2. QED
      BY <1>1, <1>4, <1>5, <2>1 DEF RoomInv, ProducersAreSound
  <1>9. ConsumersAreSound(n)
    <2> SUFFICES ASSUME NEW c \in In(m.consumers, {"piping", "making", "open"})
                 PROVE  /\ m.peers[m.consumers[c].owner].recv = m.consumers[c].transport
                        /\ n.producers[m.consumers[c].source].state \in {"open", "gone"}
      BY <1>1 DEF ConsumersAreSound
    <2>1. /\ m.consumers[c].source \in Producers
          /\ m.producers[m.consumers[c].source].state \in {"open", "gone"}
      BY SourcesAreTracks
    <2>2. m.peers[m.consumers[c].owner].recv = m.consumers[c].transport
      BY DEF RoomInv, ConsumersAreSound
    <2>3. QED
      BY <1>3, <2>1, <2>2
  <1>10. BridgesAreSound(n)
    BY <1>1, <1>3, SourcesAreTracks DEF RoomInv, BridgesAreSound
  <1>11. PipesAreSound(n)
    BY <1>1 DEF RoomInv, PipesAreSound
  <1>12. UnitsAreSound(n)
    <2>1. Stays(m, n)
      <3>1. /\ In(m.consumers, {"open"}) \subseteq In(m.consumers, {"piping", "making", "open"})
            /\ In(m.bridges, {"open"}) \subseteq In(m.bridges, {"making", "open", "gone"})
        BY DEF In
      <3>2. /\ \A c \in In(m.consumers, {"open"}) :
                   n.producers[m.consumers[c].source] = m.producers[m.consumers[c].source]
            /\ \A b \in In(m.bridges, {"open"}) :
                   n.producers[m.bridges[b].source] = m.producers[m.bridges[b].source]
        BY <1>3, <3>1, SourcesAreTracks
      <3>3. \A y \in In(m.producers, {"open"}) : n.producers[y] = m.producers[y]
        BY <1>2, <1>3 DEF In
      <3>4. QED
        BY <1>1, <1>4, <3>2, <3>3 DEF Stays
    <2>2. QED
      BY <1>0, <2>1, UnitsStay DEF RoomInv
  <1>13. QED
    BY <1>1, <1>6, <1>7, <1>8, <1>9, <1>10, <1>11, <1>12 DEF RoomInv

LEMMA ProduceInv ==
    ASSUME RoomInv(media), NEW p \in Peers, NEW kind \in Kinds, Produce(p, kind)
    PROVE  RoomInv(media')
  <1> DEFINE x == New(media.producers)
             v == [state |-> "making", owner |-> p, kind |-> kind,
                   transport |-> media.peers[p].send]
  <1>0. media \in Room /\ DOMAIN media.producers = Producers
    BY DEF RoomInv, Room
  <1>1. x \in Producers /\ media.producers[x] = Nothing
    BY <1>0, NewIsFree DEF Produce
  <1>2. media.peers[p].send \in Transports
    BY <1>0 DEF Produce, Room, Peer
  <1>3. v \in Producer /\ v.state = "making" /\ media.peers[v.owner].send = v.transport
    BY <1>2 DEF Producer
  <1>4. media' = Collected([media EXCEPT !.producers[x] = v])
    BY DEF Produce, Become
  <1>5. media.producers[x].state \in {"none", "making"}
    BY <1>1 DEF Nothing
  <1> HIDE DEF x, v
  <1>6. RoomInv([media EXCEPT !.producers[x] = v])
    BY <1>1, <1>3, <1>5, TrackAsked
  <1>7. QED
    BY <1>4, <1>6, CollectedInv

LEMMA ProduceRefusedInv ==
    ASSUME RoomInv(media), NEW x \in Producers, ProduceRefused(x)
    PROVE  RoomInv(media')
  <1>1. media' = Collected([media EXCEPT !.producers[x] = Nothing])
    BY DEF ProduceRefused, Become
  <1>2. media.producers[x].state \in {"none", "making"} /\ Nothing.state = "none"
    BY DEF ProduceRefused, Nothing
  <1>3. RoomInv([media EXCEPT !.producers[x] = Nothing])
    BY <1>2, TrackAsked
  <1>4. QED
    BY <1>1, <1>3, CollectedInv

LEMMA CloseProducerInv ==
    ASSUME RoomInv(media), NEW x \in Producers, CloseProducer(x)
    PROVE  RoomInv(media')
  <1>1. {x} \subseteq In(media.producers, {"open"})
    BY DEF CloseProducer, RoomInv, Room, In
  <1>2. RoomInv(CloseProducers(media, {x}))
    BY <1>1, CloseProducersInv
  <1>3. QED
    BY <1>2, CollectedInv DEF CloseProducer, Become

-----------------------------------------------------------------------------
(* What opens weighs from now on.                                          *)

\* Room n is room m with X, C and B open besides.
LEMMA UnitsFollowOpening ==
    ASSUME NEW m, UnitsAreSound(m), NEW n, n \in Room, NEW X, NEW C, NEW B, Closes(n, m, X, C, B)
    PROVE  UnitsAreSound(n)
  <1> DEFINE PO == In(n.producers, {"open"})
             CO == In(n.consumers, {"open"})
             BO == In(n.bridges, {"open"})
  <1>1. IsFiniteSet(PO) /\ IsFiniteSet(CO) /\ IsFiniteSet(BO)
    BY OpenAreFinite
  <1>2. X \subseteq PO /\ C \subseteq CO /\ B \subseteq BO
    BY DEF Closes
  <1>3. IsFiniteSet(X) /\ IsFiniteSet(C) /\ IsFiniteSet(B)
    BY <1>1, <1>2, FS_Subset
  <1> SUFFICES ASSUME NEW w \in Workers
               PROVE  n.units[w] = ProducerUnits(n, PO, w) + ConsumerUnits(n, CO, w)
                                     + BridgeUnits(n, BO, w)
    BY DEF UnitsAreSound
  <1>4. /\ ProducerUnits(m, In(m.producers, {"open"}), w) = ProducerUnits(n, In(m.producers, {"open"}), w)
        /\ ConsumerUnits(m, In(m.consumers, {"open"}), w) = ConsumerUnits(n, In(m.consumers, {"open"}), w)
        /\ BridgeUnits(m, In(m.bridges, {"open"}), w) = BridgeUnits(n, In(m.bridges, {"open"}), w)
    BY ProducersWeighTheSame, ConsumersWeighTheSame, BridgesWeighTheSame DEF Closes
  <1>5. /\ In(m.producers, {"open"}) = PO \ X
        /\ In(m.consumers, {"open"}) = CO \ C
        /\ In(m.bridges, {"open"}) = BO \ B
    BY DEF Closes
  <1>6. m.units[w] = n.units[w] - ProducerUnits(n, X, w) - ConsumerUnits(n, C, w) - BridgeUnits(n, B, w)
    BY DEF Closes
  <1>7. m.units[w] = ProducerUnits(m, In(m.producers, {"open"}), w)
                       + ConsumerUnits(m, In(m.consumers, {"open"}), w)
                       + BridgeUnits(m, In(m.bridges, {"open"}), w)
    BY DEF UnitsAreSound
  <1> HIDE DEF PO, CO, BO
  <1>8. /\ ProducerUnits(n, PO \ X, w) = ProducerUnits(n, PO, w) - ProducerUnits(n, X, w)
        /\ ConsumerUnits(n, CO \ C, w) = ConsumerUnits(n, CO, w) - ConsumerUnits(n, C, w)
        /\ BridgeUnits(n, BO \ B, w) = BridgeUnits(n, BO, w) - BridgeUnits(n, B, w)
    <2>1. ProducerUnits(n, PO \ X, w) = ProducerUnits(n, PO, w) - ProducerUnits(n, X, w)
      BY <1>1, <1>2, UnitsSplit
    <2>2. ConsumerUnits(n, CO \ C, w) = ConsumerUnits(n, CO, w) - ConsumerUnits(n, C, w)
      BY <1>1, <1>2, UnitsSplit
    <2>3. BridgeUnits(n, BO \ B, w) = BridgeUnits(n, BO, w) - BridgeUnits(n, B, w)
      BY <1>1, <1>2, UnitsSplit
    <2>4. QED
      BY <2>1, <2>2, <2>3
  <1>9. /\ ProducerUnits(n, PO, w) \in Nat /\ ProducerUnits(n, X, w) \in Nat
        /\ ConsumerUnits(n, CO, w) \in Nat /\ ConsumerUnits(n, C, w) \in Nat
        /\ BridgeUnits(n, BO, w) \in Nat /\ BridgeUnits(n, B, w) \in Nat
    BY <1>1, <1>3, UnitsAreNumbers
  <1>10. /\ ProducerUnits(m, In(m.producers, {"open"}), w) = ProducerUnits(n, PO, w) - ProducerUnits(n, X, w)
         /\ ConsumerUnits(m, In(m.consumers, {"open"}), w) = ConsumerUnits(n, CO, w) - ConsumerUnits(n, C, w)
         /\ BridgeUnits(m, In(m.bridges, {"open"}), w) = BridgeUnits(n, BO, w) - BridgeUnits(n, B, w)
    BY <1>4, <1>5, <1>8
  <1>11. n.units[w] \in Int
    BY DEF Room
  <1>12. QED
    BY <1>6, <1>7, <1>9, <1>10, <1>11

LEMMA OneProducerWeighs ==
    ASSUME NEW m, NEW x, m.producers[x].kind \in Kinds, NEW w
    PROVE  ProducerUnits(m, {x}, w)
             = IF OwnerHome(m, x) = w THEN Weight(m.producers[x].kind) ELSE 0
  <1>1. ProducerUnits(m, {} \cup {x}, w)
          = ProducerUnits(m, {}, w) + (IF OwnerHome(m, x) = w THEN Weight(m.producers[x].kind) ELSE 0)
    BY FS_EmptySet, ProducerUnitsGrow
  <1>2. {} \cup {x} = {x}
    OBVIOUS
  <1>3. ProducerUnits(m, {}, w) = 0 /\ Weight(m.producers[x].kind) \in Int
    BY NothingWeighs, WeightIsKnown
  <1>4. QED
    BY <1>1, <1>2, <1>3

LEMMA OneConsumerWeighs ==
    ASSUME NEW m, NEW c, m.producers[m.consumers[c].source].kind \in Kinds, NEW w
    PROVE  ConsumerUnits(m, {c}, w)
             = IF Home[m.consumers[c].owner] = w
               THEN Weight(m.producers[m.consumers[c].source].kind) ELSE 0
  <1>1. ConsumerUnits(m, {} \cup {c}, w)
          = ConsumerUnits(m, {}, w)
              + (IF Home[m.consumers[c].owner] = w
                 THEN Weight(m.producers[m.consumers[c].source].kind) ELSE 0)
    BY FS_EmptySet, ConsumerUnitsGrow
  <1>2. {} \cup {c} = {c}
    OBVIOUS
  <1>3. ConsumerUnits(m, {}, w) = 0 /\ Weight(m.producers[m.consumers[c].source].kind) \in Int
    BY NothingWeighs, WeightIsKnown
  <1>4. QED
    BY <1>1, <1>2, <1>3

LEMMA OneBridgeWeighs ==
    ASSUME NEW m, NEW b, m.producers[m.bridges[b].source].kind \in Kinds, NEW w
    PROVE  BridgeUnits(m, {b}, w)
             = IF w \in {m.bridges[b].to, OwnerHome(m, m.bridges[b].source)}
               THEN Weight(m.producers[m.bridges[b].source].kind) ELSE 0
  <1>1. BridgeUnits(m, {} \cup {b}, w)
          = BridgeUnits(m, {}, w)
              + (IF w \in {m.bridges[b].to, OwnerHome(m, m.bridges[b].source)}
                 THEN Weight(m.producers[m.bridges[b].source].kind) ELSE 0)
    BY FS_EmptySet, BridgeUnitsGrow
  <1>2. {} \cup {b} = {b}
    OBVIOUS
  <1>3. BridgeUnits(m, {}, w) = 0 /\ Weight(m.producers[m.bridges[b].source].kind) \in Int
    BY NothingWeighs, WeightIsKnown
  <1>4. QED
    BY <1>1, <1>2, <1>3

\* A track that was being made, and will be the only one of its kind.
OnlyOne(m, x) ==
    /\ m.producers[x].state = "making"
    /\ \A y \in In(m.producers, {"open"}) :
           ~ (/\ m.producers[y].owner = m.producers[x].owner
              /\ m.producers[y].kind = m.producers[x].kind)

TrackOpened(m, x) ==
    [m EXCEPT !.producers[x].state = "open", !.onAir = @ \cup {x},
              !.units[Home[m.producers[x].owner]] = @ + Weight(m.producers[x].kind)]

LEMMA TrackOpens ==
    ASSUME NEW m, RoomInv(m), NEW x \in Producers, OnlyOne(m, x), NEW n, n = TrackOpened(m, x)
    PROVE  RoomInv(n)
  <1> DEFINE h == Home[m.producers[x].owner]
             k == Weight(m.producers[x].kind)
             A == [m.producers EXCEPT ![x].state = "open"]
             U == [m.units EXCEPT ![h] = @ + k]
             O == m.onAir \cup {x}
  <1>0. /\ m \in Room /\ m.producers \in [Producers -> {Nothing} \cup Producer]
        /\ m.units \in [Workers -> Int] /\ m.onAir \subseteq Producers
    BY DEF RoomInv, Room
  <1>1. m.producers[x] \in Producer /\ m.producers[x].state = "making"
    BY <1>0 DEF Nothing, OnlyOne
  <1>2. h \in Workers /\ k \in Int /\ m.producers[x].kind \in Kinds
    BY <1>1, WeightIsKnown DEF Producer, Workers
  <1>u. \A y \in In(m.producers, {"open"}) :
            ~ (/\ m.producers[y].owner = m.producers[x].owner
               /\ m.producers[y].kind = m.producers[x].kind)
    BY DEF OnlyOne
  <1>3. n = [m EXCEPT !.producers = A, !.onAir = O, !.units = U]
    BY <1>0 DEF TrackOpened
  <1>4. /\ A \in [Producers -> {Nothing} \cup Producer]
        /\ \A y \in Producers : y # x => A[y] = m.producers[y]
        /\ A[x] \in Producer /\ A[x].state = "open"
        /\ A[x].owner = m.producers[x].owner /\ A[x].kind = m.producers[x].kind
        /\ A[x].transport = m.producers[x].transport
    BY <1>0, <1>1 DEF Producer
  <1>5. /\ U \in [Workers -> Int] /\ O \subseteq Producers
        /\ \A w \in Workers : U[w] = m.units[w] + (IF h = w THEN k ELSE 0)
    BY <1>0, <1>2
  <1> HIDE DEF A, U, O, h, k
  <1>6. /\ n.producers = A /\ n.onAir = O /\ n.units = U
        /\ n.peers = m.peers /\ n.transports = m.transports
        /\ n.consumers = m.consumers /\ n.bridges = m.bridges /\ n.pipes = m.pipes
        /\ n \in Room
    BY <1>0, <1>3, <1>4, <1>5 DEF Room
  <1>7. /\ \A y \in Producers : y # x => n.producers[y] = m.producers[y]
        /\ n.producers[x].state = "open"
        /\ n.producers[x].owner = m.producers[x].owner
        /\ n.producers[x].kind = m.producers[x].kind
        /\ n.producers[x].transport = m.producers[x].transport
    BY <1>4, <1>6
  <1>8. \A y \in Producers : m.producers[y].state \in {"open", "gone"} =>
            y # x /\ n.producers[y] = m.producers[y]
    BY <1>1, <1>7
  <1>9. /\ \A y : y \in In(n.producers, {"making", "open"}) <=>
                    y \in Producers /\ n.producers[y].state \in {"making", "open"}
        /\ \A y : y \in In(n.producers, {"open"}) <=>
                    y \in Producers /\ n.producers[y].state = "open"
        /\ \A y : y \in In(m.producers, {"making", "open"}) <=>
                    y \in Producers /\ m.producers[y].state \in {"making", "open"}
        /\ \A y : y \in In(m.producers, {"open"}) <=>
                    y \in Producers /\ m.producers[y].state = "open"
    BY <1>0, <1>4, <1>6 DEF In
  <1>10. /\ In(n.producers, {"open"}) = In(m.producers, {"open"}) \cup {x}
         /\ In(m.producers, {"open"}) = In(n.producers, {"open"}) \ {x}
    BY <1>1, <1>7, <1>9
  <1>11. PeersAreSound(n)
    BY <1>6 DEF RoomInv, PeersAreSound
  <1>12. TransportsAreSound(n)
    BY <1>6 DEF RoomInv, TransportsAreSound
  <1>13. ProducersAreSound(n)
    <2>1. ASSUME NEW y \in In(n.producers, {"making", "open"})
          PROVE  n.peers[n.producers[y].owner].send = n.producers[y].transport
      <3>1. y \in In(m.producers, {"making", "open"})
        BY <1>1, <1>7, <1>9
      <3>2. m.peers[m.producers[y].owner].send = m.producers[y].transport
        BY <3>1 DEF RoomInv, ProducersAreSound
      <3>3. n.producers[y].owner = m.producers[y].owner /\ n.producers[y].transport = m.producers[y].transport
        BY <1>7, <1>9, <3>1
      <3>4. QED
        BY <1>6, <3>2, <3>3
    <2>2. n.onAir = In(n.producers, {"open"})
      BY <1>6, <1>10 DEF RoomInv, ProducersAreSound, O
    <2>3. ASSUME NEW y \in In(n.producers, {"open"}), NEW z \in In(n.producers, {"open"}),
                 n.producers[y].owner = n.producers[z].owner,
                 n.producers[y].kind = n.producers[z].kind
          PROVE  y = z
      <3>1. \A v \in In(n.producers, {"open"}) :
                /\ n.producers[v].owner = m.producers[v].owner
                /\ n.producers[v].kind = m.producers[v].kind
                /\ v = x \/ v \in In(m.producers, {"open"})
        BY <1>7, <1>9, <1>10
      <3>2. \A v, w \in In(m.producers, {"open"}) :
                m.producers[v].owner = m.producers[w].owner
                  /\ m.producers[v].kind = m.producers[w].kind => v = w
        BY DEF RoomInv, ProducersAreSound
      <3>3. QED
        BY <1>u, <2>3, <3>1, <3>2
    <2>4. QED
      BY <2>1, <2>2, <2>3 DEF ProducersAreSound
  <1>14. ConsumersAreSound(n)
    BY <1>6, <1>8, SourcesAreTracks DEF RoomInv, ConsumersAreSound
  <1>15. BridgesAreSound(n)
    BY <1>6, <1>8, SourcesAreTracks DEF RoomInv, BridgesAreSound
  <1>16. PipesAreSound(n)
    <2>1. \A y : y \in m.onAir => y \in n.onAir
      BY <1>6 DEF O
    <2>2. \A b \in In(m.bridges, {"making", "open"}) :
              m.bridges[b].source \in n.onAir => m.bridges[b].source \in m.onAir
      <3>1. In(m.bridges, {"making", "open"}) \subseteq In(m.bridges, {"making", "open", "gone"})
        BY DEF In
      <3>2. QED
        BY <1>6, <1>8, <3>1, SourcesAreTracks DEF O
    <2>3. QED
      BY <1>6, <2>1, <2>2 DEF RoomInv, PipesAreSound
  <1>17. UnitsAreSound(n)
    <2>1. /\ In(m.consumers, {"open"}) \subseteq In(m.consumers, {"piping", "making", "open"})
          /\ In(m.bridges, {"open"}) \subseteq In(m.bridges, {"making", "open", "gone"})
      BY DEF In
    <2>2. /\ \A c \in In(m.consumers, {"open"}) :
                 n.producers[m.consumers[c].source] = m.producers[m.consumers[c].source]
          /\ \A b \in In(m.bridges, {"open"}) :
                 n.producers[m.bridges[b].source] = m.producers[m.bridges[b].source]
      BY <1>8, <2>1, SourcesAreTracks
    <2>3. \A y \in In(m.producers, {"open"}) : n.producers[y] = m.producers[y]
      BY <1>8, <1>9
    <2>4. \A w \in Workers : m.units[w] = n.units[w] - ProducerUnits(n, {x}, w)
                                            - ConsumerUnits(n, {}, w) - BridgeUnits(n, {}, w)
      <3>1. \A w : ProducerUnits(n, {x}, w) = IF h = w THEN k ELSE 0
        BY <1>2, <1>7, OneProducerWeighs DEF OwnerHome, h, k
      <3>2. \A w : ConsumerUnits(n, {}, w) = 0 /\ BridgeUnits(n, {}, w) = 0
        BY NothingWeighs
      <3>3. \A w \in Workers : m.units[w] \in Int
        BY <1>0
      <3>4. \A w \in Workers : n.units[w] = m.units[w] + (IF h = w THEN k ELSE 0)
        BY <1>5, <1>6
      <3>5. ASSUME NEW w \in Workers, NEW a \in Int, a = (IF h = w THEN k ELSE 0)
            PROVE  m.units[w] = n.units[w] - a - 0 - 0
        BY <3>3, <3>4, <3>5
      <3>6. \A w \in Workers : (IF h = w THEN k ELSE 0) \in Int
        BY <1>2
      <3>7. QED
        BY <3>1, <3>2, <3>5, <3>6
    <2>5. Closes(n, m, {x}, {}, {})
      <3>1. /\ In(m.consumers, {"open"}) = In(n.consumers, {"open"}) \ {}
            /\ In(m.bridges, {"open"}) = In(n.bridges, {"open"}) \ {}
            /\ {x} \subseteq In(n.producers, {"open"})
        BY <1>6, <1>10
      <3>2. QED
        BY <1>6, <1>10, <2>2, <2>3, <2>4, <3>1 DEF Closes
    <2>6. QED
      BY <1>6, <2>5, UnitsFollowOpening DEF RoomInv
  <1>18. QED
    BY <1>6, <1>11, <1>12, <1>13, <1>14, <1>15, <1>16, <1>17 DEF RoomInv

LEMMA ProducerReadyInv ==
    ASSUME RoomInv(media), NEW x \in Producers, ProducerReady(x)
    PROVE  RoomInv(media')
  <1> DEFINE made == media.producers[x]
             F == {y \in In(media.producers, {"open"}) :
                      media.producers[y].owner = made.owner
                        /\ media.producers[y].kind = made.kind}
  <1>0. media \in Room /\ DOMAIN media.producers = Producers
    BY DEF RoomInv, Room
  <1>1. made.state = "making"
    BY DEF ProducerReady
  <1>2. PICK q : q = CloseProducers(media, F)
    OBVIOUS
  <1>3. media' = Collected([q EXCEPT !.producers[x].state = "open", !.onAir = @ \cup {x},
                                     !.units[Home[made.owner]] = @ + Weight(made.kind)])
    BY <1>2 DEF ProducerReady, Become
  <1>4. F \subseteq In(media.producers, {"open"}) /\ x \notin F
    BY <1>1 DEF In
  <1>5. \A y \in Producers : y \notin F /\ media.producers[y].state = "open" =>
            ~ (media.producers[y].owner = made.owner /\ media.producers[y].kind = made.kind)
    BY <1>0 DEF In
  <1> HIDE DEF F
  <1>6. RoomInv(q)
    BY <1>2, <1>4, CloseProducersInv
  <1>7. \A y \in Producers :
            q.producers[y] = IF y \in F THEN [media.producers[y] EXCEPT !.state = "gone"]
                             ELSE media.producers[y]
    BY <1>0, <1>2, <1>4, ClosingProducers
  <1>8. q.producers[x] = made
    BY <1>4, <1>7
  <1>9. \A y \in F : y \in Producers /\ q.producers[y].state = "gone"
    <2>1. \A y \in F : y \in Producers /\ media.producers[y] \in Producer
      BY <1>0, <1>4, InRoom
    <2>2. QED
      BY <1>7, <2>1 DEF Producer
  <1>10. \A y \in In(q.producers, {"open"}) :
             ~ (/\ q.producers[y].owner = made.owner /\ q.producers[y].kind = made.kind)
    <2>1. \A y \in In(q.producers, {"open"}) : y \in Producers /\ q.producers[y].state = "open"
      BY <1>6 DEF In, RoomInv, Room
    <2>2. QED
      BY <1>5, <1>7, <1>9, <2>1
  <1> HIDE DEF made
  <1>11. RoomInv([q EXCEPT !.producers[x].state = "open", !.onAir = @ \cup {x},
                           !.units[Home[made.owner]] = @ + Weight(made.kind)])
    <2>1. OnlyOne(q, x)
      BY <1>1, <1>8, <1>10 DEF OnlyOne
    <2>2. RoomInv(TrackOpened(q, x))
      BY <1>6, <2>1, TrackOpens
    <2>3. QED
      BY <1>8, <2>2 DEF TrackOpened
  <1>12. QED
    BY <1>3, <1>11, CollectedInv

-----------------------------------------------------------------------------
(* Subscribing.                                                            *)

\* One more bridge in the making, to a Worker that had none for this track.
BridgeAsked(m, w, x) ==
    [m EXCEPT !.bridges[New(m.bridges)] = [state |-> "making", to |-> w, source |-> x,
                                           cut |-> FALSE],
              !.pipes[<<w, x>>] = New(m.bridges)]

LEMMA BridgeAskedInv ==
    ASSUME NEW m, RoomInv(m), NEW w \in Workers, NEW x \in m.onAir, HasNew(m.bridges),
           m.pipes[<<w, x>>] = None, NEW n, n = BridgeAsked(m, w, x)
    PROVE  /\ RoomInv(n) /\ New(m.bridges) \in Bridges
           /\ n.peers = m.peers /\ n.producers = m.producers /\ n.consumers = m.consumers
  <1> DEFINE a == New(m.bridges)
             v == [state |-> "making", to |-> w, source |-> x, cut |-> FALSE]
             A == [m.bridges EXCEPT ![a] = v]
             Q == [m.pipes EXCEPT ![<<w, x>>] = a]
  <1>0. /\ m \in Room /\ m.bridges \in [Bridges -> {Nothing} \cup Bridge]
        /\ m.pipes \in [Workers \X Producers -> Bridges \cup {None}]
        /\ m.onAir = In(m.producers, {"open"})
    BY DEF RoomInv, Room, ProducersAreSound
  <1>1. a \in Bridges /\ m.bridges[a] = Nothing
    BY <1>0, NewIsFree
  <1>2. x \in Producers /\ m.producers[x].state = "open"
    BY <1>0 DEF In, Room
  <1>3. v \in Bridge /\ v.state = "making" /\ v.to = w /\ v.source = x /\ ~v.cut
    BY <1>2 DEF Bridge
  <1>p. m.pipes[<<w, x>>] = None /\ x \in m.onAir
    OBVIOUS
  <1>4. n = [m EXCEPT !.bridges = A, !.pipes = Q]
    BY <1>0 DEF BridgeAsked
  <1> HIDE DEF a, v
  <1>5. /\ A \in [Bridges -> {Nothing} \cup Bridge]
        /\ A[a] = v /\ \A b \in Bridges : b # a => A[b] = m.bridges[b]
    BY <1>0, <1>1, <1>3
  <1>6. /\ Q \in [Workers \X Producers -> Bridges \cup {None}]
        /\ Q[<<w, x>>] = a
        /\ \A k \in Workers \X Producers : k # <<w, x>> => Q[k] = m.pipes[k]
    BY <1>0, <1>1, <1>2
  <1> HIDE DEF A, Q
  <1>7. /\ n.bridges = A /\ n.pipes = Q /\ n.peers = m.peers /\ n.transports = m.transports
        /\ n.producers = m.producers /\ n.consumers = m.consumers
        /\ n.onAir = m.onAir /\ n.units = m.units /\ n \in Room
    BY <1>0, <1>4, <1>5, <1>6 DEF Room
  <1>8. /\ n.bridges[a].state = "making" /\ n.bridges[a].to = w /\ n.bridges[a].source = x
        /\ ~n.bridges[a].cut
        /\ \A b \in Bridges : b # a => n.bridges[b] = m.bridges[b]
        /\ m.bridges[a].state = "none"
    BY <1>1, <1>3, <1>5, <1>7 DEF Nothing
  <1>9. ASSUME NEW states, NEW b
        PROVE  /\ b \in In(n.bridges, states) <=> b \in Bridges /\ n.bridges[b].state \in states
               /\ b \in In(m.bridges, states) <=> b \in Bridges /\ m.bridges[b].state \in states
    BY <1>0, <1>5, <1>7 DEF In
  <1>10. /\ PeersAreSound(n) /\ TransportsAreSound(n)
    BY <1>7 DEF RoomInv, PeersAreSound, TransportsAreSound
  <1>11. ProducersAreSound(n)
    BY <1>7 DEF RoomInv, ProducersAreSound
  <1>12. ConsumersAreSound(n)
    BY <1>7 DEF RoomInv, ConsumersAreSound
  <1>13. BridgesAreSound(n)
    <2> SUFFICES ASSUME NEW b \in In(n.bridges, {"making", "open", "gone"})
                 PROVE  n.producers[n.bridges[b].source].state \in {"open", "gone"}
      BY DEF BridgesAreSound
    <2>1. CASE b = a
      BY <1>2, <1>7, <1>8, <2>1
    <2>2. CASE b # a
      <3>1. b \in In(m.bridges, {"making", "open", "gone"}) /\ n.bridges[b] = m.bridges[b]
        BY <1>8, <1>9, <2>2
      <3>2. QED
        BY <1>7, <3>1 DEF RoomInv, BridgesAreSound
    <2>3. QED
      BY <2>1, <2>2
  <1>14. PipesAreSound(n)
    <2>1. ASSUME NEW u \in Workers, NEW y \in Producers, n.pipes[<<u, y>>] # None
          PROVE  /\ y \in n.onAir
                 /\ n.bridges[n.pipes[<<u, y>>]].state \in {"making", "open"}
                 /\ ~n.bridges[n.pipes[<<u, y>>]].cut
                 /\ n.bridges[n.pipes[<<u, y>>]].to = u
                 /\ n.bridges[n.pipes[<<u, y>>]].source = y
      <3>1. CASE <<u, y>> = <<w, x>>
        <4>1. u = w /\ y = x /\ n.pipes[<<u, y>>] = a
          BY <1>6, <1>7, <3>1
        <4>2. QED
          BY <1>7, <1>8, <4>1
      <3>2. CASE <<u, y>> # <<w, x>>
        <4>1. n.pipes[<<u, y>>] = m.pipes[<<u, y>>] /\ m.pipes[<<u, y>>] # None
          BY <1>6, <1>7, <2>1, <3>2
        <4>2. PICK b \in Bridges : b = m.pipes[<<u, y>>]
          BY <1>0, <4>1
        <4>3. /\ y \in m.onAir /\ m.bridges[b].state \in {"making", "open"} /\ ~m.bridges[b].cut
              /\ m.bridges[b].to = u /\ m.bridges[b].source = y
          BY <4>1, <4>2 DEF RoomInv, PipesAreSound
        <4>4. b # a /\ n.bridges[b] = m.bridges[b]
          BY <1>8, <4>3
        <4>5. QED
          BY <1>7, <4>1, <4>2, <4>3, <4>4
      <3>3. QED
        BY <3>1, <3>2
    <2>2. ASSUME NEW b \in In(n.bridges, {"making", "open"}),
                 n.bridges[b].source \in n.onAir, ~n.bridges[b].cut
          PROVE  n.pipes[<<n.bridges[b].to, n.bridges[b].source>>] = b
      <3>1. CASE b = a
        BY <1>6, <1>7, <1>8, <3>1
      <3>2. CASE b # a
        <4>1. n.bridges[b] = m.bridges[b] /\ b \in In(m.bridges, {"making", "open"})
          BY <1>8, <1>9, <3>2
        <4>2. m.pipes[<<m.bridges[b].to, m.bridges[b].source>>] = b
          BY <1>7, <2>2, <4>1 DEF RoomInv, PipesAreSound
        <4>3. <<m.bridges[b].to, m.bridges[b].source>> \in Workers \X Producers /\ b # None
          <5>1. \A d \in Bridges : d # None
            BY MediaAssumption
          <5>2. b \in Bridges /\ m.bridges[b] \in Bridge
            BY <1>0, <4>1, InRoom
          <5>3. QED
            BY <5>1, <5>2 DEF Bridge
        <4>4. <<m.bridges[b].to, m.bridges[b].source>> # <<w, x>>
          BY <1>p, <4>2, <4>3
        <4>5. QED
          BY <1>6, <1>7, <4>1, <4>2, <4>3, <4>4
      <3>3. QED
        BY <3>1, <3>2
    <2>3. QED
      BY <2>1, <2>2 DEF PipesAreSound
  <1>15. UnitsAreSound(n)
    <2>0. \A b : /\ b \in In(n.bridges, {"open"}) <=> b \in Bridges /\ n.bridges[b].state = "open"
                 /\ b \in In(m.bridges, {"open"}) <=> b \in Bridges /\ m.bridges[b].state = "open"
      BY <1>9
    <2>1. In(n.bridges, {"open"}) = In(m.bridges, {"open"})
      BY <1>8, <2>0
    <2>2. \A b \in In(m.bridges, {"open"}) : n.bridges[b] = m.bridges[b]
      BY <1>8, <2>0
    <2>3. Stays(m, n)
      <3>1. /\ n.producers = m.producers /\ n.consumers = m.consumers /\ n.units = m.units
        BY <1>7
      <3>2. QED
        BY <2>1, <2>2, <3>1 DEF Stays
    <2>4. QED
      BY <1>0, <2>3, UnitsStay DEF RoomInv
  <1>16. QED
    BY <1>1, <1>7, <1>10, <1>11, <1>12, <1>13, <1>14, <1>15 DEF RoomInv, a

\* What a subscription still under way must be.
Asked(m, v) ==
    /\ v \in {Nothing} \cup Consumer /\ v.state \in {"none", "piping", "making"}
    /\ v # Nothing => /\ m.peers[v.owner].recv = v.transport
                      /\ m.producers[v.source].state \in {"open", "gone"}

LEMMA SubscriptionAsked ==
    ASSUME NEW m, RoomInv(m), NEW c \in Consumers, m.consumers[c].state # "open",
           NEW v, Asked(m, v), NEW n, n = [m EXCEPT !.consumers[c] = v]
    PROVE  RoomInv(n)
  <1>0. m \in Room /\ m.consumers \in [Consumers -> {Nothing} \cup Consumer]
    BY DEF RoomInv, Room
  <1>1. /\ n.consumers = [m.consumers EXCEPT ![c] = v] /\ n.peers = m.peers
        /\ n.transports = m.transports /\ n.producers = m.producers /\ n.bridges = m.bridges
        /\ n.onAir = m.onAir /\ n.pipes = m.pipes /\ n.units = m.units
        /\ n \in Room
    BY <1>0 DEF Room, Asked
  <1>2. /\ \A d \in Consumers : d # c => n.consumers[d] = m.consumers[d]
        /\ n.consumers[c] = v
        /\ DOMAIN n.consumers = Consumers /\ DOMAIN m.consumers = Consumers
        /\ v.state \in {"none", "piping", "making"}
    BY <1>0, <1>1 DEF Asked
  <1>3. /\ In(n.consumers, {"open"}) = In(m.consumers, {"open"})
        /\ \A d \in In(m.consumers, {"open"}) : n.consumers[d] = m.consumers[d]
    BY <1>2 DEF In
  <1>4. PeersAreSound(n) /\ TransportsAreSound(n)
    BY <1>1 DEF RoomInv, PeersAreSound, TransportsAreSound
  <1>5. ProducersAreSound(n)
    BY <1>1 DEF RoomInv, ProducersAreSound
  <1>6. ConsumersAreSound(n)
    <2> SUFFICES ASSUME NEW d \in In(n.consumers, {"piping", "making", "open"})
                 PROVE  /\ n.peers[n.consumers[d].owner].recv = n.consumers[d].transport
                        /\ n.producers[n.consumers[d].source].state \in {"open", "gone"}
      BY DEF ConsumersAreSound
    <2>1. CASE d = c
      <3>1. v # Nothing
        BY <1>2, <2>1 DEF In, Nothing
      <3>2. QED
        BY <1>1, <1>2, <2>1, <3>1 DEF Asked
    <2>2. CASE d # c
      <3>1. d \in In(m.consumers, {"piping", "making", "open"}) /\ n.consumers[d] = m.consumers[d]
        BY <1>2, <2>2 DEF In
      <3>2. QED
        BY <1>1, <3>1 DEF RoomInv, ConsumersAreSound
    <2>3. QED
      BY <2>1, <2>2
  <1>7. BridgesAreSound(n)
    BY <1>1 DEF RoomInv, BridgesAreSound
  <1>8. PipesAreSound(n)
    BY <1>1 DEF RoomInv, PipesAreSound
  <1>9. UnitsAreSound(n)
    <2>1. Stays(m, n)
      BY <1>1, <1>3 DEF Stays
    <2>2. QED
      BY <1>0, <2>1, UnitsStay DEF RoomInv
  <1>10. QED
    BY <1>1, <1>4, <1>5, <1>6, <1>7, <1>8, <1>9 DEF RoomInv

\* What a peer that can receive asks for, of a track on the air.
LEMMA SubscriptionIsAsked ==
    ASSUME RoomInv(media), NEW p \in Peers, media.peers[p].recv # None,
           NEW x \in media.onAir, NEW state \in {"piping", "making"},
           NEW b \in Bridges \cup {None}
    PROVE  /\ Asked(media, Subscription(state, p, x, b))
           /\ \A c \in Consumers : media.consumers[c] = Nothing => media.consumers[c].state # "open"
  <1> DEFINE v == Subscription(state, p, x, b)
  <1>1. media \in Room
    BY DEF RoomInv
  <1>2. media.peers[p].recv \in Transports
    BY <1>1 DEF Room, Peer
  <1>3. x \in Producers /\ media.producers[x].state = "open"
    <2>1. x \in In(media.producers, {"open"})
      BY DEF RoomInv, ProducersAreSound
    <2>2. QED
      BY <1>1, <2>1 DEF In, Room
  <1>4. /\ v \in Consumer /\ v.state = state /\ v.owner = p /\ v.source = x
        /\ v.transport = media.peers[p].recv
    BY <1>2, <1>3 DEF Subscription, Consumer
  <1> HIDE DEF v
  <1>5. Asked(media, v)
    BY <1>3, <1>4 DEF Asked
  <1>6. \A c \in Consumers : media.consumers[c] = Nothing => media.consumers[c].state # "open"
    BY DEF Nothing
  <1>7. QED
    BY <1>5, <1>6 DEF v

LEMMA ConsumeAtHomeInv ==
    ASSUME RoomInv(media), NEW p \in Peers, NEW x \in Producers, ConsumeAtHome(p, x)
    PROVE  RoomInv(media')
  <1> DEFINE c == New(media.consumers)
             v == Subscription("making", p, x, None)
  <1>1. DOMAIN media.consumers = Consumers
    BY DEF RoomInv, Room
  <1>2. c \in Consumers /\ media.consumers[c] = Nothing
    BY <1>1, NewIsFree DEF ConsumeAtHome
  <1>3. Asked(media, v) /\ media.consumers[c].state # "open"
    <2>1. media.peers[p].recv # None /\ x \in media.onAir
      BY DEF ConsumeAtHome
    <2>2. QED
      BY <1>2, <2>1, SubscriptionIsAsked
  <1>4. media' = Collected([media EXCEPT !.consumers[c] = v])
    BY DEF ConsumeAtHome, Become
  <1> HIDE DEF c, v
  <1>5. RoomInv([media EXCEPT !.consumers[c] = v])
    BY <1>2, <1>3, SubscriptionAsked
  <1>6. QED
    BY <1>4, <1>5, CollectedInv

LEMMA ConsumeElsewhereInv ==
    ASSUME RoomInv(media), NEW p \in Peers, NEW x \in Producers, ConsumeElsewhere(p, x)
    PROVE  RoomInv(media')
  <1> DEFINE c == New(media.consumers)
             k == <<Home[p], x>>
             r == EnsurePiped(media, Home[p], x)
  <1>0. media \in Room
    BY DEF RoomInv
  <1>1. DOMAIN media.consumers = Consumers /\ media.pipes[k] \in Bridges \cup {None}
    BY <1>0 DEF Room, Workers
  <1>2. c \in Consumers /\ media.consumers[c] = Nothing
    BY <1>1, NewIsFree DEF ConsumeElsewhere
  <1>3. /\ media.peers[p].recv # None /\ x \in media.onAir /\ HasNew(media.bridges)
        /\ Home[p] \in Workers
    BY DEF ConsumeElsewhere, Workers
  <1>4. /\ RoomInv(r.m) /\ r.bridge \in Bridges
        /\ r.m.peers = media.peers /\ r.m.producers = media.producers
        /\ r.m.consumers = media.consumers
    <2>1. CASE media.pipes[k] # None
      <3>1. r.m = media /\ r.bridge = media.pipes[k]
        BY <2>1 DEF EnsurePiped
      <3>2. QED
        BY <1>1, <2>1, <3>1
    <2>2. CASE media.pipes[k] = None
      <3>1. r.m = BridgeAsked(media, Home[p], x) /\ r.bridge = New(media.bridges)
        BY <2>2 DEF EnsurePiped, BridgeAsked
      <3>2. PICK q : q = BridgeAsked(media, Home[p], x)
        OBVIOUS
      <3>3. /\ RoomInv(q) /\ New(media.bridges) \in Bridges
            /\ q.peers = media.peers /\ q.producers = media.producers
            /\ q.consumers = media.consumers
        BY <1>3, <2>2, <3>2, BridgeAskedInv
      <3>4. QED
        BY <3>1, <3>2, <3>3
    <2>3. QED
      BY <2>1, <2>2
  <1>5. media' = Collected([r.m EXCEPT !.consumers[c] = Subscription("piping", p, x, r.bridge)])
    BY DEF ConsumeElsewhere, Become
  <1> HIDE DEF c, r
  <1>6. PICK b \in Bridges : b = r.bridge
    BY <1>4
  <1>7. Asked(media, Subscription("piping", p, x, b)) /\ media.consumers[c].state # "open"
    BY <1>2, <1>3, SubscriptionIsAsked
  <1>8. PICK v : v = Subscription("piping", p, x, b)
    OBVIOUS
  <1>9. PICK q : q = r.m
    OBVIOUS
  <1>10. Asked(q, v) /\ q.consumers[c].state # "open" /\ RoomInv(q)
    BY <1>4, <1>7, <1>8, <1>9 DEF Asked
  <1>11. RoomInv([q EXCEPT !.consumers[c] = v])
    BY <1>2, <1>10, SubscriptionAsked
  <1>12. media' = Collected([q EXCEPT !.consumers[c] = v])
    BY <1>5, <1>6, <1>8, <1>9
  <1>13. QED
    BY <1>11, <1>12, CollectedInv

LEMMA PipedInv ==
    ASSUME RoomInv(media), NEW c \in Consumers, Piped(c)
    PROVE  RoomInv(media')
  <1>0. media \in Room /\ DOMAIN media.consumers = Consumers
    BY DEF RoomInv, Room
  <1>1. media.consumers[c].state = "piping" /\ c \in In(media.consumers, {"piping", "making", "open"})
    BY <1>0 DEF Piped, In
  <1>2. PICK v : v = [media.consumers[c] EXCEPT !.state = "making"]
    OBVIOUS
  <1>3. media.consumers[c] \in Consumer
    BY <1>0, <1>1, InRoom
  <1>4. /\ v \in Consumer /\ v.state = "making" /\ v.owner = media.consumers[c].owner
        /\ v.transport = media.consumers[c].transport /\ v.source = media.consumers[c].source
    BY <1>2, <1>3 DEF Consumer
  <1>5. Asked(media, v)
    BY <1>1, <1>4 DEF Asked, RoomInv, ConsumersAreSound
  <1>6. media' = Collected([media EXCEPT !.consumers[c] = v])
    BY <1>2 DEF Piped, Become
  <1>7. RoomInv([media EXCEPT !.consumers[c] = v])
    BY <1>1, <1>5, SubscriptionAsked
  <1>8. QED
    BY <1>6, <1>7, CollectedInv

LEMMA ConsumeRefusedInv ==
    ASSUME RoomInv(media), NEW c \in Consumers, ConsumeRefused(c)
    PROVE  RoomInv(media')
  <1>1. media' = Collected([media EXCEPT !.consumers[c] = Nothing])
    BY DEF ConsumeRefused, Become
  <1>2. media.consumers[c].state # "open" /\ Asked(media, Nothing)
    BY DEF ConsumeRefused, Asked, Nothing
  <1>3. RoomInv([media EXCEPT !.consumers[c] = Nothing])
    BY <1>2, SubscriptionAsked
  <1>4. QED
    BY <1>1, <1>3, CollectedInv

LEMMA ConsumerLearnsInv ==
    ASSUME RoomInv(media), NEW c \in Consumers, ConsumerLearns(c)
    PROVE  RoomInv(media')
  <1>1. {c} \subseteq In(media.consumers, {"open"})
    BY DEF ConsumerLearns, RoomInv, Room, In
  <1>2. RoomInv(CloseConsumers(media, {c}))
    BY <1>1, CloseConsumersInv
  <1>3. QED
    BY <1>2, CollectedInv DEF ConsumerLearns, Become

LEMMA BridgeLearnsInv ==
    ASSUME RoomInv(media), NEW b \in Bridges, BridgeLearns(b)
    PROVE  RoomInv(media')
  <1>1. {b} \subseteq In(media.bridges, {"open"})
    BY DEF BridgeLearns, RoomInv, Room, In
  <1>2. RoomInv(CloseBridges(media, {b}))
    BY <1>1, CloseBridgesInv
  <1>3. QED
    BY <1>2, CollectedInv DEF BridgeLearns, Become

LEMMA ConsumerReadyInv ==
    ASSUME RoomInv(media), NEW c \in Consumers, ConsumerReady(c)
    PROVE  RoomInv(media')
  <1> DEFINE made == media.consumers[c]
             h == Home[made.owner]
             k == Weight(media.producers[made.source].kind)
             A == [media.consumers EXCEPT ![c].state = "open"]
             U == [media.units EXCEPT ![h] = @ + k]
  <1>0. /\ media \in Room /\ media.consumers \in [Consumers -> {Nothing} \cup Consumer]
        /\ media.units \in [Workers -> Int]
    BY DEF RoomInv, Room
  <1>1. made.state = "making" /\ made \in Consumer
    BY <1>0 DEF ConsumerReady, Nothing
  <1>2. c \in In(media.consumers, {"piping", "making", "open"})
    BY <1>0, <1>1 DEF In
  <1>3. made.source \in Producers /\ media.producers[made.source].kind \in Kinds
    <2>1. /\ made.source \in Producers
          /\ media.producers[made.source].state \in {"open", "gone"}
      BY <1>2, SourcesAreTracks
    <2>2. media.producers[made.source] \in Producer
      BY <1>0, <2>1 DEF Room, Nothing
    <2>3. QED
      BY <2>1, <2>2 DEF Producer
  <1>4. h \in Workers /\ k \in Int
    BY <1>1, <1>3, WeightIsKnown DEF Consumer, Workers
  <1>5. PICK n : n = [media EXCEPT !.consumers[c].state = "open", !.units[h] = @ + k]
    OBVIOUS
  <1>6. media' = Collected(n)
    BY <1>5 DEF ConsumerReady, Become
  <1>7. n = [media EXCEPT !.consumers = A, !.units = U]
    BY <1>0, <1>5
  <1>8. /\ A \in [Consumers -> {Nothing} \cup Consumer]
        /\ \A d \in Consumers : d # c => A[d] = media.consumers[d]
        /\ A[c].state = "open" /\ A[c].owner = made.owner /\ A[c].source = made.source
        /\ A[c].transport = made.transport
    BY <1>0, <1>1 DEF Consumer
  <1> HIDE DEF h, k
  <1>9. /\ U \in [Workers -> Int]
        /\ \A w \in Workers : U[w] = media.units[w] + (IF h = w THEN k ELSE 0)
    <2>1. media.units[h] + k \in Int
      BY <1>0, <1>4
    <2>2. U = [media.units EXCEPT ![h] = media.units[h] + k]
      OBVIOUS
    <2> HIDE DEF U
    <2>3. U \in [Workers -> Int]
      BY <1>0, <2>1, <2>2
    <2>4. ASSUME NEW w \in Workers
          PROVE  U[w] = media.units[w] + (IF h = w THEN k ELSE 0)
      <3>1. CASE h = w
        BY <1>0, <2>2, <3>1
      <3>2. CASE h # w
        BY <1>0, <2>2, <3>2
      <3>3. QED
        BY <3>1, <3>2
    <2>5. QED
      BY <2>3, <2>4
  <1> USE DEF h
  <1> HIDE DEF A, U
  <1>10. /\ n.consumers = A /\ n.units = U
         /\ n.peers = media.peers /\ n.transports = media.transports
         /\ n.producers = media.producers /\ n.bridges = media.bridges
         /\ n.onAir = media.onAir /\ n.pipes = media.pipes /\ n \in Room
    BY <1>0, <1>7, <1>8, <1>9 DEF Room
  <1>11. /\ \A d \in Consumers : d # c => n.consumers[d] = media.consumers[d]
         /\ n.consumers[c].state = "open" /\ n.consumers[c].owner = made.owner
         /\ n.consumers[c].source = made.source /\ n.consumers[c].transport = made.transport
         /\ DOMAIN n.consumers = Consumers
    BY <1>8, <1>10
  <1>12. /\ {c} \subseteq In(n.consumers, {"open"})
         /\ In(media.consumers, {"open"}) = In(n.consumers, {"open"}) \ {c}
         /\ \A d \in In(media.consumers, {"open"}) : n.consumers[d] = media.consumers[d]
    BY <1>0, <1>1, <1>11 DEF In
  <1>13. PeersAreSound(n) /\ TransportsAreSound(n)
    BY <1>10 DEF RoomInv, PeersAreSound, TransportsAreSound
  <1>14. ProducersAreSound(n)
    BY <1>10 DEF RoomInv, ProducersAreSound
  <1>15. ConsumersAreSound(n)
    <2> SUFFICES ASSUME NEW d \in In(n.consumers, {"piping", "making", "open"})
                 PROVE  /\ n.peers[n.consumers[d].owner].recv = n.consumers[d].transport
                        /\ n.producers[n.consumers[d].source].state \in {"open", "gone"}
      BY DEF ConsumersAreSound
    <2>1. d \in In(media.consumers, {"piping", "making", "open"})
      BY <1>0, <1>2, <1>11 DEF In
    <2>2. /\ media.peers[media.consumers[d].owner].recv = media.consumers[d].transport
          /\ media.producers[media.consumers[d].source].state \in {"open", "gone"}
      BY <2>1 DEF RoomInv, ConsumersAreSound
    <2>3. /\ n.consumers[d].owner = media.consumers[d].owner
          /\ n.consumers[d].source = media.consumers[d].source
          /\ n.consumers[d].transport = media.consumers[d].transport
      BY <1>0, <1>11, <2>1 DEF In
    <2>4. QED
      BY <1>10, <2>2, <2>3
  <1>16. BridgesAreSound(n)
    BY <1>10 DEF RoomInv, BridgesAreSound
  <1>17. PipesAreSound(n)
    BY <1>10 DEF RoomInv, PipesAreSound
  <1>18. UnitsAreSound(n)
    <2>1. \A w \in Workers : media.units[w] = n.units[w] - ProducerUnits(n, {}, w)
                                                - ConsumerUnits(n, {c}, w) - BridgeUnits(n, {}, w)
      <3>1. n.producers[n.consumers[c].source].kind \in Kinds
        BY <1>3, <1>10, <1>11
      <3>2. \A w : ConsumerUnits(n, {c}, w) = IF h = w THEN k ELSE 0
        BY <1>10, <1>11, <3>1, OneConsumerWeighs DEF k
      <3>3. \A w : ProducerUnits(n, {}, w) = 0 /\ BridgeUnits(n, {}, w) = 0
        BY NothingWeighs
      <3>4. \A w \in Workers : media.units[w] \in Int
        BY <1>0
      <3>5. \A w \in Workers : n.units[w] = media.units[w] + (IF h = w THEN k ELSE 0)
        BY <1>9, <1>10
      <3>6. ASSUME NEW w \in Workers, NEW a \in Int, a = (IF h = w THEN k ELSE 0)
            PROVE  media.units[w] = n.units[w] - 0 - a - 0
        BY <3>4, <3>5, <3>6
      <3>7. \A w \in Workers : (IF h = w THEN k ELSE 0) \in Int
        BY <1>4
      <3>8. QED
        BY <3>2, <3>3, <3>6, <3>7
    <2>2. Closes(n, media, {}, {c}, {})
      <3>1. /\ In(media.producers, {"open"}) = In(n.producers, {"open"}) \ {}
            /\ In(media.bridges, {"open"}) = In(n.bridges, {"open"}) \ {}
        BY <1>10
      <3>2. QED
        BY <1>10, <1>12, <2>1, <3>1 DEF Closes
    <2>3. QED
      BY <1>10, <2>2, UnitsFollowOpening DEF RoomInv
  <1>19. RoomInv(n)
    BY <1>10, <1>13, <1>14, <1>15, <1>16, <1>17, <1>18 DEF RoomInv
  <1>20. QED
    BY <1>6, <1>19, CollectedInv

LEMMA BridgeReadyInv ==
    ASSUME RoomInv(media), NEW b \in Bridges, BridgeReady(b)
    PROVE  RoomInv(media')
  <1> DEFINE made == media.bridges[b]
             Ends == {made.to, OwnerHome(media, made.source)}
             k == Weight(media.producers[made.source].kind)
             A == [media.bridges EXCEPT ![b].state = "open"]
             U == [w \in Workers |-> IF w \in Ends THEN media.units[w] + k ELSE media.units[w]]
  <1>0. /\ media \in Room /\ media.bridges \in [Bridges -> {Nothing} \cup Bridge]
        /\ media.units \in [Workers -> Int]
    BY DEF RoomInv, Room
  <1>1. made.state = "making" /\ made \in Bridge
    BY <1>0 DEF BridgeReady, Nothing
  <1>3. made.source \in Producers /\ media.producers[made.source].kind \in Kinds
    <2>1. made.source \in Producers /\ media.producers[made.source].state = "open"
      BY <1>1 DEF BridgeReady, Bridge
    <2>2. media.producers[made.source] \in Producer
      BY <1>0, <2>1 DEF Room, Nothing
    <2>3. QED
      BY <2>1, <2>2 DEF Producer
  <1>4. k \in Int
    BY <1>3, WeightIsKnown
  <1>5. PICK n : n = [media EXCEPT !.bridges[b].state = "open", !.units = U]
    OBVIOUS
  <1>6. media' = Collected(n)
    BY <1>5 DEF BridgeReady, Become
  <1>7. n = [media EXCEPT !.bridges = A, !.units = U]
    BY <1>0, <1>5
  <1>8. /\ A \in [Bridges -> {Nothing} \cup Bridge]
        /\ \A d \in Bridges : d # b => A[d] = media.bridges[d]
        /\ A[b].state = "open" /\ A[b].to = made.to /\ A[b].source = made.source
        /\ A[b].cut = made.cut
    BY <1>0, <1>1 DEF Bridge
  <1> HIDE DEF Ends, k
  <1>9. /\ U \in [Workers -> Int]
        /\ \A w \in Workers : U[w] = media.units[w] + (IF w \in Ends THEN k ELSE 0)
    BY <1>0, <1>4
  <1> HIDE DEF A, U
  <1>10. /\ n.bridges = A /\ n.units = U
         /\ n.peers = media.peers /\ n.transports = media.transports
         /\ n.producers = media.producers /\ n.consumers = media.consumers
         /\ n.onAir = media.onAir /\ n.pipes = media.pipes /\ n \in Room
    BY <1>0, <1>7, <1>8, <1>9 DEF Room
  <1>11. /\ n.bridges[b].state = "open" /\ media.bridges[b].state = "making"
         /\ \A d \in Bridges :
                /\ d # b => n.bridges[d] = media.bridges[d]
                /\ n.bridges[d].to = media.bridges[d].to
                /\ n.bridges[d].source = media.bridges[d].source
                /\ n.bridges[d].cut = media.bridges[d].cut
         /\ DOMAIN n.bridges = Bridges
    BY <1>1, <1>8, <1>10
  <1>12. /\ {b} \subseteq In(n.bridges, {"open"})
         /\ In(media.bridges, {"open"}) = In(n.bridges, {"open"}) \ {b}
         /\ In(n.bridges, {"making", "open"}) = In(media.bridges, {"making", "open"})
         /\ In(n.bridges, {"making", "open", "gone"}) = In(media.bridges, {"making", "open", "gone"})
    <2>1. ASSUME NEW states, NEW d
          PROVE  /\ d \in In(n.bridges, states) <=> d \in Bridges /\ n.bridges[d].state \in states
                 /\ d \in In(media.bridges, states) <=> d \in Bridges /\ media.bridges[d].state \in states
      BY <1>0, <1>11 DEF In
    <2>o. \A d : /\ d \in In(n.bridges, {"open"}) <=> d \in Bridges /\ n.bridges[d].state = "open"
                 /\ d \in In(media.bridges, {"open"}) <=>
                        d \in Bridges /\ media.bridges[d].state = "open"
      BY <2>1
    <2>u. /\ n.bridges[b].state = "open" /\ media.bridges[b].state = "making"
          /\ \A d \in Bridges : d # b => n.bridges[d] = media.bridges[d]
      BY <1>11
    <2>2. {b} \subseteq In(n.bridges, {"open"})
      BY <2>o, <2>u
    <2>3. In(media.bridges, {"open"}) = In(n.bridges, {"open"}) \ {b}
      <3>1. \A d : d \in In(media.bridges, {"open"}) <=> d \in In(n.bridges, {"open"}) /\ d # b
        BY <2>o, <2>u
      <3>2. QED
        BY <3>1
    <2>s. ASSUME NEW states, {"making", "open"} \subseteq states
          PROVE  In(n.bridges, states) = In(media.bridges, states)
      <3>1. \A d : d \in In(media.bridges, states) <=> d \in In(n.bridges, states)
        BY <2>1, <2>u, <2>s
      <3>2. QED
        BY <3>1
    <2>4. In(n.bridges, {"making", "open"}) = In(media.bridges, {"making", "open"})
      BY <2>s
    <2>5. In(n.bridges, {"making", "open", "gone"}) = In(media.bridges, {"making", "open", "gone"})
      BY <2>s
    <2>6. QED
      BY <2>2, <2>3, <2>4, <2>5
  <1>d. \A states : In(media.bridges, states) \subseteq Bridges
    BY <1>0 DEF In
  <1>13. PeersAreSound(n) /\ TransportsAreSound(n)
    BY <1>10 DEF RoomInv, PeersAreSound, TransportsAreSound
  <1>14. ProducersAreSound(n)
    BY <1>10 DEF RoomInv, ProducersAreSound
  <1>15. ConsumersAreSound(n)
    BY <1>10 DEF RoomInv, ConsumersAreSound
  <1>16. BridgesAreSound(n)
    BY <1>10, <1>11, <1>12, <1>d DEF RoomInv, BridgesAreSound
  <1>17. PipesAreSound(n)
    <2>1. ASSUME NEW w \in Workers, NEW x \in Producers, n.pipes[<<w, x>>] # None
          PROVE  /\ x \in n.onAir
                 /\ n.bridges[n.pipes[<<w, x>>]].state \in {"making", "open"}
                 /\ ~n.bridges[n.pipes[<<w, x>>]].cut
                 /\ n.bridges[n.pipes[<<w, x>>]].to = w
                 /\ n.bridges[n.pipes[<<w, x>>]].source = x
      <3>1. PICK d \in Bridges : d = n.pipes[<<w, x>>]
        BY <1>10, <2>1 DEF Room
      <3>2. /\ x \in media.onAir /\ media.bridges[d].state \in {"making", "open"}
            /\ ~media.bridges[d].cut /\ media.bridges[d].to = w /\ media.bridges[d].source = x
        BY <1>10, <2>1, <3>1 DEF RoomInv, PipesAreSound
      <3>3. n.bridges[d].state \in {"making", "open"}
        BY <1>11, <3>2
      <3>4. QED
        BY <1>10, <1>11, <3>1, <3>2, <3>3
    <2>2. ASSUME NEW d \in In(n.bridges, {"making", "open"}),
                 n.bridges[d].source \in n.onAir, ~n.bridges[d].cut
          PROVE  n.pipes[<<n.bridges[d].to, n.bridges[d].source>>] = d
      <3>1. d \in Bridges /\ d \in In(media.bridges, {"making", "open"})
        BY <1>12, <1>d
      <3>2. media.bridges[d].source \in media.onAir /\ ~media.bridges[d].cut
        BY <1>10, <1>11, <2>2, <3>1
      <3>3. media.pipes[<<media.bridges[d].to, media.bridges[d].source>>] = d
        BY <3>1, <3>2 DEF RoomInv, PipesAreSound
      <3>4. QED
        BY <1>10, <1>11, <3>1, <3>3
    <2>3. QED
      BY <2>1, <2>2 DEF PipesAreSound
  <1>18. UnitsAreSound(n)
    <2>1. \A w \in Workers : media.units[w] = n.units[w] - ProducerUnits(n, {}, w)
                                                - ConsumerUnits(n, {}, w) - BridgeUnits(n, {b}, w)
      <3>1. /\ n.bridges[b].source = made.source /\ n.bridges[b].to = made.to
            /\ n.producers[n.bridges[b].source].kind \in Kinds
        BY <1>3, <1>10, <1>11
      <3>a. n.producers = media.producers
        BY <1>10
      <3>b. \A w : BridgeUnits(n, {b}, w)
                     = IF w \in {n.bridges[b].to, OwnerHome(n, n.bridges[b].source)}
                       THEN Weight(n.producers[n.bridges[b].source].kind) ELSE 0
        BY <3>1, OneBridgeWeighs
      <3>2. \A w : BridgeUnits(n, {b}, w) = IF w \in Ends THEN k ELSE 0
        BY <3>1, <3>a, <3>b DEF k, Ends, OwnerHome
      <3>3. \A w : ProducerUnits(n, {}, w) = 0 /\ ConsumerUnits(n, {}, w) = 0
        BY NothingWeighs
      <3>4. \A w \in Workers : media.units[w] \in Int
        BY <1>0
      <3>5. \A w \in Workers : n.units[w] = media.units[w] + (IF w \in Ends THEN k ELSE 0)
        BY <1>9, <1>10
      <3>6. ASSUME NEW w \in Workers, NEW a \in Int, a = (IF w \in Ends THEN k ELSE 0)
            PROVE  media.units[w] = n.units[w] - 0 - 0 - a
        BY <3>4, <3>5, <3>6
      <3>7. \A w \in Workers : (IF w \in Ends THEN k ELSE 0) \in Int
        BY <1>4
      <3>8. QED
        BY <3>2, <3>3, <3>6, <3>7
    <2>2. Closes(n, media, {}, {}, {b})
      <3>1. /\ In(media.producers, {"open"}) = In(n.producers, {"open"}) \ {}
            /\ In(media.consumers, {"open"}) = In(n.consumers, {"open"}) \ {}
        BY <1>10
      <3>2. \A d \in In(media.bridges, {"open"}) :
                n.bridges[d].to = media.bridges[d].to /\ n.bridges[d].source = media.bridges[d].source
        BY <1>11, <1>d
      <3>3. QED
        BY <1>10, <1>12, <2>1, <3>1, <3>2 DEF Closes
    <2>3. QED
      BY <1>10, <2>2, UnitsFollowOpening DEF RoomInv
  <1>19. RoomInv(n)
    BY <1>10, <1>13, <1>14, <1>15, <1>16, <1>17, <1>18 DEF RoomInv
  <1>20. QED
    BY <1>6, <1>19, CollectedInv

LEMMA BridgeFailsInv ==
    ASSUME RoomInv(media), NEW b \in Bridges, BridgeFails(b)
    PROVE  RoomInv(media')
  <1> DEFINE A == [media.bridges EXCEPT ![b] = Nothing]
             Q == [k \in Workers \X Producers |->
                      IF media.pipes[k] = b THEN None ELSE media.pipes[k]]
             C == [c \in Consumers |->
                      IF media.consumers[c].state = "piping" /\ media.consumers[c].bridge = b
                      THEN Nothing ELSE media.consumers[c]]
  <1>0. /\ media \in Room /\ media.bridges \in [Bridges -> {Nothing} \cup Bridge]
        /\ media.pipes \in [Workers \X Producers -> Bridges \cup {None}]
        /\ media.consumers \in [Consumers -> {Nothing} \cup Consumer]
    BY DEF RoomInv, Room
  <1>1. PICK n : n = [media EXCEPT !.bridges = A, !.pipes = Q, !.consumers = C]
    OBVIOUS
  <1>2. media' = Collected(n) /\ media.bridges[b].state = "making"
    BY <1>0, <1>1 DEF BridgeFails, Become
  <1>3. /\ A \in [Bridges -> {Nothing} \cup Bridge]
        /\ A[b] = Nothing /\ \A d \in Bridges : d # b => A[d] = media.bridges[d]
    BY <1>0
  <1>4. /\ Q \in [Workers \X Producers -> Bridges \cup {None}]
        /\ \A k \in Workers \X Producers :
               Q[k] = IF media.pipes[k] = b THEN None ELSE media.pipes[k]
    BY <1>0
  <1>5. /\ C \in [Consumers -> {Nothing} \cup Consumer]
        /\ \A c \in Consumers :
               \/ C[c] = media.consumers[c]
               \/ media.consumers[c].state = "piping" /\ C[c] = Nothing
    BY <1>0
  <1> HIDE DEF A, Q, C
  <1>6. /\ n.bridges = A /\ n.pipes = Q /\ n.consumers = C
        /\ n.peers = media.peers /\ n.transports = media.transports
        /\ n.producers = media.producers
        /\ n.onAir = media.onAir /\ n.units = media.units /\ n \in Room
    BY <1>0, <1>1, <1>3, <1>4, <1>5 DEF Room
  <1>7. /\ \A d \in In(n.bridges, {"making", "open"}) :
               /\ d \in In(media.bridges, {"making", "open"}) /\ d \in Bridges
               /\ d # b /\ n.bridges[d] = media.bridges[d]
        /\ \A d \in In(n.bridges, {"making", "open", "gone"}) :
               /\ d \in In(media.bridges, {"making", "open", "gone"})
               /\ n.bridges[d] = media.bridges[d]
        /\ In(n.bridges, {"open"}) = In(media.bridges, {"open"})
        /\ \A d \in In(media.bridges, {"open"}) : n.bridges[d] = media.bridges[d]
    <2>1. ASSUME NEW states, "none" \notin states, NEW d \in In(n.bridges, states)
          PROVE  /\ d \in In(media.bridges, states) /\ d \in Bridges
                 /\ d # b /\ n.bridges[d] = media.bridges[d]
      BY <1>0, <1>3, <1>6, <2>1 DEF In, Nothing
    <2>2. ASSUME NEW d \in In(media.bridges, {"open"})
          PROVE  d \in In(n.bridges, {"open"}) /\ n.bridges[d] = media.bridges[d]
      BY <1>0, <1>2, <1>3, <1>6 DEF In
    <2>3. QED
      BY <2>1, <2>2
  <1>8. /\ In(n.consumers, {"open"}) = In(media.consumers, {"open"})
        /\ \A c \in In(n.consumers, {"piping", "making", "open"}) :
               /\ c \in In(media.consumers, {"piping", "making", "open"})
               /\ n.consumers[c] = media.consumers[c]
        /\ \A c \in In(media.consumers, {"open"}) : n.consumers[c] = media.consumers[c]
    BY <1>0, <1>5, <1>6 DEF In, Nothing
  <1>9. PeersAreSound(n) /\ TransportsAreSound(n)
    BY <1>6 DEF RoomInv, PeersAreSound, TransportsAreSound
  <1>10. ProducersAreSound(n)
    BY <1>6 DEF RoomInv, ProducersAreSound
  <1>11. ConsumersAreSound(n)
    BY <1>6, <1>8 DEF RoomInv, ConsumersAreSound
  <1>12. BridgesAreSound(n)
    BY <1>6, <1>7 DEF RoomInv, BridgesAreSound
  <1>13. PipesAreSound(n)
    <2>1. ASSUME NEW w \in Workers, NEW x \in Producers, n.pipes[<<w, x>>] # None
          PROVE  /\ x \in n.onAir
                 /\ n.bridges[n.pipes[<<w, x>>]].state \in {"making", "open"}
                 /\ ~n.bridges[n.pipes[<<w, x>>]].cut
                 /\ n.bridges[n.pipes[<<w, x>>]].to = w
                 /\ n.bridges[n.pipes[<<w, x>>]].source = x
      <3>1. /\ n.pipes[<<w, x>>] = media.pipes[<<w, x>>] /\ media.pipes[<<w, x>>] # None
            /\ media.pipes[<<w, x>>] # b
        BY <1>4, <1>6, <2>1
      <3>2. PICK d \in Bridges : d = media.pipes[<<w, x>>]
        BY <1>0, <3>1
      <3>3. /\ x \in media.onAir /\ media.bridges[d].state \in {"making", "open"}
            /\ ~media.bridges[d].cut /\ media.bridges[d].to = w /\ media.bridges[d].source = x
        BY <3>1, <3>2 DEF RoomInv, PipesAreSound
      <3>4. n.bridges[d] = media.bridges[d]
        BY <1>3, <1>6, <3>1, <3>2
      <3>5. QED
        BY <1>6, <3>1, <3>2, <3>3, <3>4
    <2>2. ASSUME NEW d \in In(n.bridges, {"making", "open"}),
                 n.bridges[d].source \in n.onAir, ~n.bridges[d].cut
          PROVE  n.pipes[<<n.bridges[d].to, n.bridges[d].source>>] = d
      <3>1. /\ n.bridges[d] = media.bridges[d] /\ d \in In(media.bridges, {"making", "open"})
            /\ d # b
        BY <1>7
      <3>2. media.pipes[<<media.bridges[d].to, media.bridges[d].source>>] = d
        BY <1>6, <2>2, <3>1 DEF RoomInv, PipesAreSound
      <3>3. <<media.bridges[d].to, media.bridges[d].source>> \in Workers \X Producers
        BY <1>0, <3>1, InRoom DEF Bridge
      <3>4. QED
        BY <1>4, <1>6, <3>1, <3>2, <3>3
    <2>3. QED
      BY <2>1, <2>2 DEF PipesAreSound
  <1>14. UnitsAreSound(n)
    <2>1. Stays(media, n)
      BY <1>6, <1>7, <1>8 DEF Stays
    <2>2. QED
      BY <1>0, <2>1, UnitsStay DEF RoomInv
  <1>15. RoomInv(n)
    BY <1>6, <1>9, <1>10, <1>11, <1>12, <1>13, <1>14 DEF RoomInv
  <1>16. QED
    BY <1>2, <1>15, CollectedInv

-----------------------------------------------------------------------------
(* Every step, and what follows from it.                                   *)

LEMMA StepInv ==
    ASSUME RoomInv(media), [Next]_media
    PROVE  RoomInv(media')
  <1>1. ASSUME NEW p \in Peers, JoinPeer(p) \/ SetPeerRtpCapabilities(p) \/ RemovePeer(p)
        PROVE  RoomInv(media')
    BY <1>1, JoinPeerInv, SetPeerRtpCapabilitiesInv, RemovePeerInv
  <1>2. ASSUME NEW u \in Uses, CreateTransport(u[1], u[2])
        PROVE  RoomInv(media')
    BY <1>2, CreateTransportInv
  <1>3. ASSUME NEW t \in Transports, TransportReady(t) \/ TransportRefused(t) \/ TransportDies(t)
        PROVE  RoomInv(media')
    BY <1>3, TransportReadyInv, TransportGoneInv
  <1>4. ASSUME NEW p \in Peers, NEW kind \in Kinds, Produce(p, kind)
        PROVE  RoomInv(media')
    BY <1>4, ProduceInv
  <1>5. ASSUME NEW x \in Producers, ProducerReady(x) \/ ProduceRefused(x) \/ CloseProducer(x)
        PROVE  RoomInv(media')
    BY <1>5, ProducerReadyInv, ProduceRefusedInv, CloseProducerInv
  <1>6. ASSUME NEW p \in Peers, NEW x \in Producers, ConsumeAtHome(p, x) \/ ConsumeElsewhere(p, x)
        PROVE  RoomInv(media')
    BY <1>6, ConsumeAtHomeInv, ConsumeElsewhereInv
  <1>7. ASSUME NEW b \in Bridges, BridgeReady(b) \/ BridgeFails(b) \/ BridgeLearns(b)
        PROVE  RoomInv(media')
    BY <1>7, BridgeReadyInv, BridgeFailsInv, BridgeLearnsInv
  <1>8. ASSUME NEW c \in Consumers,
               Piped(c) \/ ConsumerReady(c) \/ ConsumeRefused(c) \/ ConsumerLearns(c)
        PROVE  RoomInv(media')
    BY <1>8, PipedInv, ConsumerReadyInv, ConsumeRefusedInv, ConsumerLearnsInv
  <1>9. CASE UNCHANGED media
    BY <1>9
  <1>10. QED
    BY <1>1, <1>2, <1>3, <1>4, <1>5, <1>6, <1>7, <1>8, <1>9 DEF Next

\* Whatever is asked, answered, refused or closed, in any order, a room stays
\* a room (rooms.ts: joinPeer, removePeer, createTransport, produce, consume).
THEOREM RoomSpecInv == Spec => []RoomInv(media)
  <1>1. Init => RoomInv(media)
    BY InitInv DEF Init
  <1>2. RoomInv(media) /\ [Next]_media => RoomInv(media')
    BY StepInv
  <1>3. RoomInv(media)' <=> RoomInv(media')
    BY DEF RoomInv, PeersAreSound, TransportsAreSound, ProducersAreSound, ConsumersAreSound,
           BridgesAreSound, PipesAreSound, UnitsAreSound
  <1>4. QED
    BY <1>1, <1>2, <1>3, PTL DEF Spec

LEMMA RoomIsTyped ==
    ASSUME RoomInv(media)
    PROVE  MediaTypeOK
  <1>1. media \in Room
    BY DEF RoomInv
  <1>2. ASSUME NEW p \in Peers
        PROVE  media.peers[p] \in [here : BOOLEAN, session : 0..MaxSessions[p],
                                   send : Transports \cup {None},
                                   recv : Transports \cup {None}, caps : BOOLEAN]
    <2>1. media.peers[p] \in Peer /\ media.peers[p].session <= MaxSessions[p]
      BY <1>1 DEF Room, RoomInv, PeersAreSound
    <2>2. MaxSessions[p] \in Nat
      BY MediaAssumption
    <2>3. media.peers[p].session \in 0..MaxSessions[p]
      BY <2>1, <2>2 DEF Peer
    <2>4. QED
      BY <2>1, <2>3 DEF Peer
  <1>3. /\ \A t \in Transports : media.transports[t] \in {Nothing} \cup Transport
        /\ \A x \in Producers : media.producers[x] \in {Nothing} \cup Producer
        /\ \A c \in Consumers : media.consumers[c] \in {Nothing} \cup Consumer
        /\ \A b \in Bridges : media.bridges[b] \in {Nothing} \cup Bridge
    BY <1>1 DEF Room
  <1>4. /\ media.onAir \subseteq Producers
        /\ media.pipes \in [Workers \X Producers -> Bridges \cup {None}]
        /\ media.units \in [Workers -> Int]
    BY <1>1 DEF Room
  <1>5. QED
    BY <1>2, <1>3, <1>4 DEF MediaTypeOK, Transport, Producer, Consumer, Bridge

\* Transports are replaced and closed, tracks replace one another, people
\* leave while a Worker is asked for one more: still an open transport is one
\* its peer refers to, a peer has one track of each kind, and the list of the
\* room is what its peers send (createTransport, produce, removePeer).
THEOREM TracksStaySound == Spec => []TracksAreSound
  <1>1. RoomInv(media) => TracksAreSound
    <2> SUFFICES ASSUME RoomInv(media) PROVE TracksAreSound
      OBVIOUS
    <2>0. media \in Room
      BY DEF RoomInv
    <2>1. MediaTypeOK
      BY RoomIsTyped
    <2>2. NoOrphanTransport
      <3> SUFFICES ASSUME NEW t \in In(media.transports, {"open"})
                   PROVE  LET peer == media.peers[media.transports[t].owner]
                          IN  peer.here /\ t \in {peer.send, peer.recv}
        BY DEF NoOrphanTransport
      <3> DEFINE o == media.transports[t].owner
      <3>1. t \in In(media.transports, {"making", "open"})
        BY DEF In
      <3>2. o \in Peers /\ t # None
        BY <2>0, <3>1, OwnersAreKnown
      <3>3. t = media.peers[o].send \/ t = media.peers[o].recv
        BY DEF RoomInv, TransportsAreSound
      <3>4. media.peers[o] \in Peer
        BY <2>0, <3>2 DEF Room
      <3>5. media.peers[o].here
        BY <3>2, <3>3 DEF RoomInv, PeersAreSound
      <3>6. QED
        BY <3>3, <3>5
    <2>3. OneTrackPerKind
      BY DEF RoomInv, ProducersAreSound, OneTrackPerKind
    <2>4. RoomListsWhatIsOnAir
      <3>1. media.onAir = In(media.producers, {"open"})
        BY DEF RoomInv, ProducersAreSound
      <3>2. ASSUME NEW x \in media.onAir
            PROVE  /\ media.peers[media.producers[x].owner].here
                   /\ media.peers[media.producers[x].owner].send = media.producers[x].transport
        <4> DEFINE o == media.producers[x].owner
        <4>1. x \in In(media.producers, {"making", "open"})
          BY <3>1 DEF In
        <4>2. o \in Peers /\ media.producers[x].transport # None
          BY <2>0, <4>1, OwnersAreKnown
        <4>3. media.peers[o].send = media.producers[x].transport
          BY <4>1 DEF RoomInv, ProducersAreSound
        <4>4. media.peers[o].here
          BY <4>2, <4>3 DEF RoomInv, PeersAreSound
        <4>5. QED
          BY <4>3, <4>4
      <3>3. QED
        BY <3>1, <3>2 DEF RoomListsWhatIsOnAir
    <2>5. QED
      BY <2>1, <2>2, <2>3, <2>4 DEF TracksAreSound
  <1>2. QED
    BY <1>1, RoomSpecInv, PTL

\* However a track, a subscription or a bridge ended, by hand, with its
\* transport, with its Router or because its source went, the load a Worker is
\* chosen by is what it forwards: nothing is left counted, and nothing is
\* given back twice (account, in every close of rooms.ts).
THEOREM UnitsStayWhatIsForwarded == Spec => []UnitsAreWhatIsForwarded
  <1>1. RoomInv(media) => UnitsAreWhatIsForwarded
    BY DEF RoomInv, UnitsAreSound, UnitsAreWhatIsForwarded
  <1>2. QED
    BY <1>1, RoomSpecInv, PTL

\* A track crosses to a Worker once, and the bridge the room would offer to the
\* next subscriber stands or is being made (ensurePiped, releaseRouterIfIdle).
THEOREM PipesStayTheBridges == Spec => []PipesAreTheBridges
  <1>1. RoomInv(media) => PipesAreTheBridges
    <2> SUFFICES ASSUME RoomInv(media) PROVE PipesAreTheBridges
      OBVIOUS
    <2>1. ASSUME NEW k \in Workers \X Producers, media.pipes[k] # None
          PROVE  /\ media.bridges[media.pipes[k]].state \in {"making", "open"}
                 /\ ~media.bridges[media.pipes[k]].cut
                 /\ <<media.bridges[media.pipes[k]].to, media.bridges[media.pipes[k]].source>> = k
      <3>1. PICK w \in Workers, x \in Producers : k = <<w, x>>
        OBVIOUS
      <3>2. /\ media.bridges[media.pipes[k]].state \in {"making", "open"}
            /\ ~media.bridges[media.pipes[k]].cut
            /\ media.bridges[media.pipes[k]].to = w /\ media.bridges[media.pipes[k]].source = x
        BY <2>1, <3>1 DEF RoomInv, PipesAreSound
      <3>3. QED
        BY <3>1, <3>2
    <2>2. \A b \in In(media.bridges, {"making", "open"}) :
              media.bridges[b].source \in media.onAir /\ ~media.bridges[b].cut
                => media.pipes[<<media.bridges[b].to, media.bridges[b].source>>] = b
      BY DEF RoomInv, PipesAreSound
    <2>3. QED
      BY <2>1, <2>2 DEF PipesAreTheBridges
  <1>2. QED
    BY <1>1, RoomSpecInv, PTL

\* Nobody who left, or whose page began again, is sent anything: a consumer
\* made while that happened is not kept (consume, resetPeerMedia, removePeer).
THEOREM SubscribersStayHere == Spec => []SubscribersAreHere
  <1>1. RoomInv(media) => SubscribersAreHere
    <2> SUFFICES ASSUME RoomInv(media), NEW c \in In(media.consumers, {"open"})
                 PROVE  /\ media.peers[media.consumers[c].owner].here
                        /\ media.peers[media.consumers[c].owner].recv = media.consumers[c].transport
      BY DEF SubscribersAreHere
    <2> DEFINE o == media.consumers[c].owner
    <2>1. c \in In(media.consumers, {"piping", "making", "open"}) /\ media \in Room
      BY DEF In, RoomInv
    <2>2. o \in Peers /\ media.consumers[c].transport # None
      BY <2>1, OwnersAreKnown
    <2>3. media.peers[o].recv = media.consumers[c].transport
      BY <2>1 DEF RoomInv, ConsumersAreSound
    <2>4. media.peers[o].here
      BY <2>2, <2>3 DEF RoomInv, PeersAreSound
    <2>5. QED
      BY <2>3, <2>4
  <1>2. QED
    BY <1>1, RoomSpecInv, PTL

=============================================================================
