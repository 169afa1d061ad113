----------------------------- MODULE PeerMedia -----------------------------
(***************************************************************************)
(* apps/mediasoup-sfu/src/rooms.ts: what the peers of one room publish and *)
(* subscribe to: transports, producers, consumers, and the bridges that    *)
(* take a track to a Router of the same room in another Worker.            *)
(*                                                                         *)
(* Each request that waits for a Worker is two steps: the part before the  *)
(* await takes an object of state "making", with what the code captured,   *)
(* and the answer continues with whatever the room has become.  A request  *)
(* on an object that closes is answered with an error and changes nothing: *)
(* it is dropped when the object closes.  mediasoup itself is external: a  *)
(* transport closes what is on it at once, a consumer or a bridge hears    *)
(* later that its producer closed.                                         *)
(*                                                                         *)
(* RoomRouters gives a peer its Router and closes the Routers; here a peer *)
(* always gets the one of Home, which is open while somebody lives on it.  *)
(***************************************************************************)
EXTENDS Integers, FiniteSets

CONSTANTS
    Peers,
    Home,           \* peer -> Worker its Router is in
    Uses,           \* pairs of a peer and a direction it opens
    Kinds,          \* kinds of track published
    Transports, Producers, Consumers, Bridges,  \* identities of objects
    MaxSessions,    \* bound: sessions each peer begins
    None            \* the absence of an object

Workers == {Home[p] : p \in Peers}

ASSUME MediaAssumption ==
    /\ Uses \subseteq Peers \X {"send", "recv"}
    /\ Kinds \subseteq {"mic", "screen-audio", "camera", "screen-video"}
    /\ MaxSessions \in [Peers -> Nat]
    /\ IsFiniteSet(Producers) /\ IsFiniteSet(Consumers) /\ IsFiniteSet(Bridges)
    /\ None \notin Transports \cup Producers \cup Consumers \cup Bridges

VARIABLES
    media       \* the room, see EmptyRoom

Nothing == [state |-> "none"]

EmptyRoom ==
    [peers |-> [p \in Peers |->
                   [here |-> FALSE, session |-> 0, send |-> None, recv |-> None,
                    caps |-> FALSE]],
     transports |-> [t \in Transports |-> Nothing],
     producers  |-> [x \in Producers |-> Nothing],
     consumers  |-> [c \in Consumers |-> Nothing],
     bridges    |-> [b \in Bridges |-> Nothing],
     onAir      |-> {},                                     \* room.producers
     pipes      |-> [k \in Workers \X Producers |-> None],  \* room.pipes
     units      |-> [w \in Workers |-> 0]]

\* LOAD_UNITS
Weight(kind) ==
    CASE kind = "mic" -> 1 [] kind = "screen-audio" -> 1
      [] kind = "camera" -> 5 [] kind = "screen-video" -> 10

-----------------------------------------------------------------------------
(* What is open in a room m, and what it weighs on a Worker.               *)

In(f, states) == {i \in DOMAIN f : f[i].state \in states}

OwnerHome(m, x) == Home[m.producers[x].owner]
RouterIsOpen(m, w) == \E p \in Peers : m.peers[p].here /\ Home[p] = w

\* What the tracks of S weigh together, counted weight by weight.
Load(S, kind) ==
    LET Weighing(n) == Cardinality({i \in S : Weight(kind[i]) = n})
    IN  Weighing(1) + 5 * Weighing(5) + 10 * Weighing(10)

ProducerUnits(m, X, w) ==
    LET here == {x \in X : OwnerHome(m, x) = w}
    IN  Load(here, [x \in here |-> m.producers[x].kind])

ConsumerUnits(m, C, w) ==
    LET here == {c \in C : Home[m.consumers[c].owner] = w}
    IN  Load(here, [c \in here |-> m.producers[m.consumers[c].source].kind])

\* A bridge weighs on both ends.
BridgeUnits(m, B, w) ==
    LET here == {b \in B : w \in {m.bridges[b].to, OwnerHome(m, m.bridges[b].source)}}
    IN  Load(here, [b \in here |-> m.producers[m.bridges[b].source].kind])

-----------------------------------------------------------------------------
(* Closing, with everything it takes along.                                *)

CloseProducers(m, X) ==
    [m EXCEPT
       !.producers = [x \in Producers |->
                         IF x \in X THEN [@[x] EXCEPT !.state = "gone"] ELSE @[x]],
       !.onAir = @ \ X,
       !.pipes = [k \in Workers \X Producers |-> IF k[2] \in X THEN None ELSE @[k]],
       !.units = [w \in Workers |-> @[w] - ProducerUnits(m, X, w)]]

CloseConsumers(m, C) ==
    [m EXCEPT
       !.consumers = [c \in Consumers |-> IF c \in C THEN Nothing ELSE @[c]],
       !.units = [w \in Workers |-> @[w] - ConsumerUnits(m, C, w)]]

\* Whoever was about to subscribe through one of them finds it gone.
CloseBridges(m, B) ==
    [m EXCEPT
       !.bridges = [b \in Bridges |->
                       IF b \in B THEN [@[b] EXCEPT !.state = "gone"] ELSE @[b]],
       !.pipes = [k \in Workers \X Producers |-> IF @[k] \in B THEN None ELSE @[k]],
       !.consumers = [c \in Consumers |->
                         IF @[c].state = "piping" /\ @[c].bridge \in B
                         THEN Nothing ELSE @[c]],
       !.units = [w \in Workers |-> @[w] - BridgeUnits(m, B, w)]]

On(f, states, T) == {i \in In(f, states) : f[i].transport \in T}

Without(peer, T) ==
    [peer EXCEPT !.send = IF @ \in T THEN None ELSE @,
                 !.recv = IF @ \in T THEN None ELSE @]

\* The transports go, and what was asked on them.
Quieted(m, T) ==
    [m EXCEPT
       !.transports = [t \in Transports |-> IF t \in T THEN Nothing ELSE @[t]],
       !.peers = [p \in Peers |-> Without(@[p], T)],
       !.producers = [x \in Producers |->
                         IF x \in On(@, {"making"}, T) THEN Nothing ELSE @[x]],
       !.consumers = [c \in Consumers |->
                         IF c \in On(@, {"piping", "making"}, T) THEN Nothing ELSE @[c]]]

CloseTransports(m, T) ==
    CloseProducers(CloseConsumers(Quieted(m, T), On(m.consumers, {"open"}, T)),
                   On(m.producers, {"open"}, T))

\* The Router of w closes: what crosses it dies with it, and so does what is
\* asked of it; a bridge still in the making fails when its answer comes.
CloseRouter(m, w) ==
    LET crossing == {b \in In(m.bridges, {"open"}) :
                        w \in {m.bridges[b].to, OwnerHome(m, m.bridges[b].source)}}
        asked == {t \in In(m.transports, {"making"}) :
                     Home[m.transports[t].owner] = w}
    IN  CloseBridges([m EXCEPT
            !.transports = [t \in Transports |-> IF t \in asked THEN Nothing ELSE @[t]],
            !.bridges = [b \in Bridges |->
                IF @[b].state = "making" /\ w \in {@[b].to, OwnerHome(m, @[b].source)}
                THEN [@[b] EXCEPT !.cut = TRUE] ELSE @[b]],
            !.pipes = [k \in Workers \X Producers |-> IF k[1] = w THEN None ELSE @[k]]],
          crossing)

\* An object nobody refers to any more is no longer one.
Collected(m) ==
    LET heard == In(m.consumers, {"piping", "making", "open"})
        bridges == [b \in Bridges |->
            IF m.bridges[b].state = "gone" /\ \A c \in heard : m.consumers[c].bridge # b
            THEN Nothing ELSE m.bridges[b]]
        used == {m.consumers[c].source : c \in heard}
                  \cup {bridges[b].source : b \in In(bridges, {"making", "open", "gone"})}
    IN  [m EXCEPT !.bridges = bridges,
                  !.producers = [x \in Producers |->
                      IF @[x].state = "gone" /\ x \notin used THEN Nothing ELSE @[x]]]

Become(m) == media' = Collected(m)

New(f) == CHOOSE i \in DOMAIN f : f[i] = Nothing
HasNew(f) == \E i \in DOMAIN f : f[i] = Nothing

-----------------------------------------------------------------------------
(* Sessions.                                                               *)

Init == media = EmptyRoom

OwnTransports(m, p) == {m.peers[p].send, m.peers[p].recv} \ {None}

\* resetPeerMedia: the session changes only if there was a transport.
ResetPeerMedia(m, p) ==
    IF OwnTransports(m, p) = {} THEN [m EXCEPT !.peers[p].caps = FALSE]
    ELSE [CloseTransports(m, OwnTransports(m, p))
             EXCEPT !.peers[p].session = @ + 1, !.peers[p].caps = FALSE]

\* joinPeer by a page that knows no session of this peer.  One that knows the
\* current session resumes it, and nothing changes.
JoinPeer(p) ==
    /\ media.peers[p].session < MaxSessions[p]
    /\ IF media.peers[p].here
       THEN Become(ResetPeerMedia(media, p))
       ELSE Become([media EXCEPT !.peers[p].here = TRUE, !.peers[p].session = @ + 1])

SetPeerRtpCapabilities(p) ==
    /\ media.peers[p].here
    /\ ~media.peers[p].caps
    /\ Become([media EXCEPT !.peers[p].caps = TRUE])

\* removePeer, and releaseRouterIfIdle for the last of its Router.
\* Mutant: it closes the transport the peer sends by and not the other.
RemovePeerSending(p) ==
    LET gone == [CloseTransports(media, {media.peers[p].send} \ {None})
                    EXCEPT !.peers[p].here = FALSE, !.peers[p].caps = FALSE]
    IN  /\ media.peers[p].here
        /\ Become(IF RouterIsOpen(gone, Home[p]) THEN gone
                  ELSE CloseRouter(gone, Home[p]))

RemovePeer(p) ==
    LET gone == [CloseTransports(media, OwnTransports(media, p))
                    EXCEPT !.peers[p].here = FALSE, !.peers[p].caps = FALSE]
    IN  /\ media.peers[p].here
        /\ Become(IF RouterIsOpen(gone, Home[p]) THEN gone
                  ELSE CloseRouter(gone, Home[p]))

-----------------------------------------------------------------------------
(* Transports.                                                             *)

CreateTransport(p, direction) ==
    /\ media.peers[p].here
    /\ HasNew(media.transports)
    /\ Become([media EXCEPT !.transports[New(media.transports)] =
                  [state |-> "making", owner |-> p, direction |-> direction,
                   session |-> media.peers[p].session]])

Installed(m, t) ==
    LET made == m.transports[t]
        opened == [m EXCEPT !.transports[t].state = "open"]
    IN  IF made.direction = "send"
        THEN [opened EXCEPT !.peers[made.owner].send = t]
        ELSE [opened EXCEPT !.peers[made.owner].recv = t]

SameSession(t) ==
    LET made == media.transports[t]
    IN  media.peers[made.owner].here
          /\ media.peers[made.owner].session = made.session

Former(made) ==
    (IF made.direction = "send" THEN {media.peers[made.owner].send}
     ELSE {media.peers[made.owner].recv}) \ {None}

\* The Worker made the transport.  It replaces the former one of the peer,
\* which closes, unless the peer left or began another session meanwhile.
TransportReady(t) ==
    LET made == media.transports[t]
    IN  /\ made.state = "making"
        /\ Become(IF SameSession(t)
                  THEN Installed(CloseTransports(media, Former(made)), t)
                  ELSE CloseTransports(media, {t}))

TransportRefused(t) ==
    /\ media.transports[t].state = "making"
    /\ Become(CloseTransports(media, {t}))

\* DTLS closed at the other end.
TransportDies(t) ==
    /\ media.transports[t].state = "open"
    /\ Become(CloseTransports(media, {t}))

-----------------------------------------------------------------------------
(* Publishing.                                                             *)

Produce(p, kind) ==
    /\ media.peers[p].here
    /\ media.peers[p].send # None
    /\ HasNew(media.producers)
    /\ Become([media EXCEPT !.producers[New(media.producers)] =
                  [state |-> "making", owner |-> p, kind |-> kind,
                   transport |-> media.peers[p].send]])

\* The former track of the same kind closes, and the new one is announced.
\* Mutant: it was closed before the await.
ProducerReadyBeside(x) ==
    /\ media.producers[x].state = "making"
    /\ Become([media EXCEPT
           !.producers[x].state = "open", !.onAir = @ \cup {x},
           !.units[OwnerHome(media, x)] = @ + Weight(media.producers[x].kind)])

ProducerReady(x) ==
    LET made == media.producers[x]
        former == {y \in In(media.producers, {"open"}) :
                      media.producers[y].owner = made.owner
                        /\ media.producers[y].kind = made.kind}
    IN  /\ made.state = "making"
        /\ Become([CloseProducers(media, former) EXCEPT
               !.producers[x].state = "open", !.onAir = @ \cup {x},
               !.units[Home[made.owner]] = @ + Weight(made.kind)])

ProduceRefused(x) ==
    /\ media.producers[x].state = "making"
    /\ Become([media EXCEPT !.producers[x] = Nothing])

CloseProducer(x) ==
    /\ media.producers[x].state = "open"
    /\ Become(CloseProducers(media, {x}))

-----------------------------------------------------------------------------
(* Subscribing.                                                            *)

\* ensurePiped: the bridge there is, ready or in the making, or one more.
EnsurePiped(m, w, x) ==
    LET b == m.pipes[<<w, x>>]
        n == New(m.bridges)
    IN  IF b # None THEN [m |-> m, bridge |-> b]
        ELSE [m |-> [m EXCEPT !.bridges[n] = [state |-> "making", to |-> w, source |-> x,
                                                 cut |-> FALSE],
                              !.pipes[<<w, x>>] = n],
              bridge |-> n]

Subscription(state, p, x, bridge) ==
    [state |-> state, owner |-> p, source |-> x, transport |-> media.peers[p].recv,
     bridge |-> bridge]

\* consume, up to its first await: at home at once, elsewhere after the bridge.
ConsumeAtHome(p, x) ==
    /\ media.peers[p].here /\ media.peers[p].caps
    /\ media.peers[p].recv # None
    /\ x \in media.onAir
    /\ OwnerHome(media, x) = Home[p]
    /\ HasNew(media.consumers)
    /\ Become([media EXCEPT !.consumers[New(media.consumers)] =
                  Subscription("making", p, x, None)])

ConsumeElsewhere(p, x) ==
    LET piped == EnsurePiped(media, Home[p], x)
    IN  /\ media.peers[p].here /\ media.peers[p].caps
        /\ media.peers[p].recv # None
        /\ x \in media.onAir
        /\ OwnerHome(media, x) # Home[p]
        /\ HasNew(media.consumers)
        /\ HasNew(media.bridges)
        /\ Become([piped.m EXCEPT !.consumers[New(media.consumers)] =
                      Subscription("piping", p, x, piped.bridge)])

\* The bridge stands while both its ends do: it counts on both Workers.
\* Mutant: on one.
BridgeReadyOneSided(b) ==
    LET made == media.bridges[b]
    IN  /\ made.state = "making"
        /\ media.producers[made.source].state = "open"
        /\ ~made.cut
        /\ Become([media EXCEPT !.bridges[b].state = "open",
                      !.units[made.to] = @ + Weight(media.producers[made.source].kind)])

BridgeReady(b) ==
    LET made == media.bridges[b]
        weight == Weight(media.producers[made.source].kind)
    IN  /\ made.state = "making"
        /\ media.producers[made.source].state = "open"
        /\ ~made.cut
        /\ Become([media EXCEPT !.bridges[b].state = "open",
                      !.units = [w \in Workers |->
                          IF w \in {made.to, OwnerHome(media, made.source)}
                          THEN @[w] + weight ELSE @[w]]])

\* It forgets itself and nobody else's.  Mutant: whatever is under the key.
BridgeFailsForgetting(b) ==
    LET made == media.bridges[b]
    IN  /\ made.state = "making"
        /\ Become([media EXCEPT
               !.bridges[b] = Nothing,
               !.pipes[<<made.to, made.source>>] = None,
               !.consumers = [c \in Consumers |->
                   IF @[c].state = "piping" /\ @[c].bridge = b THEN Nothing ELSE @[c]]])

BridgeFails(b) ==
    /\ media.bridges[b].state = "making"
    /\ Become([media EXCEPT
           !.bridges[b] = Nothing,
           !.pipes = [k \in Workers \X Producers |-> IF @[k] = b THEN None ELSE @[k]],
           !.consumers = [c \in Consumers |->
               IF @[c].state = "piping" /\ @[c].bridge = b THEN Nothing ELSE @[c]]])

\* consume goes on after the bridge, and asks for the consumer.
Piped(c) ==
    /\ media.consumers[c].state = "piping"
    /\ media.bridges[media.consumers[c].bridge].state = "open"
    /\ Become([media EXCEPT !.consumers[c].state = "making"])

ConsumerReady(c) ==
    LET made == media.consumers[c]
    IN  /\ made.state = "making"
        /\ Become([media EXCEPT !.consumers[c].state = "open",
              !.units[Home[made.owner]] =
                  @ + Weight(media.producers[made.source].kind)])

ConsumeRefused(c) ==
    /\ media.consumers[c].state = "making"
    /\ Become([media EXCEPT !.consumers[c] = Nothing])

\* The Worker tells a bridge, and then a consumer, that its source closed.
BridgeLearns(b) ==
    /\ media.bridges[b].state = "open"
    /\ media.producers[media.bridges[b].source].state = "gone"
    /\ Become(CloseBridges(media, {b}))

SourceGone(c) ==
    LET sub == media.consumers[c]
    IN  IF sub.bridge = None THEN media.producers[sub.source].state = "gone"
        ELSE media.bridges[sub.bridge].state = "gone"

ConsumerLearns(c) ==
    /\ media.consumers[c].state = "open"
    /\ SourceGone(c)
    /\ Become(CloseConsumers(media, {c}))

Next ==
    \/ \E p \in Peers : JoinPeer(p) \/ SetPeerRtpCapabilities(p) \/ RemovePeer(p)
    \/ \E u \in Uses : CreateTransport(u[1], u[2])
    \/ \E t \in Transports : TransportReady(t) \/ TransportRefused(t) \/ TransportDies(t)
    \/ \E p \in Peers, kind \in Kinds : Produce(p, kind)
    \/ \E x \in Producers : ProducerReady(x) \/ ProduceRefused(x) \/ CloseProducer(x)
    \/ \E p \in Peers, x \in Producers : ConsumeAtHome(p, x) \/ ConsumeElsewhere(p, x)
    \/ \E b \in Bridges : BridgeReady(b) \/ BridgeFails(b) \/ BridgeLearns(b)
    \/ \E c \in Consumers :
           Piped(c) \/ ConsumerReady(c) \/ ConsumeRefused(c) \/ ConsumerLearns(c)

Spec == Init /\ [][Next]_media

-----------------------------------------------------------------------------

MediaTypeOK ==
    /\ \A p \in Peers :
           media.peers[p] \in [here : BOOLEAN, session : 0..MaxSessions[p],
                               send : Transports \cup {None},
                               recv : Transports \cup {None}, caps : BOOLEAN]
    /\ \A t \in Transports : media.transports[t] = Nothing \/ media.transports[t] \in
           [state : {"making", "open"}, owner : Peers, direction : {"send", "recv"},
            session : Nat]
    /\ \A x \in Producers : media.producers[x] = Nothing \/ media.producers[x] \in
           [state : {"making", "open", "gone"}, owner : Peers, kind : Kinds,
            transport : Transports]
    /\ \A c \in Consumers : media.consumers[c] = Nothing \/ media.consumers[c] \in
           [state : {"piping", "making", "open"}, owner : Peers, source : Producers,
            transport : Transports, bridge : Bridges \cup {None}]
    /\ \A b \in Bridges : media.bridges[b] = Nothing \/ media.bridges[b] \in
           [state : {"making", "open", "gone"}, to : Workers, source : Producers,
            cut : BOOLEAN]
    /\ media.onAir \subseteq Producers
    /\ media.pipes \in [Workers \X Producers -> Bridges \cup {None}]
    /\ media.units \in [Workers -> Int]

\* The load of a Worker is what it forwards and nothing else, whatever was
\* closed by hand, by its transport, by its Router or while a bridge was being
\* made: no unit stays behind and none is given back twice (account).
UnitsAreWhatIsForwarded ==
    \A w \in Workers :
        media.units[w] = ProducerUnits(media, In(media.producers, {"open"}), w)
                           + ConsumerUnits(media, In(media.consumers, {"open"}), w)
                           + BridgeUnits(media, In(media.bridges, {"open"}), w)

\* A transport that is open is one its peer still refers to, so it closes when
\* the peer leaves or begins again (createTransport, rooms.ts:340-346).
NoOrphanTransport ==
    \A t \in In(media.transports, {"open"}) :
        LET peer == media.peers[media.transports[t].owner]
        IN  peer.here /\ t \in {peer.send, peer.recv}

\* A peer has one track of each kind on the air, however many it asked for at
\* once and whatever it left behind (produce, rooms.ts:405-411).
OneTrackPerKind ==
    \A x, y \in In(media.producers, {"open"}) :
        media.producers[x].owner = media.producers[y].owner
          /\ media.producers[x].kind = media.producers[y].kind => x = y

\* What the room lists to newcomers is what is on the air, and each of those
\* tracks belongs to somebody who is here and can still send it.
RoomListsWhatIsOnAir ==
    /\ media.onAir = In(media.producers, {"open"})
    /\ \A x \in media.onAir :
           LET peer == media.peers[media.producers[x].owner]
           IN  peer.here /\ peer.send = media.producers[x].transport

\* The list of bridges is the bridges: each track crosses to a Worker once,
\* and a bridge that failed, or whose Router closed, is not waited for.
PipesAreTheBridges ==
    /\ \A k \in Workers \X Producers : media.pipes[k] # None =>
           LET bridge == media.bridges[media.pipes[k]]
           IN  bridge.state \in {"making", "open"} /\ ~bridge.cut
                 /\ <<bridge.to, bridge.source>> = k
    /\ \A b \in In(media.bridges, {"making", "open"}) :
           LET bridge == media.bridges[b]
           IN  bridge.source \in media.onAir /\ ~bridge.cut
                   => media.pipes[<<bridge.to, bridge.source>>] = b

\* Nothing is forwarded to who left or began again: a consumer is on the
\* transport its peer receives by now.
SubscribersAreHere ==
    \A c \in In(media.consumers, {"open"}) :
        LET peer == media.peers[media.consumers[c].owner]
        IN  peer.here /\ peer.recv = media.consumers[c].transport

\* What the room offers is in order: its transports are those its peers refer
\* to, a peer has one track of each kind, and newcomers are told of the tracks
\* on the air, each by somebody who is here and can still send it.
TracksAreSound ==
    MediaTypeOK /\ NoOrphanTransport /\ OneTrackPerKind /\ RoomListsWhatIsOnAir
=============================================================================
