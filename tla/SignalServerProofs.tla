------------------------- MODULE SignalServerProofs -------------------------
(***************************************************************************)
(* Proofs about the peers of the node, for every set of people, channels,  *)
(* pages and timeout handles, and however they are assigned to each other. *)
(*                                                                         *)
(* First PeerLiveness on its own: the grace bookkeeping is coherent and    *)
(* keeps the promise of PeerPresence.  Then SignalServer: the server and   *)
(* the presence socket use the class as PeerLiveness allows, so what was   *)
(* shown of it holds of the node; and sessions, roster and connections     *)
(* agree.                                                                  *)
(***************************************************************************)
EXTENDS SignalServer, TLAPS

-----------------------------------------------------------------------------
(* The liveness class.                                                     *)

\* The inductive invariant.  NobodyLeftBehind needs NoOrphanCountdown (what
\* the class remembers is what runs) and NoCountdownWhileReachable (Fire finds
\* no channel), and these two need each other at Attach.
Inv ==
    /\ TypeOK
    /\ ChannelsAreOpenConnections
    /\ NoOrphanCountdown
    /\ NoCountdownWhileReachable
    /\ NobodyLeftBehind

LEMMA InitInv == Init => Inv
  <1> SUFFICES ASSUME Init PROVE Inv
    OBVIOUS
  <1> USE DEF Init
  <1>1. TypeOK
    BY DEF TypeOK
  <1>2. ChannelsAreOpenConnections
    BY DEF ChannelsAreOpenConnections
  <1>3. NoOrphanCountdown
    BY LivenessAssumption DEF NoOrphanCountdown
  <1>4. NoCountdownWhileReachable
    BY DEF NoCountdownWhileReachable
  <1>5. NobodyLeftBehind
    BY DEF NobodyLeftBehind
  <1>6. QED
    BY <1>1, <1>2, <1>3, <1>4, <1>5 DEF Inv

\* Cancelling leaves a peer with no countdown and the others with theirs.
LEMMA CancelEffect ==
    ASSUME TypeOK, NoOrphanCountdown, NEW p \in Peers, Cancel(p)
    PROVE  /\ timers' \in [Peers -> Timers \cup {NoTimer}]
           /\ countdown' \in [Timers -> Peers \cup {Nobody}]
           /\ NoOrphanCountdown'
           /\ timers'[p] = NoTimer
           /\ \A q \in Peers \ {p} : timers'[q] = timers[q]
           /\ \A t \in Timers : countdown'[t] # p
           /\ \A t \in Timers : countdown'[t] \in {Nobody, countdown[t]}
  BY LivenessAssumption DEF TypeOK, NoOrphanCountdown, Cancel

LEMMA AttachInv ==
    ASSUME Inv, NEW p \in Peers, NEW c \in Channels,
           NEW i \in Pages \cup {NoPage}, Attach(p, c, i)
    PROVE  Inv'
  <1> USE LivenessAssumption DEF Inv
  <1>1. /\ timers' \in [Peers -> Timers \cup {NoTimer}]
        /\ countdown' \in [Timers -> Peers \cup {Nobody}]
        /\ NoOrphanCountdown'
        /\ timers'[p] = NoTimer
        /\ \A q \in Peers \ {p} : timers'[q] = timers[q]
        /\ \A t \in Timers : countdown'[t] # p
        /\ \A t \in Timers : countdown'[t] \in {Nobody, countdown[t]}
    BY CancelEffect DEF Attach
  <1>2. TypeOK'
    BY <1>1 DEF TypeOK, Attach
  <1>3. ChannelsAreOpenConnections'
    BY DEF TypeOK, Attach, ChannelsAreOpenConnections
  <1>4. NoCountdownWhileReachable'
    BY <1>1 DEF TypeOK, Attach, NoCountdownWhileReachable
  <1>5. NobodyLeftBehind'
    BY <1>1 DEF TypeOK, Attach, NobodyLeftBehind
  <1>6. QED
    BY <1>1, <1>2, <1>3, <1>4, <1>5

LEMMA ForgottenInv ==
    ASSUME Inv, NEW p \in Peers, Forgotten(p),
           instance' \in [Channels -> Pages \cup {NoPage}],
           owner' \in [Channels -> Peers \cup {Nobody}],
           \A c \in Channels : owner'[c] # owner[c] => owner[c] = p
    PROVE  Inv'
  <1> USE LivenessAssumption DEF Inv
  <1>1. /\ timers' \in [Peers -> Timers \cup {NoTimer}]
        /\ countdown' \in [Timers -> Peers \cup {Nobody}]
        /\ NoOrphanCountdown'
        /\ timers'[p] = NoTimer
        /\ \A q \in Peers \ {p} : timers'[q] = timers[q]
        /\ \A t \in Timers : countdown'[t] # p
        /\ \A t \in Timers : countdown'[t] \in {Nobody, countdown[t]}
    BY CancelEffect DEF Forgotten
  <1>2. TypeOK'
    BY <1>1 DEF TypeOK, Forgotten
  <1>3. ChannelsAreOpenConnections'
    BY DEF TypeOK, Forgotten, ChannelsAreOpenConnections
  <1>4. NoCountdownWhileReachable'
    BY <1>1 DEF TypeOK, Forgotten, NoCountdownWhileReachable
  <1>5. NobodyLeftBehind'
    BY <1>1 DEF TypeOK, Forgotten, NobodyLeftBehind
  <1>6. QED
    BY <1>1, <1>2, <1>3, <1>4, <1>5

\* A close that only takes a channel out of the map, and not the last one.
LEMMA ChannelGoneInv ==
    ASSUME Inv, NEW c \in Channels, Closed(c),
           UNCHANGED <<timers, countdown, known>>,
           NEW S \in SUBSET Channels, S \subseteq channels[owner[c]], c \notin S,
           S = {} => channels[owner[c]] = {},
           channels' = [channels EXCEPT ![owner[c]] = S]
    PROVE  Inv'
  <1> USE LivenessAssumption DEF Inv
  <1>0. owner[c] \in Peers
    BY DEF TypeOK, Closed
  <1>1. TypeOK'
    BY <1>0 DEF TypeOK, Closed
  <1>2. ChannelsAreOpenConnections'
    BY <1>0 DEF TypeOK, Closed, ChannelsAreOpenConnections
  <1>3. NoOrphanCountdown'
    BY DEF NoOrphanCountdown
  <1>4. NoCountdownWhileReachable'
    BY <1>0 DEF TypeOK, NoCountdownWhileReachable
  <1>5. NobodyLeftBehind'
    BY <1>0 DEF TypeOK, NobodyLeftBehind
  <1>6. QED
    BY <1>1, <1>2, <1>3, <1>4, <1>5

LEMMA FallOfLastInv ==
    ASSUME Inv, NEW c \in Channels, FallOfLastChannel(c)
    PROVE  Inv'
  <1> USE LivenessAssumption DEF Inv
  <1>0. /\ owner[c] \in Peers
        /\ timers[owner[c]] = NoTimer
    <2>1. owner[c] \in Peers
      BY DEF TypeOK, FallOfLastChannel, Closed
    <2>2. channels[owner[c]] # {}
      BY DEF FallOfLastChannel
    <2>3. ASSUME timers[owner[c]] # NoTimer PROVE FALSE
      <3> DEFINE t == timers[owner[c]]
      <3>1. t \in Timers /\ countdown[t] = owner[c]
        BY <2>1, <2>3 DEF TypeOK, NoOrphanCountdown
      <3>2. QED
        BY <2>1, <2>2, <3>1 DEF NoCountdownWhileReachable
    <2>4. QED
      BY <2>1, <2>3
  <1>1. PICK t \in Timers : /\ countdown[t] = Nobody
                            /\ countdown' = [countdown EXCEPT ![t] = owner[c]]
                            /\ timers' = [timers EXCEPT ![owner[c]] = t]
    BY DEF FallOfLastChannel
  <1>2. TypeOK'
    BY <1>0, <1>1 DEF TypeOK, FallOfLastChannel, Closed
  <1>3. ChannelsAreOpenConnections'
    BY <1>0 DEF TypeOK, FallOfLastChannel, Closed, ChannelsAreOpenConnections
  <1>4. NoOrphanCountdown'
    BY <1>0, <1>1 DEF TypeOK, NoOrphanCountdown
  <1>5. NoCountdownWhileReachable'
    BY <1>0, <1>1 DEF TypeOK, FallOfLastChannel, NoCountdownWhileReachable
  <1>6. NobodyLeftBehind'
    BY <1>0, <1>1 DEF TypeOK, FallOfLastChannel, NobodyLeftBehind
  <1>7. QED
    BY <1>2, <1>3, <1>4, <1>5, <1>6

LEMMA AttachAndFallInv ==
    ASSUME Inv, NEW p \in Peers, AttachAndFall(p)
    PROVE  Inv'
  <1> USE LivenessAssumption DEF Inv
  <1>1. PICK t \in Timers :
           /\ countdown[t] = Nobody
           /\ countdown' = [u \in Timers |-> IF u = t THEN p
                                          ELSE IF u = timers[p] THEN Nobody
                                          ELSE countdown[u]]
           /\ timers' = [timers EXCEPT ![p] = t]
    BY DEF AttachAndFall
  <1>2. TypeOK'
    BY <1>1 DEF TypeOK, AttachAndFall
  <1>3. ChannelsAreOpenConnections'
    BY DEF AttachAndFall, ChannelsAreOpenConnections
  <1>4. NoOrphanCountdown'
    BY <1>1 DEF TypeOK, NoOrphanCountdown
  <1>5. NoCountdownWhileReachable'
    BY <1>1 DEF TypeOK, AttachAndFall, NoCountdownWhileReachable
  <1>6. NobodyLeftBehind'
    BY <1>1 DEF TypeOK, AttachAndFall, NobodyLeftBehind
  <1>7. QED
    BY <1>2, <1>3, <1>4, <1>5, <1>6

LEMMA FireInv ==
    ASSUME Inv, NEW t \in Timers, Fire(t)
    PROVE  Inv'
  <1> USE LivenessAssumption DEF Inv, Fire
  <1>0. /\ countdown[t] \in Peers
        /\ channels[countdown[t]] = {}
        /\ timers[countdown[t]] = t
    BY DEF TypeOK, NoCountdownWhileReachable, NoOrphanCountdown
  <1>1. TypeOK'
    BY <1>0 DEF TypeOK
  <1>2. ChannelsAreOpenConnections'
    BY DEF ChannelsAreOpenConnections
  <1>3. NoOrphanCountdown'
    BY <1>0 DEF TypeOK, NoOrphanCountdown
  <1>4. NoCountdownWhileReachable'
    BY <1>0 DEF TypeOK, NoCountdownWhileReachable
  <1>5. NobodyLeftBehind'
    BY <1>0 DEF TypeOK, NobodyLeftBehind
  <1>6. QED
    BY <1>1, <1>2, <1>3, <1>4, <1>5

LEMMA NextInv == Inv /\ [Next]_livenessVars => Inv'
  <1> SUFFICES ASSUME Inv, [Next]_livenessVars PROVE Inv'
    OBVIOUS
  <1>1. CASE \E p \in Peers, c \in Channels, i \in Pages \cup {NoPage} : Attach(p, c, i)
    BY <1>1, AttachInv
  <1>2. ASSUME NEW c \in Channels, DetachUnknown(c) PROVE Inv'
    <2>1. owner[c] \in Peers /\ channels[owner[c]] \in SUBSET Channels
      BY <1>2 DEF Inv, TypeOK, DetachUnknown, Closed
    <2>2. channels' = [channels EXCEPT ![owner[c]] = channels[owner[c]]]
      BY <1>2, <2>1 DEF Inv, TypeOK, DetachUnknown
    <2>3. QED
      BY <1>2, <2>1, <2>2, ChannelGoneInv DEF DetachUnknown
  <1>3. ASSUME NEW c \in Channels, GoodbyeOfOnePage(c) PROVE Inv'
    <2>1. /\ channels[owner[c]] \ {c} \in SUBSET Channels
          /\ channels[owner[c]] \ {c} # {}
      BY <1>3 DEF Inv, TypeOK, GoodbyeOfOnePage, Closed, FromAnotherPage
    <2>2. QED
      BY <1>3, <2>1, ChannelGoneInv DEF GoodbyeOfOnePage
  <1>4. ASSUME NEW c \in Channels, GoodbyeOfPeer(c) PROVE Inv'
    <2>1. /\ owner[c] \in Peers
          /\ Forgotten(owner[c])
          /\ instance' \in [Channels -> Pages \cup {NoPage}]
          /\ owner' \in [Channels -> Peers \cup {Nobody}]
          /\ \A d \in Channels : owner'[d] # owner[d] => owner[d] = owner[c]
      BY <1>4 DEF Inv, TypeOK, GoodbyeOfPeer, Closed
    <2>2. QED
      BY <2>1, ForgottenInv
  <1>5. ASSUME NEW c \in Channels, FallOfOneChannel(c) PROVE Inv'
    <2>1. /\ channels[owner[c]] \ {c} \in SUBSET Channels
          /\ channels[owner[c]] \ {c} # {}
      BY <1>5 DEF Inv, TypeOK, FallOfOneChannel, Closed
    <2>2. QED
      BY <1>5, <2>1, ChannelGoneInv DEF FallOfOneChannel
  <1>6. ASSUME NEW c \in Channels, FallOfLastChannel(c) PROVE Inv'
    BY <1>6, FallOfLastInv
  <1>7. CASE \E t \in Timers : Fire(t)
    BY <1>7, FireInv
  <1>8. ASSUME NEW p \in Peers, Forget(p) PROVE Inv'
    <2>1. /\ instance' \in [Channels -> Pages \cup {NoPage}]
          /\ owner' \in [Channels -> Peers \cup {Nobody}]
          /\ \A c \in Channels : owner'[c] # owner[c] => owner[c] = p
      BY <1>8 DEF Inv, TypeOK, Forget
    <2>2. QED
      BY <1>8, <2>1, ForgottenInv DEF Forget
  <1>9. CASE \E p \in Peers : AttachAndFall(p)
    BY <1>9, AttachAndFallInv
  <1>10. CASE UNCHANGED livenessVars
    BY <1>10 DEF livenessVars, Inv, TypeOK, ChannelsAreOpenConnections,
       NoOrphanCountdown, NoCountdownWhileReachable, NobodyLeftBehind
  <1>11. QED
    BY <1>1, <1>2, <1>3, <1>4, <1>5, <1>6, <1>7, <1>8, <1>9, <1>10 DEF Next

\* The grace bookkeeping stays coherent whatever opens, closes, fires or is
\* removed, in any order.
THEOREM SpecInv == Spec => []Inv
  BY InitInv, NextInv, PTL DEF Spec

\* Types are kept.
THEOREM TypeCorrect == Spec => []TypeOK
  <1>1. Inv => TypeOK
    BY DEF Inv
  <1>2. QED
    BY <1>1, SpecInv, PTL

\* Nobody is counted out while reachable, and no timeout escapes the class.
THEOREM CountdownsAreSound == Spec => []CountdownsAgree
  <1>1. Inv => CountdownsAgree
    BY DEF Inv, CountdownsAgree
  <1>2. QED
    BY <1>1, SpecInv, PTL

\* A peer that attached is reachable, or waited for, until it is expired or
\* forgotten: none is left in the room for ever for want of a countdown.
THEOREM NobodyIsLeftBehind == Spec => []NobodyLeftBehind
  <1>1. Inv => NobodyLeftBehind
    BY DEF Inv
  <1>2. QED
    BY <1>1, SpecInv, PTL

-----------------------------------------------------------------------------
(* The refinement: each step of the class is a step of the promise, or     *)
(* leaves what the promise talks about alone.                              *)

LEMMA InitPromise == Init => Presence!Init
  BY DEF Init, Presence!Init, holdersOf, statusOf

\* How the mapped holders and status follow the channels and the known peers.
LEMMA HoldersStep ==
    ASSUME Inv, NEW p \in Peers, NEW S, NEW c \in Channels,
           \A q \in Peers : c \in channels[q] => q = p,
           channels' = [channels EXCEPT ![p] = S],
           \A d \in Channels \ {c} : instance'[d] = instance[d],
           S \subseteq Channels
    PROVE  holdersOf' = [holdersOf EXCEPT ![p] = {<<d, instance'[d]>> : d \in S}]
  <1>1. channels \in [Peers -> SUBSET Channels]
    BY DEF Inv, TypeOK
  <1>2. \A q \in Peers \ {p} :
           {<<d, instance'[d]>> : d \in channels[q]} = {<<d, instance[d]>> : d \in channels[q]}
    BY <1>1
  <1>3. QED
    BY <1>1, <1>2 DEF holdersOf

LEMMA StatusStep ==
    ASSUME Inv, Inv', NEW p \in Peers,
           \A q \in Peers \ {p} : channels'[q] = channels[q] /\ (q \in known' <=> q \in known)
    PROVE  statusOf' = [statusOf EXCEPT ![p] =
                           IF p \notin known' THEN "gone"
                           ELSE IF channels'[p] # {} THEN "here" ELSE "grace"]
  BY DEF statusOf

LEMMA AttachPromise ==
    ASSUME Inv, Inv', NEW p \in Peers, NEW c \in Channels,
           NEW i \in Pages \cup {NoPage}, Attach(p, c, i)
    PROVE  Presence!Arrive(p, c, i)
  <1>1. \A q \in Peers : c \notin channels[q]
    BY LivenessAssumption DEF Inv, ChannelsAreOpenConnections, Attach
  <1>2. channels[p] \cup {c} \subseteq Channels
    BY DEF Inv, TypeOK
  <1>3. holdersOf' = [holdersOf EXCEPT ![p] = {<<d, instance'[d]>> : d \in channels[p] \cup {c}}]
    <2>1. channels' = [channels EXCEPT ![p] = channels[p] \cup {c}]
      BY DEF Attach
    <2>2. \A d \in Channels \ {c} : instance'[d] = instance[d]
      BY DEF Attach, Inv, TypeOK
    <2>3. QED
      BY <1>1, <1>2, <2>1, <2>2, HoldersStep
  <1>4. {<<d, instance'[d]>> : d \in channels[p] \cup {c}} = holdersOf[p] \cup {<<c, i>>}
    <2>1. instance'[c] = i /\ \A d \in channels[p] : instance'[d] = instance[d]
      BY <1>1, <1>2 DEF Attach, Inv, TypeOK
    <2>2. QED
      BY <2>1 DEF holdersOf
  <1>5. statusOf' = [statusOf EXCEPT ![p] = "here"]
    <2>1. p \in known' /\ channels'[p] # {}
      BY DEF Attach, Inv, TypeOK
    <2>2. \A q \in Peers \ {p} : channels'[q] = channels[q] /\ (q \in known' <=> q \in known)
      BY DEF Attach, Inv, TypeOK
    <2>3. QED
      BY <2>1, <2>2, StatusStep
  <1>6. QED
    BY <1>3, <1>4, <1>5 DEF Presence!Arrive, Attach

\* A close that leaves S of the channels of its peer.
LEMMA CloseHolders ==
    ASSUME Inv, NEW c \in Channels, Closed(c),
           NEW S \in SUBSET Channels, S \subseteq channels[owner[c]], c \notin S,
           channels' = [channels EXCEPT ![owner[c]] = S]
    PROVE  /\ owner[c] \in Peers
           /\ holdersOf' = [holdersOf EXCEPT ![owner[c]] = {<<d, instance[d]>> : d \in S}]
  <1>1. owner[c] \in Peers
    BY DEF Inv, TypeOK, Closed
  <1>2. \A q \in Peers : c \in channels[q] => q = owner[c]
    BY DEF Inv, ChannelsAreOpenConnections
  <1>3. \A d \in Channels \ {c} : instance'[d] = instance[d]
    BY DEF Inv, TypeOK, Closed
  <1>4. {<<d, instance'[d]>> : d \in S} = {<<d, instance[d]>> : d \in S}
    BY <1>3
  <1>5. holdersOf' = [holdersOf EXCEPT ![owner[c]] = {<<d, instance'[d]>> : d \in S}]
    <2>1. S \subseteq Channels
      OBVIOUS
    <2>2. QED
      BY <1>1, <1>2, <1>3, <2>1, HoldersStep
  <1>6. QED
    BY <1>1, <1>4, <1>5

\* Who else counts for the peer of c, in terms of the class.
LEMMA RestIs ==
    ASSUME Inv, NEW c \in Channels, owner[c] \in Peers
    PROVE  /\ Presence!Rest(owner[c], c) =
                 {<<d, instance[d]>> : d \in channels[owner[c]] \ {c}}
           /\ c \in channels[owner[c]] =>
                 /\ <<c, instance[c]>> \in holdersOf[owner[c]]
                 /\ Presence!Rest(owner[c], c) # holdersOf[owner[c]]
           /\ c \notin channels[owner[c]] =>
                 Presence!Rest(owner[c], c) = holdersOf[owner[c]]
  <1> DEFINE p == owner[c]
  <1>1. holdersOf[p] = {<<d, instance[d]>> : d \in channels[p]}
    BY DEF holdersOf
  <1>2. Presence!Rest(p, c) = {h \in holdersOf[p] : h[1] # c}
    BY DEF Presence!Rest
  <1>3. \A d : <<d, instance[d]>>[1] = d
    OBVIOUS
  <1>4. Presence!Rest(p, c) = {<<d, instance[d]>> : d \in channels[p] \ {c}}
    BY <1>1, <1>2, <1>3
  <1>5. <<c, instance[c]>> \notin Presence!Rest(p, c)
    BY <1>2
  <1>6. QED
    BY <1>1, <1>4, <1>5

\* The status of everybody but the peer of c, when only that peer changes.
LEMMA CloseStatus ==
    ASSUME Inv, Inv', NEW c \in Channels, Closed(c), owner[c] \in Peers,
           NEW S, channels' = [channels EXCEPT ![owner[c]] = S],
           known' \in {known, known \ {owner[c]}}
    PROVE  /\ channels'[owner[c]] = S
           /\ statusOf' = [statusOf EXCEPT ![owner[c]] =
                              IF owner[c] \notin known' THEN "gone"
                              ELSE IF S # {} THEN "here" ELSE "grace"]
  <1> DEFINE p == owner[c]
  <1>1. \A q \in Peers \ {p} :
           channels'[q] = channels[q] /\ (q \in known' <=> q \in known)
    BY DEF Inv, TypeOK
  <1>2. channels'[p] = S
    BY DEF Inv, TypeOK
  <1>3. statusOf' = [statusOf EXCEPT ![p] =
                        IF p \notin known' THEN "gone"
                        ELSE IF channels'[p] # {} THEN "here" ELSE "grace"]
    BY <1>1, StatusStep
  <1>4. QED
    BY <1>2, <1>3

LEMMA ClosePromise == 
    ASSUME Inv, NEW c \in Channels, Closed(c)
    PROVE  Presence!Close(owner[c], c)
  BY DEF Presence!Close, Closed

LEMMA DetachUnknownPromise ==
    ASSUME Inv, Inv', NEW c \in Channels, DetachUnknown(c)
    PROVE  Presence!LateClose(owner[c], c)
  <1>1. Closed(c) /\ c \notin channels[owner[c]]
    BY DEF DetachUnknown
  <1>2. owner[c] \in Peers
    BY <1>1 DEF Inv, TypeOK, Closed
  <1>3. Presence!Rest(owner[c], c) = holdersOf[owner[c]]
    BY <1>1, <1>2, RestIs
  <1>4. holdersOf' = holdersOf
    <2>1. \A q \in Peers : c \notin channels[q]
      BY <1>1 DEF Inv, ChannelsAreOpenConnections
    <2>2. \A q \in Peers : \A d \in channels[q] : instance'[d] = instance[d]
      BY <1>1, <2>1 DEF Inv, TypeOK, Closed
    <2>3. QED
      BY <2>2 DEF DetachUnknown, holdersOf
  <1>5. statusOf' = statusOf
    BY DEF DetachUnknown, statusOf
  <1>6. QED
    BY <1>1, <1>3, <1>4, <1>5, ClosePromise DEF Presence!LateClose

LEMMA GoodbyeOfOnePagePromise ==
    ASSUME Inv, Inv', NEW c \in Channels, GoodbyeOfOnePage(c)
    PROVE  Presence!Goodbye(owner[c], c, instance[c])
  <1> DEFINE p == owner[c]
             S == channels[p] \ {c}
  <1>1. Closed(c) /\ c \in channels[p] /\ FromAnotherPage(c) /\ known' = known
    BY DEF GoodbyeOfOnePage
  <1>2. p \in Peers /\ S \in SUBSET Channels /\ S # {}
    BY <1>1 DEF Inv, TypeOK, Closed, FromAnotherPage
  <1>3. channels' = [channels EXCEPT ![p] = S]
    BY DEF GoodbyeOfOnePage
  <1>4. holdersOf' = [holdersOf EXCEPT ![p] = Presence!Rest(p, c)]
    BY <1>1, <1>2, <1>3, CloseHolders, RestIs
  <1>5. statusOf' = statusOf
    <2>1. p \in known
      BY <1>1, <1>2 DEF Inv, NobodyLeftBehind
    <2>2. statusOf' = [statusOf EXCEPT ![p] =
                          IF p \notin known' THEN "gone"
                          ELSE IF S # {} THEN "here" ELSE "grace"]
      <3> HIDE DEF S
      <3>1. QED
        BY <1>1, <1>2, <1>3, CloseStatus
    <2>3. statusOf[p] = "here"
      BY <1>1, <1>2, <2>1 DEF statusOf
    <2>4. QED
      BY <1>1, <1>2, <2>1, <2>2, <2>3 DEF statusOf
  <1>6. \E h \in Presence!Rest(p, c) : instance[c] = NoPage \/ h[2] # instance[c]
    <2>1. PICK other \in S : instance[c] = NoPage \/ instance[other] # instance[c]
      BY <1>1 DEF FromAnotherPage
    <2>2. <<other, instance[other]>> \in Presence!Rest(p, c)
      BY <1>2, RestIs
    <2>3. QED
      BY <2>1, <2>2
  <1>7. QED
    BY <1>1, <1>2, <1>4, <1>5, <1>6, RestIs, ClosePromise DEF Presence!Goodbye

LEMMA GoodbyeOfPeerPromise ==
    ASSUME Inv, Inv', NEW c \in Channels, GoodbyeOfPeer(c)
    PROVE  Presence!Goodbye(owner[c], c, instance[c])
  <1> DEFINE p == owner[c]
  <1>1. /\ Closed(c) /\ c \in channels[p] /\ ~FromAnotherPage(c)
        /\ known' = known \ {p}
        /\ channels' = [channels EXCEPT ![p] = {}]
    BY DEF GoodbyeOfPeer, Forgotten
  <1>2. p \in Peers
    BY <1>1 DEF Inv, TypeOK, Closed
  <1>3. holdersOf' = [holdersOf EXCEPT ![p] = {}]
    <2>1. holdersOf' = [holdersOf EXCEPT ![p] = {<<d, instance[d]>> : d \in {}}]
      BY <1>1, CloseHolders
    <2>2. {<<d, instance[d]>> : d \in {}} = {}
      OBVIOUS
    <2>3. QED
      BY <2>1, <2>2
  <1>4. statusOf' = [statusOf EXCEPT ![p] = "gone"]
    BY <1>1, <1>2, CloseStatus
  <1>5. ~\E h \in Presence!Rest(p, c) : instance[c] = NoPage \/ h[2] # instance[c]
    <2>1. Presence!Rest(p, c) = {<<d, instance[d]>> : d \in channels[p] \ {c}}
      BY <1>2, RestIs
    <2>2. \A d \in channels[p] \ {c} : instance[c] # NoPage /\ instance[d] = instance[c]
      BY <1>1 DEF FromAnotherPage
    <2>3. QED
      BY <2>1, <2>2
  <1>6. QED
    BY <1>1, <1>2, <1>3, <1>4, <1>5, RestIs, ClosePromise DEF Presence!Goodbye

LEMMA FallPromise ==
    ASSUME Inv, Inv', NEW c \in Channels,
           FallOfOneChannel(c) \/ FallOfLastChannel(c)
    PROVE  Presence!Fall(owner[c], c)
  <1> DEFINE p == owner[c]
             S == channels[p] \ {c}
  <1>1. /\ Closed(c) /\ c \in channels[p] /\ known' = known
        /\ channels' = [channels EXCEPT ![p] = S]
    BY DEF FallOfOneChannel, FallOfLastChannel
  <1>2. p \in Peers /\ S \in SUBSET Channels
    BY <1>1 DEF Inv, TypeOK, Closed
  <1>3. holdersOf' = [holdersOf EXCEPT ![p] = Presence!Rest(p, c)]
    BY <1>1, <1>2, CloseHolders, RestIs
  <1>4. Presence!Rest(p, c) = {} <=> S = {}
    <2>1. Presence!Rest(p, c) = {<<d, instance[d]>> : d \in S}
      BY <1>2, RestIs
    <2>2. QED
      BY <2>1
  <1>5. statusOf' = [statusOf EXCEPT ![p] =
                        IF Presence!Rest(p, c) = {} THEN "grace" ELSE "here"]
    <2>1. p \in known
      BY <1>1, <1>2 DEF Inv, NobodyLeftBehind
    <2>2. statusOf' = [statusOf EXCEPT ![p] =
                          IF p \notin known' THEN "gone"
                          ELSE IF S # {} THEN "here" ELSE "grace"]
      <3> HIDE DEF S
      <3>1. QED
        BY <1>1, <1>2, CloseStatus
    <2>3. QED
      BY <1>1, <1>4, <2>1, <2>2
  <1>6. QED
    BY <1>1, <1>2, <1>3, <1>5, RestIs, ClosePromise DEF Presence!Fall

LEMMA AttachAndFallPromise ==
    ASSUME Inv, Inv', NEW p \in Peers, AttachAndFall(p)
    PROVE  Presence!Glimpse(p)
  <1>1. holdersOf' = holdersOf
    BY DEF AttachAndFall, holdersOf
  <1>2. statusOf' = [statusOf EXCEPT ![p] = "grace"]
    BY DEF AttachAndFall, statusOf, Inv, TypeOK
  <1>3. statusOf[p] # "here"
    BY DEF AttachAndFall, statusOf
  <1>4. QED
    BY <1>1, <1>2, <1>3 DEF AttachAndFall, Presence!Glimpse

LEMMA FirePromise ==
    ASSUME Inv, Inv', NEW t \in Timers, Fire(t)
    PROVE  countdown[t] \in Peers /\ Presence!Expire(countdown[t])
  <1> DEFINE p == countdown[t]
  <1>1. /\ p \in Peers
        /\ channels[p] = {}
        /\ timers[p] = t
    BY DEF Fire, Inv, TypeOK, NoCountdownWhileReachable, NoOrphanCountdown
  <1>2. p \in known
    BY <1>1, LivenessAssumption DEF Inv, NobodyLeftBehind
  <1>3. holdersOf' = holdersOf
    BY DEF Fire, holdersOf
  <1>4. statusOf' = [statusOf EXCEPT ![p] = "gone"]
    BY <1>1 DEF Fire, statusOf
  <1>5. statusOf[p] = "grace"
    BY <1>1, <1>2 DEF statusOf
  <1>6. QED
    BY <1>1, <1>3, <1>4, <1>5 DEF Fire, Presence!Expire

LEMMA ForgetPromise ==
    ASSUME Inv, Inv', NEW p \in Peers, Forget(p)
    PROVE  Presence!Remove(p)
  <1>1. holdersOf' = [holdersOf EXCEPT ![p] = {}]
    <2>1. /\ instance' = instance
          /\ channels \in [Peers -> SUBSET Channels]
          /\ channels' = [channels EXCEPT ![p] = {}]
      BY DEF Forget, Forgotten, Inv, TypeOK
    <2>2. \A q \in Peers : holdersOf'[q] = IF q = p THEN {} ELSE holdersOf[q]
      BY <2>1 DEF holdersOf
    <2>3. QED
      BY <2>2 DEF holdersOf
  <1>2. statusOf' = [statusOf EXCEPT ![p] = "gone"]
    BY DEF Forget, Forgotten, statusOf, Inv, TypeOK
  <1>3. QED
    BY <1>1, <1>2 DEF Forget, Presence!Remove

LEMMA NextPromise ==
    Inv /\ Inv' /\ [Next]_livenessVars => [Presence!Next]_(Presence!presenceVars)
  <1> SUFFICES ASSUME Inv, Inv', [Next]_livenessVars
               PROVE  Presence!Next \/ UNCHANGED Presence!presenceVars
    OBVIOUS
  <1>0. \A c \in Channels : owner[c] # Nobody => owner[c] \in Peers
    BY DEF Inv, TypeOK
  <1>1. ASSUME NEW p \in Peers, NEW c \in Channels, NEW i \in Pages \cup {NoPage},
               Attach(p, c, i)
        PROVE  Presence!Next
    BY <1>1, AttachPromise DEF Presence!Next
  <1>2. ASSUME NEW c \in Channels, DetachUnknown(c) PROVE Presence!Next
    BY <1>0, <1>2, DetachUnknownPromise DEF Presence!Next, DetachUnknown, Closed
  <1>3. ASSUME NEW c \in Channels, GoodbyeOfOnePage(c) \/ GoodbyeOfPeer(c)
        PROVE  Presence!Next
    <2>1. owner[c] \in Peers /\ instance[c] \in Pages \cup {NoPage}
      BY <1>0, <1>3 DEF Inv, TypeOK, GoodbyeOfOnePage, GoodbyeOfPeer, Closed
    <2>2. QED
      BY <1>3, <2>1, GoodbyeOfOnePagePromise, GoodbyeOfPeerPromise DEF Presence!Next
  <1>4. ASSUME NEW c \in Channels, FallOfOneChannel(c) \/ FallOfLastChannel(c)
        PROVE  Presence!Next
    <2>1. owner[c] \in Peers
      BY <1>0, <1>4 DEF FallOfOneChannel, FallOfLastChannel, Closed
    <2>2. QED
      BY <1>4, <2>1, FallPromise DEF Presence!Next
  <1>5. ASSUME NEW t \in Timers, Fire(t) PROVE Presence!Next
    BY <1>5, FirePromise DEF Presence!Next
  <1>6. ASSUME NEW p \in Peers, Forget(p) \/ AttachAndFall(p) PROVE Presence!Next
    BY <1>6, ForgetPromise, AttachAndFallPromise DEF Presence!Next
  <1>7. CASE UNCHANGED livenessVars
    BY <1>7 DEF livenessVars, Presence!presenceVars, holdersOf, statusOf
  <1>8. QED
    BY <1>1, <1>2, <1>3, <1>4, <1>5, <1>6, <1>7 DEF Next

\* PeerLiveness implements PeerPresence: with timeouts that are armed,
\* cleared, overwritten and fired, the class lets a person vanish, return,
\* leave and expire exactly as the connections alone would have it.
THEOREM Implements == Spec => KeepsPromise
  <1>1. Init /\ [][Next]_livenessVars /\ []Inv => Presence!Spec
    BY InitPromise, NextPromise, PTL DEF Presence!Spec
  <1>2. QED
    BY <1>1, SpecInv, PTL DEF Spec, KeepsPromise

-----------------------------------------------------------------------------
(* The signalling server and the presence socket over it.                  *)

\* A connection the liveness class waits for is a session or a presence socket
\* of its peer, under the label of its page; one that fell under an identify
\* is still inside it.
ConnectionsAreSessions ==
    /\ \A c \in Signals : owner[c] = IF stage[c] \in Identified THEN PeerOf[c] ELSE Nobody
    /\ \A s \in Sockets : owner[s] \in {Nobody, PeerOf[s]}
    /\ \A c \in Channels : owner[c] # Nobody => instance[c] = Instance(c)
    /\ \A c \in gone : stage[c] \in Identifying

\* The session that serves a peer is one of its channels, unless the server
\* is closing it: whoever forgets the channels of a peer closes its session.
SessionIsHeard ==
    \A p \in Peers :
        byPeer[p] # NoSignal /\ closing[byPeer[p]] = "no" => byPeer[p] \in channels[p]

\* The inductive invariant.  TimeoutFindsNoSession follows from SessionIsHeard
\* and NoCountdownWhileReachable; SessionIsHeard needs SocketPeersAreOnRoster
\* (a goodbye of a socket finds somebody to remove) and OneSessionPerPeer (a
\* goodbye of a session is that of the session which serves the peer).
ServerInv ==
    /\ Inv
    /\ ServerTypeOK
    /\ ConnectionsAreSessions
    /\ OneSessionPerPeer
    /\ RoomSessionsAreOpen
    /\ SessionIsHeard
    /\ NoGhostOnRoster
    /\ SocketPeersAreOnRoster

LEMMA ServerInitInv == ServerInit => ServerInv
  <1> SUFFICES ASSUME ServerInit PROVE ServerInv
    OBVIOUS
  <1> USE ServerAssumption, LivenessAssumption DEF ServerInit
  <1>1. Inv
    BY InitInv
  <1>2. ServerTypeOK
    BY <1>1 DEF Inv, ServerTypeOK, Stage, CloseReason
  <1>3. ConnectionsAreSessions
    BY DEF Init, ConnectionsAreSessions, Identified
  <1>4. OneSessionPerPeer /\ RoomSessionsAreOpen
    BY DEF OneSessionPerPeer, RoomSessionsAreOpen, Identified
  <1>5. SessionIsHeard /\ NoGhostOnRoster /\ SocketPeersAreOnRoster
    BY DEF Init, SessionIsHeard, NoGhostOnRoster, SocketPeersAreOnRoster
  <1>6. QED
    BY <1>1, <1>2, <1>3, <1>4, <1>5 DEF ServerInv

-----------------------------------------------------------------------------
(* The server drives the liveness class by its operations and no others.   *)

LEMMA InstanceType == \A c \in Channels : Instance(c) \in Pages \cup {NoPage}
  BY ServerAssumption DEF Instance

LEMMA DetachIsLiveness ==
    ASSUME NEW c \in Channels, NEW goodbye \in BOOLEAN, NEW cl, NEW k,
           Detach(c, goodbye, cl, k)
    PROVE  Next
  BY DEF Detach, Next

LEMMA ServerStepIsLiveness == ServerNext => [Next]_livenessVars
  <1> SUFFICES ASSUME ServerNext PROVE [Next]_livenessVars
    OBVIOUS
  <1> USE ServerAssumption
  <1>1. ASSUME NEW c \in Signals,
               \/ Accept(c) \/ Identify(c) \/ TokenAccepted(c) \/ IdentifyRefused(c)
               \/ IdentifyTimeout(c) \/ RequestTransport(c) \/ CloseOfStranger(c)
        PROVE  UNCHANGED livenessVars
    BY <1>1 DEF Accept, Identify, TokenAccepted, IdentifyRefused, IdentifyTimeout,
       RequestTransport, CloseOfStranger
  <1>2. ASSUME NEW c \in Signals, IdentifyGivenUp(c) PROVE [Next]_livenessVars
    BY <1>2 DEF IdentifyGivenUp, Next
  <1>3. ASSUME NEW c \in Signals, Register(c) PROVE Next
    BY <1>3, InstanceType DEF Register, Next
  <1>4. ASSUME NEW c \in Signals, NEW goodbye \in BOOLEAN, Release(c, goodbye) PROVE Next
    BY <1>4, DetachIsLiveness DEF Release
  <1>5. ASSUME NEW s \in Sockets, PresenceConnect(s) PROVE Next
    BY <1>5, InstanceType DEF PresenceConnect, Next
  <1>6. ASSUME NEW s \in Sockets, NEW goodbye \in BOOLEAN, PresenceDisconnect(s, goodbye)
        PROVE  Next
    BY <1>6, DetachIsLiveness DEF PresenceDisconnect
  <1>7. ASSUME NEW p \in Peers, PeerCreated(p) \/ CreationFailed(p)
        PROVE  UNCHANGED livenessVars
    BY <1>7 DEF PeerCreated, CreationFailed
  <1>8. ASSUME NEW p \in Peers, NEW kicked \in BOOLEAN, HttpLeave(p, kicked)
        PROVE  [Next]_livenessVars
    BY <1>8 DEF HttpLeave, Next
  <1>9. ASSUME NEW t \in Timers, GraceExpired(t) PROVE Next
    BY <1>9 DEF GraceExpired, Next
  <1>10. QED
    BY <1>1, <1>2, <1>3, <1>4, <1>5, <1>6, <1>7, <1>8, <1>9 DEF ServerNext, IdentifyStep

LEMMA AcceptInv ==
    ASSUME ServerInv, Inv', NEW c \in Signals, Accept(c)
    PROVE  ServerInv'
  <1> USE ServerAssumption, LivenessAssumption
          DEF ServerInv, Accept, livenessVars, sessionVars, registryVars, Identified, Identifying,
              CloseWith, StartCreation, Waiting
  <1>1. ServerTypeOK'
    BY DEF ServerTypeOK, Inv, Stage, CloseReason
  <1>2. ConnectionsAreSessions'
    BY DEF ServerTypeOK, ConnectionsAreSessions, Instance
  <1>3. OneSessionPerPeer' /\ RoomSessionsAreOpen'
    BY DEF ServerTypeOK, OneSessionPerPeer, RoomSessionsAreOpen
  <1>4. SessionIsHeard'
    BY DEF ServerTypeOK, SessionIsHeard, RoomSessionsAreOpen
  <1>5. NoGhostOnRoster' /\ SocketPeersAreOnRoster'
    BY DEF ServerTypeOK, NoGhostOnRoster, SocketPeersAreOnRoster
  <1>6. QED
    BY <1>1, <1>2, <1>3, <1>4, <1>5

LEMMA IdentifyInv ==
    ASSUME ServerInv, Inv', NEW c \in Signals, Identify(c)
    PROVE  ServerInv'
  <1> USE ServerAssumption, LivenessAssumption
          DEF ServerInv, Identify, livenessVars, sessionVars, registryVars, Identified, Identifying,
              CloseWith, StartCreation, Waiting
  <1>1. ServerTypeOK'
    BY DEF ServerTypeOK, Inv, Stage, CloseReason
  <1>2. ConnectionsAreSessions'
    BY DEF ServerTypeOK, ConnectionsAreSessions, Instance
  <1>3. OneSessionPerPeer' /\ RoomSessionsAreOpen'
    BY DEF ServerTypeOK, OneSessionPerPeer, RoomSessionsAreOpen
  <1>4. SessionIsHeard'
    BY DEF ServerTypeOK, SessionIsHeard, RoomSessionsAreOpen
  <1>5. NoGhostOnRoster' /\ SocketPeersAreOnRoster'
    BY DEF ServerTypeOK, NoGhostOnRoster, SocketPeersAreOnRoster
  <1>6. QED
    BY <1>1, <1>2, <1>3, <1>4, <1>5

LEMMA IdentifyRefusedInv ==
    ASSUME ServerInv, Inv', NEW c \in Signals, IdentifyRefused(c)
    PROVE  ServerInv'
  <1> USE ServerAssumption, LivenessAssumption
          DEF ServerInv, IdentifyRefused, livenessVars, sessionVars, registryVars, Identified, Identifying,
              CloseWith, StartCreation, Waiting
  <1>1. ServerTypeOK'
    BY DEF ServerTypeOK, Inv, Stage, CloseReason
  <1>2. ConnectionsAreSessions'
    BY DEF ServerTypeOK, ConnectionsAreSessions, Instance
  <1>3. OneSessionPerPeer' /\ RoomSessionsAreOpen'
    BY DEF ServerTypeOK, OneSessionPerPeer, RoomSessionsAreOpen
  <1>4. SessionIsHeard'
    BY DEF ServerTypeOK, SessionIsHeard, RoomSessionsAreOpen
  <1>5. NoGhostOnRoster' /\ SocketPeersAreOnRoster'
    BY DEF ServerTypeOK, NoGhostOnRoster, SocketPeersAreOnRoster
  <1>6. QED
    BY <1>1, <1>2, <1>3, <1>4, <1>5

LEMMA TokenAcceptedInv ==
    ASSUME ServerInv, Inv', NEW c \in Signals, TokenAccepted(c)
    PROVE  ServerInv'
  <1> USE ServerAssumption, LivenessAssumption
          DEF ServerInv, TokenAccepted, livenessVars, sessionVars, registryVars, Identified, Identifying,
              CloseWith, StartCreation, Waiting
  <1>1. ServerTypeOK'
    BY DEF ServerTypeOK, Inv, Stage, CloseReason
  <1>2. ConnectionsAreSessions'
    BY DEF ServerTypeOK, ConnectionsAreSessions, Instance
  <1>3. OneSessionPerPeer' /\ RoomSessionsAreOpen'
    BY DEF ServerTypeOK, OneSessionPerPeer, RoomSessionsAreOpen
  <1>4. SessionIsHeard'
    BY DEF ServerTypeOK, SessionIsHeard, RoomSessionsAreOpen
  <1>5. NoGhostOnRoster' /\ SocketPeersAreOnRoster'
    BY DEF ServerTypeOK, NoGhostOnRoster, SocketPeersAreOnRoster
  <1>6. QED
    BY <1>1, <1>2, <1>3, <1>4, <1>5

LEMMA IdentifyTimeoutInv ==
    ASSUME ServerInv, Inv', NEW c \in Signals, IdentifyTimeout(c)
    PROVE  ServerInv'
  <1> USE ServerAssumption, LivenessAssumption
          DEF ServerInv, IdentifyTimeout, livenessVars, sessionVars, registryVars, Identified, Identifying,
              CloseWith, StartCreation, Waiting
  <1>1. ServerTypeOK'
    BY DEF ServerTypeOK, Inv, Stage, CloseReason
  <1>2. ConnectionsAreSessions'
    BY DEF ServerTypeOK, ConnectionsAreSessions, Instance
  <1>3. OneSessionPerPeer' /\ RoomSessionsAreOpen'
    BY DEF ServerTypeOK, OneSessionPerPeer, RoomSessionsAreOpen
  <1>4. SessionIsHeard'
    BY DEF ServerTypeOK, SessionIsHeard, RoomSessionsAreOpen
  <1>5. NoGhostOnRoster' /\ SocketPeersAreOnRoster'
    BY DEF ServerTypeOK, NoGhostOnRoster, SocketPeersAreOnRoster
  <1>6. QED
    BY <1>1, <1>2, <1>3, <1>4, <1>5

LEMMA RequestTransportInv ==
    ASSUME ServerInv, Inv', NEW c \in Signals, RequestTransport(c)
    PROVE  ServerInv'
  <1> USE ServerAssumption, LivenessAssumption
          DEF ServerInv, RequestTransport, livenessVars, sessionVars, registryVars, Identified, Identifying,
              CloseWith, StartCreation, Waiting
  <1>1. ServerTypeOK'
    BY DEF ServerTypeOK, Inv, Stage, CloseReason
  <1>2. ConnectionsAreSessions'
    BY DEF ServerTypeOK, ConnectionsAreSessions, Instance
  <1>3. OneSessionPerPeer' /\ RoomSessionsAreOpen'
    BY DEF ServerTypeOK, OneSessionPerPeer, RoomSessionsAreOpen
  <1>4. SessionIsHeard'
    BY DEF ServerTypeOK, SessionIsHeard, RoomSessionsAreOpen
  <1>5. NoGhostOnRoster' /\ SocketPeersAreOnRoster'
    BY DEF ServerTypeOK, NoGhostOnRoster, SocketPeersAreOnRoster
  <1>6. QED
    BY <1>1, <1>2, <1>3, <1>4, <1>5

LEMMA CloseOfStrangerInv ==
    ASSUME ServerInv, Inv', NEW c \in Signals, CloseOfStranger(c)
    PROVE  ServerInv'
  <1> USE ServerAssumption, LivenessAssumption
          DEF ServerInv, CloseOfStranger, livenessVars, sessionVars, registryVars, Identified, Identifying,
              CloseWith, StartCreation, Waiting
  <1>1. ServerTypeOK'
    BY DEF ServerTypeOK, Inv, Stage, CloseReason
  <1>2. ConnectionsAreSessions'
    BY DEF ServerTypeOK, ConnectionsAreSessions, Instance
  <1>3. OneSessionPerPeer' /\ RoomSessionsAreOpen'
    BY DEF ServerTypeOK, OneSessionPerPeer, RoomSessionsAreOpen
  <1>4. SessionIsHeard'
    BY DEF ServerTypeOK, SessionIsHeard, RoomSessionsAreOpen
  <1>5. NoGhostOnRoster' /\ SocketPeersAreOnRoster'
    BY DEF ServerTypeOK, NoGhostOnRoster, SocketPeersAreOnRoster
  <1>6. QED
    BY <1>1, <1>2, <1>3, <1>4, <1>5

LEMMA PeerCreatedInv ==
    ASSUME ServerInv, Inv', NEW p \in Peers, PeerCreated(p)
    PROVE  ServerInv'
  <1> USE ServerAssumption, LivenessAssumption
          DEF ServerInv, PeerCreated, livenessVars, sessionVars, registryVars, Identified, Identifying,
              CloseWith, StartCreation, Waiting
  <1>1. ServerTypeOK'
    BY DEF ServerTypeOK, Inv, Stage, CloseReason
  <1>2. ConnectionsAreSessions'
    BY DEF ServerTypeOK, ConnectionsAreSessions, Instance
  <1>3. OneSessionPerPeer' /\ RoomSessionsAreOpen'
    BY DEF ServerTypeOK, OneSessionPerPeer, RoomSessionsAreOpen
  <1>4. SessionIsHeard'
    BY DEF ServerTypeOK, SessionIsHeard, RoomSessionsAreOpen
  <1>5. NoGhostOnRoster'
    <2>1. \A c \in Signals : stage[c] = "signing" \/ (stage[c] = "joining" /\ PeerOf[c] = p)
                              => stage'[c] = "signing"
      BY DEF ServerTypeOK
    <2>2. ASSUME NEW q \in roster'
          PROVE  channels[q] # {} \/ timers[q] # NoTimer \/ \E c \in Signals : PeerOf[c] = q /\ stage'[c] = "signing"
      <3>1. CASE q \in roster
        BY <2>1, <3>1 DEF NoGhostOnRoster
      <3>2. CASE q \notin roster
        BY <2>1, <3>2
      <3>3. QED
        BY <3>1, <3>2
    <2>3. QED
      BY <2>2 DEF NoGhostOnRoster
  <1>6. SocketPeersAreOnRoster'
    BY DEF SocketPeersAreOnRoster
  <1>7. QED
    BY <1>1, <1>2, <1>3, <1>4, <1>5, <1>6

LEMMA CreationFailedInv ==
    ASSUME ServerInv, Inv', NEW p \in Peers, CreationFailed(p)
    PROVE  ServerInv'
  <1> USE ServerAssumption, LivenessAssumption
          DEF ServerInv, CreationFailed, livenessVars, sessionVars, registryVars, Identified, Identifying,
              CloseWith, StartCreation, Waiting
  <1>1. ServerTypeOK'
    BY DEF ServerTypeOK, Inv, Stage, CloseReason
  <1>2. ConnectionsAreSessions'
    BY DEF ServerTypeOK, ConnectionsAreSessions, Instance
  <1>3. OneSessionPerPeer' /\ RoomSessionsAreOpen'
    BY DEF ServerTypeOK, OneSessionPerPeer, RoomSessionsAreOpen
  <1>4. SessionIsHeard'
    BY DEF ServerTypeOK, SessionIsHeard, RoomSessionsAreOpen
  <1>5. NoGhostOnRoster' /\ SocketPeersAreOnRoster'
    <2>1. \A c \in Signals : stage[c] = "signing" => stage'[c] = "signing"
      BY DEF ServerTypeOK
    <2>2. \A q \in Peers : Waiting(q, "signing") # {} => Waiting(q, "signing")' # {}
      BY <2>1
    <2>3. roster' = roster /\ roster \subseteq Peers /\ channels' = channels /\ timers' = timers
      BY DEF ServerTypeOK
    <2>4. NoGhostOnRoster'
      BY <2>2, <2>3 DEF NoGhostOnRoster
    <2>5. SocketPeersAreOnRoster'
      BY <2>3 DEF SocketPeersAreOnRoster
    <2>6. QED
      BY <2>4, <2>5
  <1>6. QED
    BY <1>1, <1>2, <1>3, <1>4, <1>5

LEMMA IdentifyGivenUpInv ==
    ASSUME ServerInv, Inv', NEW c \in Signals, IdentifyGivenUp(c)
    PROVE  ServerInv'
  <1> USE ServerAssumption, LivenessAssumption
          DEF ServerInv, IdentifyGivenUp, AttachAndFall, livenessVars, sessionVars, registryVars,
              Identified, Identifying
  <1>0. PeerOf[c] \in Peers /\ channels' = channels /\ owner' = owner /\ instance' = instance
    OBVIOUS
  <1>1. ServerTypeOK'
    BY DEF ServerTypeOK, Inv, Stage
  <1>2. ConnectionsAreSessions'
    BY <1>0 DEF ServerTypeOK, ConnectionsAreSessions, Instance
  <1>3. OneSessionPerPeer' /\ RoomSessionsAreOpen'
    BY DEF ServerTypeOK, OneSessionPerPeer, RoomSessionsAreOpen
  <1>4. SessionIsHeard' /\ SocketPeersAreOnRoster'
    BY <1>0 DEF SessionIsHeard, SocketPeersAreOnRoster
  <1>5. NoGhostOnRoster'
    <2>1. channels[PeerOf[c]] # {} \/ timers'[PeerOf[c]] # NoTimer
      BY <1>0 DEF Inv, TypeOK
    <2>2. \A q \in Peers \ {PeerOf[c]} : timers'[q] = timers[q]
      BY <1>0 DEF Inv, TypeOK
    <2>3. \A q \in Peers \ {PeerOf[c]} : Waiting(q, "signing") # {} => Waiting(q, "signing")' # {}
      BY DEF Waiting, ServerTypeOK
    <2>4. QED
      BY <1>0, <2>1, <2>2, <2>3 DEF NoGhostOnRoster, ServerTypeOK
  <1>6. QED
    BY <1>1, <1>2, <1>3, <1>4, <1>5

LEMMA RegisterInv ==
    ASSUME ServerInv, Inv', NEW c \in Signals, Register(c)
    PROVE  ServerInv'
  <1> USE ServerAssumption, LivenessAssumption
          DEF ServerInv, Register, Attach, Cancel, registryVars, Identified, Identifying
  <1> DEFINE p == PeerOf[c]
  <1>0. /\ p \in Peers /\ c \in Channels /\ byPeer' = [byPeer EXCEPT ![p] = c]
        /\ c \in channels'[p] /\ \A q \in Peers : channels[q] \subseteq channels'[q]
        /\ \A q \in Peers \ {p} : channels'[q] = channels[q] /\ timers'[q] = timers[q]
    BY DEF Inv, TypeOK
  <1>1. ServerTypeOK'
    BY DEF ServerTypeOK, Inv, Stage, CloseReason, CloseWith
  <1>2. ConnectionsAreSessions'
    BY DEF ServerTypeOK, TypeOK, ConnectionsAreSessions, Instance
  <1>3. OneSessionPerPeer'
    BY DEF ServerTypeOK, OneSessionPerPeer, CloseWith
  <1>4. RoomSessionsAreOpen'
    BY DEF ServerTypeOK, RoomSessionsAreOpen
  <1>5. SessionIsHeard'
    <2>1. ASSUME NEW q \in Peers \ {p}, byPeer[q] # NoSignal
          PROVE  closing'[byPeer[q]] = closing[byPeer[q]]
      <3>1. byPeer[q] \in Signals /\ PeerOf[byPeer[q]] = q
        BY <2>1 DEF RoomSessionsAreOpen
      <3>2. byPeer[p] = NoSignal \/ PeerOf[byPeer[p]] = p
        BY <1>0 DEF RoomSessionsAreOpen
      <3>3. byPeer[q] # byPeer[p]
        BY <2>1, <3>1, <3>2
      <3>4. QED
        BY <3>1, <3>3 DEF ServerTypeOK, CloseWith
    <2>2. QED
      BY <1>0, <2>1 DEF SessionIsHeard, ServerTypeOK
  <1>6. NoGhostOnRoster'
    <2>1. ASSUME NEW q \in roster, q # p
          PROVE  channels'[q] # {} \/ timers'[q] # NoTimer \/ Waiting(q, "signing")' # {}
      <3>1. q \in Peers /\ channels'[q] = channels[q] /\ timers'[q] = timers[q]
        BY <1>0, <2>1 DEF ServerTypeOK
      <3>2. Waiting(q, "signing") \subseteq Waiting(q, "signing")'
        BY <2>1 DEF Waiting, ServerTypeOK
      <3>3. QED
        BY <3>1, <3>2 DEF NoGhostOnRoster
    <2>2. roster' = roster /\ channels'[p] # {}
      BY <1>0
    <2>3. QED
      BY <2>1, <2>2 DEF NoGhostOnRoster
  <1>7. SocketPeersAreOnRoster'
    BY <1>0 DEF SocketPeersAreOnRoster, TypeOK, ServerTypeOK
  <1>8. QED
    BY <1>1, <1>2, <1>3, <1>4, <1>5, <1>6, <1>7

LEMMA PresenceConnectInv ==
    ASSUME ServerInv, Inv', NEW s \in Sockets, PresenceConnect(s)
    PROVE  ServerInv'
  <1> USE ServerAssumption, LivenessAssumption
          DEF ServerInv, PresenceConnect, Attach, Cancel, connectionVars, sessionVars,
              Identified, Identifying
  <1> DEFINE p == PeerOf[s]
  <1>0. /\ p \in Peers /\ s \in Channels
        /\ s \in channels'[p] /\ \A q \in Peers : channels[q] \subseteq channels'[q]
        /\ \A q \in Peers \ {p} : channels'[q] = channels[q] /\ timers'[q] = timers[q]
    BY DEF Inv, TypeOK
  <1>1. ServerTypeOK'
    BY DEF ServerTypeOK, Inv
  <1>2. ConnectionsAreSessions'
    BY DEF ServerTypeOK, TypeOK, ConnectionsAreSessions, Instance
  <1>3. OneSessionPerPeer' /\ RoomSessionsAreOpen'
    BY DEF OneSessionPerPeer, RoomSessionsAreOpen
  <1>4. SessionIsHeard'
    BY <1>0 DEF SessionIsHeard, ServerTypeOK
  <1>5. NoGhostOnRoster'
    <2>1. ASSUME NEW q \in roster, q # p
          PROVE  channels'[q] # {} \/ timers'[q] # NoTimer \/ Waiting(q, "signing")' # {}
      <3>1. q \in Peers /\ channels'[q] = channels[q] /\ timers'[q] = timers[q]
        BY <1>0, <2>1 DEF ServerTypeOK
      <3>2. Waiting(q, "signing") = Waiting(q, "signing")'
        BY DEF Waiting
      <3>3. QED
        BY <3>1, <3>2 DEF NoGhostOnRoster
    <2>2. roster' = roster \cup {p} /\ channels'[p] # {}
      BY <1>0
    <2>3. QED
      BY <2>1, <2>2 DEF NoGhostOnRoster
  <1>6. SocketPeersAreOnRoster'
    BY <1>0 DEF SocketPeersAreOnRoster, ServerTypeOK
  <1>7. QED
    BY <1>1, <1>2, <1>3, <1>4, <1>5, <1>6

\* What a removal without a close of its own does: POST /leave, and expiry.
LEMMA RemovedInv ==
    ASSUME ServerInv, Inv', NEW p \in Peers, NEW why \in CloseReason \cup {"timeout"},
           UNCHANGED <<stage, gone, sessionVars, owner, instance>>,
           RemovePeer(p, why, closing, dropping),
           channels' = [channels EXCEPT ![p] = {}],
           \A q \in Peers \ {p} : timers'[q] = timers[q],
           why = "timeout" => channels[p] = {},
           why # "timeout" => Changes(p) /\ why # "no"
    PROVE  ServerInv'
  <1> USE ServerAssumption, LivenessAssumption DEF ServerInv, RemovePeer, sessionVars, Identified
  <1>0. /\ channels'[p] = {} /\ \A q \in Peers \ {p} : channels'[q] = channels[q]
        /\ closing' \in [Signals -> CloseReason]
        /\ \A c \in Signals : closing'[c] = "no" => closing[c] = "no"
        /\ why # "timeout" => byPeer[p] = NoSignal \/ closing'[byPeer[p]] # "no"
    BY DEF Inv, TypeOK, ServerTypeOK, CloseWith, CloseReason
  <1>1. ServerTypeOK'
    <2>1. dropping' \subseteq Sockets
      BY DEF ServerTypeOK
    <2>2. QED
      BY <1>0, <2>1 DEF ServerTypeOK, Inv
  <1>2. ConnectionsAreSessions'
    BY DEF ConnectionsAreSessions
  <1>3. OneSessionPerPeer' /\ RoomSessionsAreOpen'
    BY <1>0 DEF OneSessionPerPeer, RoomSessionsAreOpen
  <1>4. SessionIsHeard'
    BY <1>0 DEF SessionIsHeard, ServerTypeOK
  <1>5. NoGhostOnRoster'
    <2>1. \A q \in Peers : Waiting(q, "signing")' = Waiting(q, "signing")
      BY DEF Waiting
    <2>2. QED
      BY <1>0, <2>1 DEF NoGhostOnRoster, ServerTypeOK
  <1>6. SocketPeersAreOnRoster'
    BY <1>0 DEF SocketPeersAreOnRoster
  <1>7. QED
    BY <1>1, <1>2, <1>3, <1>4, <1>5, <1>6

LEMMA HttpLeaveInv ==
    ASSUME ServerInv, Inv', NEW p \in Peers, NEW kicked \in BOOLEAN, HttpLeave(p, kicked)
    PROVE  ServerInv'
  <1> DEFINE why == IF kicked THEN "removed" ELSE "left"
  <1>1. CASE Changes(p)
    <2>1. /\ UNCHANGED <<stage, gone, sessionVars, owner, instance>>
          /\ RemovePeer(p, why, closing, dropping)
          /\ channels' = [channels EXCEPT ![p] = {}]
          /\ timers' = [timers EXCEPT ![p] = NoTimer]
      BY <1>1 DEF HttpLeave, Forget, Forgotten, Cancel
    <2>2. \A q \in Peers \ {p} : timers'[q] = timers[q]
      BY <2>1 DEF ServerInv, Inv, TypeOK
    <2>3. why \in CloseReason \cup {"timeout"} /\ why # "timeout" /\ why # "no"
      BY DEF CloseReason
    <2>4. QED
      BY <1>1, <2>1, <2>2, <2>3, RemovedInv
  <1>2. CASE ~Changes(p)
    <2>1. UNCHANGED vars
      BY <1>2 DEF HttpLeave, RemovePeer, Changes, vars, livenessVars, connectionVars, registryVars,
         sessionVars
    <2>2. QED
      BY <2>1 DEF vars, livenessVars, connectionVars, registryVars, sessionVars, ServerInv,
         ServerTypeOK, TypeOK, ConnectionsAreSessions, OneSessionPerPeer, RoomSessionsAreOpen,
         SessionIsHeard, NoGhostOnRoster, SocketPeersAreOnRoster, Waiting, Instance
  <1>3. QED
    BY <1>1, <1>2

LEMMA GraceExpiredInv ==
    ASSUME ServerInv, Inv', NEW t \in Timers, GraceExpired(t)
    PROVE  ServerInv'
  <1> DEFINE p == countdown[t]
  <1>1. p \in Peers /\ channels[p] = {}
    BY DEF GraceExpired, Fire, ServerInv, Inv, TypeOK, NoCountdownWhileReachable
  <1>2. /\ UNCHANGED <<stage, gone, sessionVars, owner, instance, channels>>
        /\ RemovePeer(p, "timeout", closing, dropping)
        /\ timers' = [timers EXCEPT ![p] = NoTimer]
    BY <1>1 DEF GraceExpired, Fire
  <1>3. /\ channels' = [channels EXCEPT ![p] = {}]
        /\ \A q \in Peers \ {p} : timers'[q] = timers[q]
    BY <1>1, <1>2 DEF ServerInv, Inv, TypeOK
  <1>4. QED
    BY <1>1, <1>2, <1>3, RemovedInv

\* What the end of a connection c comes to: a goodbye that speaks for the peer
\* removes it; anything else takes one channel, and what happens to the peer
\* waits for its other channels, or for the countdown.
RemovesPeer(c, goodbye, cl, k) ==
    /\ goodbye /\ c \in channels[PeerOf[c]] /\ ~FromAnotherPage(c)
    /\ channels'[PeerOf[c]] = {}
    /\ RemovePeer(PeerOf[c], "left", cl, k)

LosesChannel(c, cl, k) ==
    /\ channels'[PeerOf[c]] = channels[PeerOf[c]] \ {c}
    /\ \/ channels'[PeerOf[c]] # {}
       \/ timers'[PeerOf[c]] # NoTimer
       \/ channels[PeerOf[c]] = {} /\ timers' = timers
    /\ UNCHANGED registryVars /\ closing' = cl /\ dropping' = k

\* The end of a connection: what detach makes of the channels of its peer, and
\* whom it removes.
LEMMA DetachEffect ==
    ASSUME ServerInv, NEW c \in Channels, NEW goodbye \in BOOLEAN, NEW cl, NEW k,
           Detach(c, goodbye, cl, k)
    PROVE  /\ PeerOf[c] \in Peers /\ owner[c] = PeerOf[c]
           /\ owner' = [owner EXCEPT ![c] = Nobody]
           /\ instance' = [instance EXCEPT ![c] = NoPage]
           /\ \A q \in Peers \ {PeerOf[c]} : channels'[q] = channels[q] /\ timers'[q] = timers[q]
           /\ RemovesPeer(c, goodbye, cl, k) \/ LosesChannel(c, cl, k)
  <1> USE ServerAssumption, LivenessAssumption
          DEF ServerInv, Inv, TypeOK, RemovesPeer, LosesChannel
  <1> DEFINE p == PeerOf[c]
  <1>1. Closed(c)
    BY DEF Detach, GoodbyeOfPeer, DetachUnknown, GoodbyeOfOnePage, FallOfOneChannel, FallOfLastChannel
  <1>2. p \in Peers /\ owner[c] = p
    BY <1>1 DEF Closed, ConnectionsAreSessions
  <1>3. CASE goodbye /\ GoodbyeOfPeer(c) /\ RemovePeer(p, "left", cl, k)
    BY <1>1, <1>2, <1>3 DEF GoodbyeOfPeer, Forgotten, Cancel, Closed
  <1>4. CASE DetachUnknown(c) /\ closing' = cl /\ dropping' = k /\ UNCHANGED registryVars
    BY <1>1, <1>2, <1>4 DEF DetachUnknown, Closed
  <1>5. CASE GoodbyeOfOnePage(c) /\ closing' = cl /\ dropping' = k /\ UNCHANGED registryVars
    <2>1. channels'[p] # {}
      BY <1>2, <1>5 DEF GoodbyeOfOnePage, FromAnotherPage
    <2>2. QED
      BY <1>1, <1>2, <1>5, <2>1 DEF GoodbyeOfOnePage, Closed
  <1>6. CASE FallOfOneChannel(c) /\ closing' = cl /\ dropping' = k /\ UNCHANGED registryVars
    BY <1>1, <1>2, <1>6 DEF FallOfOneChannel, Closed
  <1>7. CASE FallOfLastChannel(c) /\ closing' = cl /\ dropping' = k /\ UNCHANGED registryVars
    BY <1>1, <1>2, <1>7 DEF FallOfLastChannel, Closed
  <1>8. QED
    BY <1>3, <1>4, <1>5, <1>6, <1>7 DEF Detach

\* The end of a session or of a presence socket; cl is `closing` without the
\* reason that was kept for a session that is over.
LEMMA DetachInv ==
    ASSUME ServerInv, Inv', NEW c \in Channels, NEW goodbye \in BOOLEAN,
           NEW cl \in [Signals -> CloseReason], NEW k \in SUBSET Sockets,
           Detach(c, goodbye, cl, k), gone' = gone,
           stage' = [d \in Signals |-> IF d = c THEN "free" ELSE stage[d]],
           byPeer' = [q \in Peers |-> IF byPeer[q] = c THEN NoSignal ELSE byPeer[q]],
           inRoom' = inRoom \ {c},
           \A d \in Signals \ {c} : cl[d] = closing[d],
           c \in Signals => stage[c] \in Identified,
           c \in Signals /\ goodbye => closing[c] = "no"
    PROVE  ServerInv'
  <1> DEFINE p == PeerOf[c]
  <1> DEFINE Goodbye == RemovesPeer(c, goodbye, cl, k)
  <1> DEFINE Other == LosesChannel(c, cl, k)
  <1>0. /\ p \in Peers
        /\ owner' = [owner EXCEPT ![c] = Nobody]
        /\ instance' = [instance EXCEPT ![c] = NoPage]
        /\ \A q \in Peers \ {p} : channels'[q] = channels[q] /\ timers'[q] = timers[q]
        /\ Goodbye \/ Other
    BY DetachEffect
  <1> HIDE DEF Goodbye, Other
  <1> USE ServerAssumption DEF ServerInv, Identified
  <1>1. /\ closing' \in [Signals -> CloseReason]
        /\ \A d \in Signals \ {c} : closing'[d] = "no" => closing[d] = "no"
        /\ dropping' = k
        /\ peers' \subseteq peers /\ roster' \subseteq roster /\ creating' = creating
        /\ \A q \in Peers \ {p} : q \in roster => q \in roster'
    <2>1. cl \in [Signals -> CloseReason] /\ peers \subseteq Peers /\ roster \subseteq Peers
      BY DEF ServerTypeOK
    <2>2. \A d \in Signals \ {c} : cl[d] = closing[d]
      OBVIOUS
    <2>3. CASE Goodbye
      <3>1. /\ closing' = cl \/ closing' = CloseWith(cl, byPeer'[p], "left")
            /\ dropping' = k /\ peers' = peers \ {p} /\ roster' = roster \ {p}
            /\ creating' = creating
        BY <2>3 DEF Goodbye, RemovesPeer, RemovePeer
      <3>2. /\ closing' \in [Signals -> CloseReason]
            /\ \A d \in Signals : closing'[d] = cl[d] \/ closing'[d] = "left"
        BY <2>1, <3>1 DEF CloseWith, CloseReason
      <3>3. \A d \in Signals \ {c} : closing'[d] = "no" => closing[d] = "no"
        BY <2>2, <3>2
      <3>4. QED
        BY <3>1, <3>2, <3>3
    <2>4. CASE Other
      BY <2>1, <2>2, <2>4 DEF Other, LosesChannel, registryVars
    <2>5. QED
      BY <1>0, <2>3, <2>4
  <1>2. ServerTypeOK'
    BY <1>1 DEF ServerTypeOK, Stage, Inv
  <1>3. ConnectionsAreSessions'
    <2>1. c \in Signals => c \notin gone
      BY DEF ConnectionsAreSessions, Identifying
    <2>2. owner \in [Channels -> Peers \cup {Nobody}] /\ instance \in [Channels -> Pages \cup {NoPage}]
      BY DEF ServerTypeOK, TypeOK
    <2>3. \A d \in Channels : Instance(d)' = Instance(d)
      BY DEF Instance
    <2>4. QED
      BY <1>0, <2>1, <2>2, <2>3, LivenessAssumption DEF ConnectionsAreSessions, ServerTypeOK
  <1>4. OneSessionPerPeer'
    BY <1>1 DEF OneSessionPerPeer, ServerTypeOK
  <1>5. RoomSessionsAreOpen'
    BY DEF RoomSessionsAreOpen, ServerTypeOK
  <1>6. SessionIsHeard'
    <2>1. ASSUME NEW q \in Peers, q # p, byPeer'[q] # NoSignal, closing'[byPeer'[q]] = "no"
          PROVE  byPeer'[q] \in channels'[q]
      BY <1>0, <1>1, <2>1 DEF SessionIsHeard, ServerTypeOK
    <2>2. CASE Goodbye
      <3>1. byPeer'[p] = NoSignal \/ Changes(p)
        <4>1. CASE c \in Signals
          BY <2>2, <4>1, <1>0 DEF Goodbye, RemovesPeer, OneSessionPerPeer
        <4>2. CASE c \in Sockets
          BY <2>2, <4>2 DEF Goodbye, RemovesPeer, SocketPeersAreOnRoster, Changes
        <4>3. QED
          BY <4>1, <4>2
      <3>2. byPeer'[p] = NoSignal \/ closing'[byPeer'[p]] # "no"
        BY <1>0, <2>2, <3>1 DEF Goodbye, RemovesPeer, RemovePeer, CloseWith, ServerTypeOK
      <3>3. QED
        BY <2>1, <3>2 DEF SessionIsHeard
    <2>3. CASE Other
      <3>1. byPeer'[p] # NoSignal /\ closing'[byPeer'[p]] = "no" => byPeer'[p] \in channels'[p]
        BY <1>0, <1>1, <2>3 DEF Other, LosesChannel, SessionIsHeard, ServerTypeOK
      <3>2. QED
        BY <2>1, <3>1 DEF SessionIsHeard
    <2>4. QED
      BY <1>0, <2>2, <2>3
  <1>7. NoGhostOnRoster'
    <2>1. \A q \in Peers : Waiting(q, "signing")' = Waiting(q, "signing")
      BY DEF Waiting, ServerTypeOK
    <2>2. CASE Goodbye
      <3>1. p \notin roster'
        BY <2>2 DEF Goodbye, RemovesPeer, RemovePeer
      <3>2. QED
        BY <1>0, <1>1, <2>1, <3>1 DEF NoGhostOnRoster, ServerTypeOK
    <2>3. CASE Other
      <3>1. p \in roster => channels'[p] # {} \/ timers'[p] # NoTimer \/ Waiting(p, "signing") # {}
        BY <2>3 DEF Other, LosesChannel, NoGhostOnRoster
      <3>2. QED
        BY <1>0, <1>1, <2>1, <3>1 DEF NoGhostOnRoster, ServerTypeOK
    <2>4. QED
      BY <1>0, <2>2, <2>3
  <1>8. SocketPeersAreOnRoster'
    <2>1. ASSUME NEW s \in Sockets, s \in channels'[PeerOf[s]] PROVE PeerOf[s] \in roster'
      <3>1. PeerOf[s] \in Peers
        OBVIOUS
      <3>2. CASE PeerOf[s] # p
        BY <1>0, <1>1, <2>1, <3>1, <3>2 DEF SocketPeersAreOnRoster
      <3>3. CASE PeerOf[s] = p
        BY <1>0, <2>1, <3>3 DEF Goodbye, Other, RemovesPeer, LosesChannel, registryVars, SocketPeersAreOnRoster
      <3>4. QED
        BY <3>2, <3>3
    <2>2. QED
      BY <2>1 DEF SocketPeersAreOnRoster
  <1>9. QED
    BY <1>2, <1>3, <1>4, <1>5, <1>6, <1>7, <1>8

LEMMA ReleaseInv ==
    ASSUME ServerInv, Inv', NEW c \in Signals, NEW code \in BOOLEAN, Release(c, code)
    PROVE  ServerInv'
  <1> USE ServerAssumption DEF ServerInv, Release
  <1> DEFINE goodbye == code /\ closing[c] = "no"
             cl == [closing EXCEPT ![c] = "no"]
  <1>1. /\ c \in Channels /\ goodbye \in BOOLEAN /\ cl \in [Signals -> CloseReason]
        /\ dropping \in SUBSET Sockets /\ \A d \in Signals \ {c} : cl[d] = closing[d]
    BY DEF ServerTypeOK, CloseReason
  <1>2. stage' = [d \in Signals |-> IF d = c THEN "free" ELSE stage[d]]
    BY DEF ServerTypeOK
  <1>3. byPeer' = [q \in Peers |-> IF byPeer[q] = c THEN NoSignal ELSE byPeer[q]]
    <2>1. \A q \in Peers : byPeer[q] = c => q = PeerOf[c]
      BY DEF ServerTypeOK, RoomSessionsAreOpen
    <2>2. byPeer \in [Peers -> Signals \cup {NoSignal}]
      BY DEF ServerTypeOK
    <2>3. byPeer' = IF byPeer[PeerOf[c]] = c THEN [byPeer EXCEPT ![PeerOf[c]] = NoSignal] ELSE byPeer
      OBVIOUS
    <2> HIDE DEF Release, ServerInv
    <2>4. QED
      BY <2>1, <2>2, <2>3
  <1>4. Detach(c, goodbye, cl, dropping) /\ gone' = gone /\ inRoom' = inRoom \ {c}
    OBVIOUS
  <1>5. goodbye => closing[c] = "no"
    OBVIOUS
  <1> HIDE DEF goodbye, cl, ServerInv
  <1>6. stage[c] \in Identified
    OBVIOUS
  <1> HIDE DEF Release
  <1>7. QED
    BY <1>1, <1>2, <1>3, <1>4, <1>5, <1>6, DetachInv

LEMMA PresenceDisconnectInv ==
    ASSUME ServerInv, Inv', NEW s \in Sockets, NEW byClient \in BOOLEAN,
           PresenceDisconnect(s, byClient)
    PROVE  ServerInv'
  <1> USE ServerAssumption DEF ServerInv, PresenceDisconnect, sessionVars
  <1> DEFINE goodbye == byClient /\ s \notin dropping
             k == dropping \ {s}
  <1>1. /\ s \in Channels /\ s \notin Signals /\ goodbye \in BOOLEAN
        /\ closing \in [Signals -> CloseReason] /\ k \in SUBSET Sockets
    BY DEF ServerTypeOK
  <1>2. /\ stage' = [d \in Signals |-> IF d = s THEN "free" ELSE stage[d]]
        /\ byPeer' = [q \in Peers |-> IF byPeer[q] = s THEN NoSignal ELSE byPeer[q]]
        /\ inRoom' = inRoom \ {s}
    BY <1>1 DEF ServerTypeOK, RoomSessionsAreOpen
  <1>3. Detach(s, goodbye, closing, k) /\ gone' = gone
    OBVIOUS
  <1> HIDE DEF goodbye, k, ServerInv, PresenceDisconnect
  <1>4. QED
    BY <1>1, <1>2, <1>3, DetachInv

LEMMA ServerNextInv == ServerInv /\ [ServerNext]_vars => ServerInv'
  <1> SUFFICES ASSUME ServerInv, [ServerNext]_vars PROVE ServerInv'
    OBVIOUS
  <1>1. CASE UNCHANGED vars
    BY <1>1 DEF vars, livenessVars, connectionVars, registryVars, sessionVars, ServerInv, Inv,
       ServerTypeOK, TypeOK, ConnectionsAreSessions, OneSessionPerPeer, RoomSessionsAreOpen,
       SessionIsHeard, NoGhostOnRoster, SocketPeersAreOnRoster, Waiting, Instance,
       ChannelsAreOpenConnections, NoOrphanCountdown, NoCountdownWhileReachable, NobodyLeftBehind
  <1>2. CASE ServerNext
    <2>1. Inv'
      BY <1>2, ServerStepIsLiveness, NextInv DEF ServerInv
    <2>2. ASSUME NEW c \in Signals,
                 \/ Accept(c) \/ Identify(c) \/ IdentifyStep(c) \/ IdentifyTimeout(c)
                 \/ RequestTransport(c) \/ CloseOfStranger(c)
                 \/ \E goodbye \in BOOLEAN : Release(c, goodbye)
          PROVE  ServerInv'
      BY <2>1, <2>2, AcceptInv, IdentifyInv, TokenAcceptedInv, IdentifyRefusedInv,
         IdentifyGivenUpInv, RegisterInv, IdentifyTimeoutInv, RequestTransportInv,
         CloseOfStrangerInv, ReleaseInv DEF IdentifyStep
    <2>3. ASSUME NEW s \in Sockets,
                 PresenceConnect(s) \/ \E goodbye \in BOOLEAN : PresenceDisconnect(s, goodbye)
          PROVE  ServerInv'
      BY <2>1, <2>3, PresenceConnectInv, PresenceDisconnectInv
    <2>4. ASSUME NEW p \in Peers,
                 \/ PeerCreated(p) \/ CreationFailed(p)
                 \/ \E kicked \in BOOLEAN : HttpLeave(p, kicked)
          PROVE  ServerInv'
      BY <2>1, <2>4, PeerCreatedInv, CreationFailedInv, HttpLeaveInv
    <2>5. ASSUME NEW t \in Timers, GraceExpired(t) PROVE ServerInv'
      BY <2>1, <2>5, GraceExpiredInv
    <2>6. QED
      BY <1>2, <2>2, <2>3, <2>4, <2>5 DEF ServerNext
  <1>3. QED
    BY <1>1, <1>2

-----------------------------------------------------------------------------

\* Sessions, roster, connections and countdowns stay coherent, whatever opens,
\* closes, waits, fires or is removed, in any order.
THEOREM ServerSpecInv == ServerSpec => []ServerInv
  BY ServerInitInv, ServerNextInv, PTL DEF ServerSpec

\* server.ts:173 and 387: the newest session of a person is the one that is
\* found and sent to, the others are on their way out, and no grace period runs
\* under an open session.
THEOREM SessionsStaySound == ServerSpec => []SessionsAreSound
  <1>1. ServerInv => TimeoutFindsNoSession
    <2> SUFFICES ASSUME ServerInv, NEW t \in Timers, countdown[t] # Nobody,
                        byPeer[countdown[t]] # NoSignal
                 PROVE  closing[byPeer[countdown[t]]] # "no"
      BY DEF TimeoutFindsNoSession
    <2>1. countdown[t] \in Peers /\ channels[countdown[t]] = {}
      BY DEF ServerInv, Inv, TypeOK, NoCountdownWhileReachable
    <2>2. QED
      BY <2>1 DEF ServerInv, SessionIsHeard
  <1>2. ServerInv => SessionsAreSound
    BY <1>1 DEF ServerInv, SessionsAreSound
  <1>3. QED
    BY <1>2, ServerSpecInv, PTL

\* presence.ts:103-108: nobody is on the roster without a connection, a
\* countdown or an identify on its way, and nobody with a socket is missing.
THEOREM RosterStaysSound == ServerSpec => []RosterIsSound
  <1>1. ServerInv => RosterIsSound
    BY DEF ServerInv, RosterIsSound
  <1>2. QED
    BY <1>1, ServerSpecInv, PTL

\* What PeerLivenessProofs shows of the class holds of the node that uses it.
THEOREM NodeCountsSoundly == ServerSpec => [](CountdownsAgree /\ NobodyLeftBehind)
  <1>1. ServerInv => CountdownsAgree /\ NobodyLeftBehind
    BY DEF ServerInv, Inv, CountdownsAgree
  <1>2. QED
    BY <1>1, ServerSpecInv, PTL

\* Signalling connections, presence sockets, kicks, leaves and identifies given
\* up: together they let a person come, vanish, return and leave as PeerPresence
\* says.
THEOREM NodeKeepsPromise == ServerSpec => KeepsPromise
  <1>1. ServerInit => Presence!Init
    BY InitPromise DEF ServerInit
  <1>2. ServerInv /\ ServerInv' /\ [ServerNext]_vars => [Presence!Next]_(Presence!presenceVars)
    <2> SUFFICES ASSUME ServerInv, ServerInv', [ServerNext]_vars
                 PROVE  [Presence!Next]_(Presence!presenceVars)
      OBVIOUS
    <2>1. [Next]_livenessVars
      BY ServerStepIsLiveness DEF vars
    <2>2. QED
      BY <2>1, NextPromise DEF ServerInv
  <1>3. QED
    BY <1>1, <1>2, ServerSpecInv, PTL DEF ServerSpec, KeepsPromise, Presence!Spec

\* liveness.ts:22-26: the end of a connection takes the channel of another one
\* along only if both are of one page.
THEOREM GoodbyesSpareOtherPages == ServerSpec => GoodbyeSparesOtherPages
  <1> DEFINE Spares == \A c, d \in Channels :
                          /\ owner[c] # Nobody /\ owner'[c] = Nobody
                          /\ d \in channels[owner[c]]
                          /\ d \notin channels'[owner[c]]
                          => PageOf[d] = PageOf[c]
  <1>1. ServerInv /\ [ServerNext]_vars => [Spares]_vars
    <2> SUFFICES ASSUME ServerInv, ServerNext, NEW c \in Channels, NEW d \in Channels,
                        owner[c] # Nobody, owner'[c] = Nobody,
                        d \in channels[owner[c]], d \notin channels'[owner[c]], c # d
                 PROVE  PageOf[d] = PageOf[c]
      OBVIOUS
    <2> USE ServerAssumption, LivenessAssumption
    <2>1. /\ owner[c] \in Peers /\ owner[d] = owner[c]
          /\ instance[c] = Instance(c) /\ instance[d] = Instance(d)
      BY DEF ServerInv, Inv, TypeOK, ChannelsAreOpenConnections, ConnectionsAreSessions
    <2>2. [Next]_livenessVars
      BY ServerStepIsLiveness
    <2>3. c \in channels[owner[c]] /\ ~FromAnotherPage(c)
      <3>1. CASE UNCHANGED livenessVars
        BY <3>1 DEF livenessVars
      <3>2. ASSUME NEW p \in Peers, NEW e \in Channels, NEW i \in Pages \cup {NoPage},
                   Attach(p, e, i)
            PROVE  FALSE
        BY <3>2 DEF Attach, ServerInv, Inv, TypeOK
      <3>3. ASSUME NEW t \in Timers, Fire(t) PROVE FALSE
        BY <3>3 DEF Fire
      <3>4. ASSUME NEW p \in Peers, Forget(p) \/ AttachAndFall(p) PROVE FALSE
        BY <3>4 DEF Forget, AttachAndFall
      <3>5. ASSUME NEW e \in Channels,
                   \/ DetachUnknown(e) \/ GoodbyeOfOnePage(e) \/ GoodbyeOfPeer(e)
                   \/ FallOfOneChannel(e) \/ FallOfLastChannel(e)
            PROVE  c \in channels[owner[c]] /\ ~FromAnotherPage(c)
        <4>1. e = c
          BY <3>5 DEF DetachUnknown, GoodbyeOfOnePage, GoodbyeOfPeer, FallOfOneChannel,
             FallOfLastChannel, Closed, ServerInv, Inv, TypeOK
        <4>2. ~DetachUnknown(c) /\ ~GoodbyeOfOnePage(c) /\ ~FallOfOneChannel(c) /\ ~FallOfLastChannel(c)
          BY <2>1 DEF DetachUnknown, GoodbyeOfOnePage, FallOfOneChannel, FallOfLastChannel,
             ServerInv, Inv, TypeOK
        <4>3. QED
          BY <3>5, <4>1, <4>2 DEF GoodbyeOfPeer
      <3>6. QED
        BY <2>2, <3>1, <3>2, <3>3, <3>4, <3>5 DEF Next
    <2>4. instance[c] # NoPage /\ instance[d] = instance[c]
      BY <2>3 DEF FromAnotherPage
    <2>5. QED
      BY <2>1, <2>4 DEF Instance
  <1>2. QED
    BY <1>1, ServerSpecInv, PTL DEF ServerSpec, GoodbyeSparesOtherPages
=============================================================================
