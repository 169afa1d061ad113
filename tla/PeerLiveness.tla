---------------------------- MODULE PeerLiveness ----------------------------
(***************************************************************************)
(* apps/mediasoup-sfu/src/liveness.ts: who is still on the other side, and *)
(* how long to wait for somebody who vanished.                             *)
(*                                                                         *)
(* A peer has up to two control channels per page (the presence socket and *)
(* the media signalling socket).  The class maps each peer to its open     *)
(* channels, each labelled with the page ("instance") that opened it, and  *)
(* to the handle of the grace timeout that runs while no channel is open.  *)
(*                                                                         *)
(* A JavaScript timeout that is not cleared fires whether or not the map   *)
(* still remembers its handle, so the timeouts the runtime holds           *)
(* (countdown) are kept apart from the handles the class holds (timers).   *)
(***************************************************************************)
CONSTANTS
    Peers,      \* keys (room, peerId)
    Channels,   \* connection identifiers; one is reused only once it closed
    Pages,      \* page instances
    NoPage,     \* the `null` instance of an old client
    Timers,     \* timeout handles of the runtime
    NoTimer,
    Nobody

ASSUME LivenessAssumption ==
    /\ NoPage \notin Pages
    /\ NoTimer \notin Timers
    /\ Nobody \notin Peers

VARIABLES
    channels,   \* peer -> its open channels, as the class knows them
    instance,   \* channel -> the page that opened it
    timers,     \* peer -> the timeout handle the class remembers
    countdown,  \* timeout handle -> the peer it will expire, or Nobody
    owner,      \* channel -> the peer of a connection still to be detached
    known       \* history: peers attached and neither expired nor forgotten

livenessVars == <<channels, instance, timers, countdown, owner, known>>

-----------------------------------------------------------------------------

Init ==
    /\ channels = [p \in Peers |-> {}]
    /\ instance = [c \in Channels |-> NoPage]
    /\ timers = [p \in Peers |-> NoTimer]
    /\ countdown = [t \in Timers |-> Nobody]
    /\ owner = [c \in Channels |-> Nobody]
    /\ known = {}

\* clearTimeout of the remembered handle.
Cancel(p) ==
    /\ timers' = [timers EXCEPT ![p] = NoTimer]
    /\ countdown' = [t \in Timers |->
                        IF t = timers[p] THEN Nobody ELSE countdown[t]]

\* Mutant of Attach: the running countdown is left alone.
AttachWithoutCancel(p, c, i) ==
    /\ owner[c] = Nobody
    /\ owner' = [owner EXCEPT ![c] = p]
    /\ channels' = [channels EXCEPT ![p] = @ \cup {c}]
    /\ instance' = [instance EXCEPT ![c] = i]
    /\ known' = known \cup {p}
    /\ UNCHANGED <<timers, countdown>>

\* A connection c of page i becomes a channel of p.
Attach(p, c, i) ==
    /\ owner[c] = Nobody
    /\ owner' = [owner EXCEPT ![c] = p]
    /\ Cancel(p)
    /\ channels' = [channels EXCEPT ![p] = @ \cup {c}]
    /\ instance' = [instance EXCEPT ![c] = i]
    /\ known' = known \cup {p}

\* The connection c, a channel of owner[c], has closed.  It closes once.
Closed(c) ==
    /\ owner[c] # Nobody
    /\ owner' = [owner EXCEPT ![c] = Nobody]
    /\ instance' = [instance EXCEPT ![c] = NoPage]

\* Nothing left to decide about p: its channels and its countdown go.
Forgotten(p) ==
    /\ Cancel(p)
    /\ channels' = [channels EXCEPT ![p] = {}]
    /\ known' = known \ {p}

\* A channel of a peer that was already removed: nothing to decide.
DetachUnknown(c) ==
    /\ Closed(c)
    /\ c \notin channels[owner[c]]
    /\ UNCHANGED <<channels, timers, countdown, known>>

\* Mutant of FromAnotherPage: the goodbye of an unknown page counts for all.
FromAnotherKnownPage(c) ==
    \E other \in channels[owner[c]] \ {c} :
        instance[c] # NoPage /\ instance[other] # instance[c]

\* Some other open channel of c's peer belongs to another page.  Without an
\* instance there is no telling, so every other channel counts as foreign.
FromAnotherPage(c) ==
    \E other \in channels[owner[c]] \ {c} :
        instance[c] = NoPage \/ instance[other] # instance[c]

\* A goodbye while another page holds the peer: only the channel goes.
GoodbyeOfOnePage(c) ==
    /\ Closed(c)
    /\ c \in channels[owner[c]]
    /\ FromAnotherPage(c)
    /\ channels' = [channels EXCEPT ![owner[c]] = @ \ {c}]
    /\ UNCHANGED <<timers, countdown, known>>

\* A goodbye that nobody else contradicts: the peer is expired as `left`.
GoodbyeOfPeer(c) ==
    /\ Closed(c)
    /\ c \in channels[owner[c]]
    /\ ~FromAnotherPage(c)
    /\ Forgotten(owner[c])

\* A fall while another channel is up.
FallOfOneChannel(c) ==
    /\ Closed(c)
    /\ c \in channels[owner[c]]
    /\ channels[owner[c]] # {c}
    /\ channels' = [channels EXCEPT ![owner[c]] = @ \ {c}]
    /\ UNCHANGED <<timers, countdown, known>>

\* Mutant of FallOfLastChannel: no countdown starts.
FallWithoutCountdown(c) ==
    /\ Closed(c)
    /\ channels[owner[c]] = {c}
    /\ channels' = [channels EXCEPT ![owner[c]] = {}]
    /\ UNCHANGED <<timers, countdown, known>>

\* A fall of the last channel: the grace countdown starts.  The new handle
\* overwrites whatever the map remembered.
FallOfLastChannel(c) ==
    /\ Closed(c)
    /\ channels[owner[c]] = {c}
    /\ channels' = [channels EXCEPT ![owner[c]] = {}]
    /\ \E t \in Timers :
          /\ countdown[t] = Nobody
          /\ countdown' = [countdown EXCEPT ![t] = owner[c]]
          /\ timers' = [timers EXCEPT ![owner[c]] = t]
    /\ UNCHANGED known

\* attach at once followed by detach without a goodbye: the way out of an
\* identify whose connection closed meanwhile (signal/server.ts:150-157).
AttachAndFall(p) ==
    /\ channels[p] = {}
    /\ \E t \in Timers :
          /\ countdown[t] = Nobody
          /\ countdown' = [u \in Timers |-> IF u = t THEN p
                                          ELSE IF u = timers[p] THEN Nobody
                                          ELSE countdown[u]]
          /\ timers' = [timers EXCEPT ![p] = t]
    /\ known' = known \cup {p}
    /\ UNCHANGED <<channels, instance, owner>>

\* The timeout t fires.  Its peer is expired as `timeout` if no channel is up.
Fire(t) ==
    /\ countdown[t] # Nobody
    /\ countdown' = [countdown EXCEPT ![t] = Nobody]
    /\ timers' = [timers EXCEPT ![countdown[t]] = NoTimer]
    /\ known' = IF channels[countdown[t]] = {}
                THEN known \ {countdown[t]}
                ELSE known
    /\ UNCHANGED <<channels, instance, owner>>

\* The peer left the registry by another path (a kick, POST /leave).
Forget(p) ==
    /\ Forgotten(p)
    /\ UNCHANGED <<instance, owner>>

Next ==
    \/ \E p \in Peers, c \in Channels, i \in Pages \cup {NoPage} : Attach(p, c, i)
    \/ \E c \in Channels :
          \/ DetachUnknown(c)
          \/ GoodbyeOfOnePage(c)
          \/ GoodbyeOfPeer(c)
          \/ FallOfOneChannel(c)
          \/ FallOfLastChannel(c)
    \/ \E t \in Timers : Fire(t)
    \/ \E p \in Peers : Forget(p) \/ AttachAndFall(p)

Spec ==
    /\ Init
    /\ [][Next]_livenessVars
    /\ \A t \in Timers : WF_livenessVars(Fire(t))

-----------------------------------------------------------------------------

\* Types: the maps of the class and the handles of the runtime.
TypeOK ==
    /\ channels \in [Peers -> SUBSET Channels]
    /\ instance \in [Channels -> Pages \cup {NoPage}]
    /\ timers \in [Peers -> Timers \cup {NoTimer}]
    /\ countdown \in [Timers -> Peers \cup {Nobody}]
    /\ owner \in [Channels -> Peers \cup {Nobody}]
    /\ known \subseteq Peers

\* A channel is in the map of the peer whose connection it is, and of no
\* other: a close can only ever be charged to the peer that opened it.
ChannelsAreOpenConnections ==
    \A p \in Peers : \A c \in channels[p] : owner[c] = p

\* No timeout is ever orphaned: the class remembers every one that runs, so
\* a return of the peer can cancel it (the doc of `attach`: "Cancela qualquer
\* contagem em andamento").
NoOrphanCountdown ==
    \A t \in Timers, p \in Peers : (countdown[t] = p) <=> (timers[p] = t)

\* signal/server.ts:387, "a contagem só corre sem canal aberto": nobody who
\* is reachable is being counted out.
NoCountdownWhileReachable ==
    \A t \in Timers : countdown[t] # Nobody => channels[countdown[t]] = {}

\* Channels, timeouts and their handles agree, so that a peer is counted out
\* if and only if nobody can hear it, and a return can always cancel it.
CountdownsAgree ==
    /\ ChannelsAreOpenConnections
    /\ NoOrphanCountdown
    /\ NoCountdownWhileReachable

\* Nobody is left behind: a peer that attached and was neither expired nor
\* forgotten has an open channel or a countdown, and only such a peer does.
NobodyLeftBehind ==
    \A p \in Peers :
        p \in known <=> (channels[p] # {} \/ timers[p] # NoTimer)

\* A peer that vanished does not linger: it comes back or it is expired,
\* unless its connections keep opening and falling for ever.
GraceEnds ==
    \A p \in Peers :
        <>[][~AttachAndFall(p)]_livenessVars =>
            ((p \in known /\ channels[p] = {}) ~> (p \notin known \/ channels[p] # {}))

-----------------------------------------------------------------------------

\* What PeerPresence sees of this state.
holdersOf == [p \in Peers |-> {<<c, instance[c]>> : c \in channels[p]}]

statusOf ==
    [p \in Peers |-> IF p \notin known THEN "gone"
                     ELSE IF channels[p] # {} THEN "here" ELSE "grace"]

Presence == INSTANCE PeerPresence
                WITH open <- owner, holders <- holdersOf, status <- statusOf

\* The class, with its timeouts and its handles, keeps the promise.
KeepsPromise == Presence!Spec
=============================================================================
