---------------------------- MODULE SignalServer ----------------------------
(***************************************************************************)
(* How one SFU node decides who is in a room: the media signalling server  *)
(* (apps/mediasoup-sfu/src/signal/server.ts), the presence socket          *)
(* (presence.ts), the membership half of RoomRegistry (rooms.ts) and, by   *)
(* EXTENDS, PeerLiveness (liveness.ts), wired together as node.ts does.    *)
(*                                                                         *)
(* One room.  JavaScript runs each handler to its next `await`, so a step  *)
(* of this module is what happens between two of them.  `identify` has     *)
(* three: the verification of the token, the creation of the peer (only if *)
(* there is none), and the signature of the resume token.  Everything else *)
(* may happen in those gaps, the close of the very connection included.    *)
(***************************************************************************)
EXTENDS PeerLiveness

CONSTANTS
    Signals,    \* media signalling connections
    Sockets,    \* presence sockets
    PeerOf,     \* connection -> the peer its token names
    PageOf,     \* connection -> the page that opens it
    OldClients, \* pages whose client does not tell its instance
    NoSignal

ASSUME ServerAssumption ==
    /\ Channels = Signals \cup Sockets
    /\ Signals \cap Sockets = {}
    /\ NoSignal \notin Signals
    /\ PeerOf \in [Channels -> Peers]
    /\ PageOf \in [Channels -> Pages]
    /\ OldClients \subseteq Pages

VARIABLES
    stage,      \* signalling connection -> where its handler is
    closing,    \* signalling connection -> why the server closes it, or "no"
    gone,       \* connections that closed under a running identify
    dropping,   \* presence sockets the server has disconnected
    peers,      \* Room.peers
    creating,   \* Room.peerCreations
    roster,     \* RoomRegistry.presence
    byPeer,     \* sessionsByPeer
    inRoom      \* sessionsByRoom

connectionVars == <<stage, closing, gone, dropping>>
registryVars == <<peers, creating, roster>>
sessionVars == <<byPeer, inRoom>>
vars == <<livenessVars, connectionVars, registryVars, sessionVars>>

\* free: no connection.  open: accepted, nobody yet.  verifying, joining,
\* signing: inside identify, at one of its awaits.  ready: identified.
\* requesting: identified, a createTransport waits for the peer's creation.
Identifying == {"verifying", "joining", "signing"}
Identified == {"ready", "requesting"}
Stage == {"free", "open"} \cup Identifying \cup Identified

\* Why the server closes a connection; "refused" stands for the codes of an
\* identify that failed or came too late.
CloseReason == {"no", "replaced", "removed", "left", "refused"}

\* The label a page puts on its channels.
Instance(c) == IF PageOf[c] \in OldClients THEN NoPage ELSE PageOf[c]

ServerInit ==
    /\ Init
    /\ stage = [c \in Signals |-> "free"]
    /\ closing = [c \in Signals |-> "no"]
    /\ gone = {}
    /\ dropping = {}
    /\ peers = {}
    /\ creating = {}
    /\ roster = {}
    /\ byPeer = [p \in Peers |-> NoSignal]
    /\ inRoom = {}

-----------------------------------------------------------------------------
(* The registry.                                                           *)

\* SignalSession.close, in the closing map cl: the first reason stands.
CloseWith(cl, c, why) ==
    IF c \in Signals /\ cl[c] = "no" THEN [cl EXCEPT ![c] = why] ELSE cl

\* removePeer finds something to remove.
Changes(p) == p \in peers \/ p \in roster

\* removePeer and the listeners of `peer:removed`, but for liveness.forget;
\* cl and k are the closing map and the dropping set it starts from.  The
\* session of the peer is closed after a kick or a leave, and a kick drops
\* the presence sockets of the peer too.
RemovePeer(p, why, cl, k) ==
    /\ peers' = peers \ {p}
    /\ roster' = roster \ {p}
    /\ closing' = IF Changes(p) /\ why # "timeout"
                  THEN CloseWith(cl, byPeer'[p], why) ELSE cl
    /\ dropping' = IF Changes(p) /\ why = "removed"
                   THEN k \cup {s \in Sockets : owner[s] = p} ELSE k
    /\ UNCHANGED creating

\* POST /leave: `kicked` comes from the moderation only.
HttpLeave(p, kicked) ==
    /\ UNCHANGED <<stage, gone, sessionVars>>
    /\ IF Changes(p) THEN Forget(p) ELSE UNCHANGED livenessVars
    /\ RemovePeer(p, IF kicked THEN "removed" ELSE "left", closing, dropping)

\* The grace period of a peer ran out (node.ts:56).
GraceExpired(t) ==
    /\ Fire(t)
    /\ UNCHANGED <<stage, gone, sessionVars>>
    /\ IF channels[countdown[t]] = {}
       THEN RemovePeer(countdown[t], "timeout", closing, dropping)
       ELSE UNCHANGED <<registryVars, closing, dropping>>

\* ensurePeer finds no peer and starts, or joins, its creation.
StartCreation(p) ==
    /\ p \notin peers
    /\ creating' = creating \cup {p}
    /\ UNCHANGED <<peers, roster>>

Waiting(p, s) == {c \in Signals : PeerOf[c] = p /\ stage[c] = s}

\* The creation of p ended well: p exists, and all who waited for it go on.
\* An identify goes on to setPresence and to the signature.
PeerCreated(p) ==
    /\ p \in creating
    /\ creating' = creating \ {p}
    /\ peers' = peers \cup {p}
    /\ roster' = IF Waiting(p, "joining") # {} THEN roster \cup {p} ELSE roster
    /\ stage' = [c \in Signals |->
                    IF c \in Waiting(p, "joining") THEN "signing"
                    ELSE IF c \in Waiting(p, "requesting") THEN "ready" ELSE stage[c]]
    /\ UNCHANGED <<livenessVars, closing, gone, dropping, sessionVars>>

\* The Worker refused, or the Router kept closing: all who waited get an error.
CreationFailed(p) ==
    /\ p \in creating
    /\ creating' = creating \ {p}
    /\ stage' = [c \in Signals |->
                    IF c \in Waiting(p, "joining") THEN IF c \in gone THEN "free" ELSE "open"
                    ELSE IF c \in Waiting(p, "requesting") THEN "ready" ELSE stage[c]]
    /\ closing' = [c \in Signals |->
                    IF c \in Waiting(p, "joining") \ gone /\ closing[c] = "no"
                    THEN "refused" ELSE closing[c]]
    /\ gone' = gone \ Waiting(p, "joining")
    /\ UNCHANGED <<livenessVars, dropping, peers, roster, sessionVars>>

-----------------------------------------------------------------------------
(* The signalling connection.                                              *)

\* accept.
Accept(c) ==
    /\ stage[c] = "free"
    /\ stage' = [stage EXCEPT ![c] = "open"]
    /\ UNCHANGED <<livenessVars, closing, gone, dropping, registryVars, sessionVars>>

\* identify is called; the verification of its token is awaited.
Identify(c) ==
    /\ stage[c] = "open"
    /\ closing[c] = "no"
    /\ stage' = [stage EXCEPT ![c] = "verifying"]
    /\ UNCHANGED <<livenessVars, closing, gone, dropping, registryVars, sessionVars>>

\* The token does not serve, nor does any request before identify.
IdentifyRefused(c) ==
    /\ \/ stage[c] = "verifying"
       \/ stage[c] = "open" /\ closing[c] = "no"
    /\ stage' = [stage EXCEPT ![c] = IF c \in gone THEN "free" ELSE "open"]
    /\ closing' = IF c \in gone THEN closing ELSE CloseWith(closing, c, "refused")
    /\ gone' = gone \ {c}
    /\ UNCHANGED <<livenessVars, dropping, registryVars, sessionVars>>

\* The token is good: joinPeer.  A peer that exists is joined in this very
\* step, up to the await of the signature.
TokenAccepted(c) ==
    /\ stage[c] = "verifying"
    /\ IF PeerOf[c] \in peers
       THEN /\ stage' = [stage EXCEPT ![c] = "signing"]
            /\ roster' = roster \cup {PeerOf[c]}
            /\ UNCHANGED <<peers, creating>>
       ELSE /\ stage' = [stage EXCEPT ![c] = "joining"]
            /\ StartCreation(PeerOf[c])
    /\ UNCHANGED <<livenessVars, closing, gone, dropping, sessionVars>>

\* Mutant of IdentifyGivenUp: it only throws, and no countdown starts.
IdentifyDropped(c) ==
    /\ stage[c] = "signing"
    /\ c \in gone
    /\ stage' = [stage EXCEPT ![c] = "free"]
    /\ gone' = gone \ {c}
    /\ UNCHANGED <<livenessVars, closing, dropping, registryVars, sessionVars>>

\* The resume token is signed but the connection has closed: the channel is
\* opened and closed, for the grace countdown to start.
IdentifyGivenUp(c) ==
    /\ stage[c] = "signing"
    /\ c \in gone
    /\ stage' = [stage EXCEPT ![c] = "free"]
    /\ gone' = gone \ {c}
    /\ IF channels[PeerOf[c]] = {}
       THEN AttachAndFall(PeerOf[c])
       ELSE UNCHANGED livenessVars
    /\ UNCHANGED <<closing, dropping, registryVars, sessionVars>>

\* The resume token is signed: the session is registered, its channel opens,
\* and the previous session of the peer is closed for good.
Register(c) ==
    LET p == PeerOf[c] IN
    /\ stage[c] = "signing"
    /\ c \notin gone
    /\ stage' = [stage EXCEPT ![c] = "ready"]
    /\ byPeer' = [byPeer EXCEPT ![p] = c]
    /\ inRoom' = inRoom \cup {c}
    /\ Attach(p, c, Instance(c))
    /\ closing' = CloseWith(closing, byPeer[p], "replaced")
    /\ UNCHANGED <<gone, dropping, registryVars>>

\* The identify timeout of a connection that is still nobody.
IdentifyTimeout(c) ==
    /\ stage[c] \in {"open"} \cup Identifying
    /\ c \notin gone
    /\ closing[c] = "no"
    /\ closing' = [closing EXCEPT ![c] = "refused"]
    /\ UNCHANGED <<livenessVars, stage, gone, dropping, registryVars, sessionVars>>

\* createTransport of a session whose peer is not in the registry: the peer
\* is created again.  (With the peer there it changes nothing seen here.)
RequestTransport(c) ==
    /\ stage[c] = "ready"
    /\ closing[c] = "no"
    /\ StartCreation(PeerOf[c])
    /\ stage' = [stage EXCEPT ![c] = "requesting"]
    /\ UNCHANGED <<livenessVars, closing, gone, dropping, sessionVars>>

\* detach of channel c, and removePeer when the goodbye is the peer's.
Detach(c, goodbye, cl, k) ==
    \/ /\ goodbye
       /\ GoodbyeOfPeer(c)
       /\ RemovePeer(PeerOf[c], "left", cl, k)
    \/ /\ \/ DetachUnknown(c)
          \/ goodbye /\ GoodbyeOfOnePage(c)
          \/ ~goodbye /\ FallOfOneChannel(c)
          \/ ~goodbye /\ FallOfLastChannel(c)
       /\ closing' = cl
       /\ dropping' = k
       /\ UNCHANGED registryVars

\* The WebSocket of nobody closes.  A running identify will find out.
CloseOfStranger(c) ==
    /\ stage[c] \in {"open"} \cup Identifying
    /\ c \notin gone
    /\ IF stage[c] = "open"
       THEN stage' = [stage EXCEPT ![c] = "free"] /\ UNCHANGED gone
       ELSE gone' = gone \cup {c} /\ UNCHANGED stage
    /\ closing' = [closing EXCEPT ![c] = "no"]
    /\ UNCHANGED <<livenessVars, dropping, registryVars, sessionVars>>

\* Mutant of Release: the late close of a replaced session takes the mapping
\* of its successor along.
ReleaseSuccessor(c, goodbyeCode) ==
    /\ stage[c] \in Identified
    /\ stage' = [stage EXCEPT ![c] = "free"]
    /\ byPeer' = [byPeer EXCEPT ![PeerOf[c]] = NoSignal]
    /\ inRoom' = inRoom \ {c}
    /\ Detach(c, goodbyeCode /\ closing[c] = "no", [closing EXCEPT ![c] = "no"], dropping)
    /\ UNCHANGED gone

\* release: the WebSocket of a session closes, with a goodbye code of the
\* client (1000, 1001) or without.  The code of a close that the server asked
\* for is no goodbye.
Release(c, goodbyeCode) ==
    LET p == PeerOf[c] IN
    /\ stage[c] \in Identified
    /\ stage' = [stage EXCEPT ![c] = "free"]
    /\ byPeer' = IF byPeer[p] = c THEN [byPeer EXCEPT ![p] = NoSignal] ELSE byPeer
    /\ inRoom' = inRoom \ {c}
    /\ Detach(c, goodbyeCode /\ closing[c] = "no", [closing EXCEPT ![c] = "no"], dropping)
    /\ UNCHANGED gone

-----------------------------------------------------------------------------
(* The presence socket.                                                    *)

\* handlePeerConnection.
PresenceConnect(s) ==
    /\ Attach(PeerOf[s], s, Instance(s))
    /\ roster' = roster \cup {PeerOf[s]}
    /\ UNCHANGED <<connectionVars, peers, creating, sessionVars>>

\* The disconnect handler: `client namespace disconnect` is the goodbye.
PresenceDisconnect(s, byClient) ==
    /\ UNCHANGED <<stage, gone, sessionVars>>
    /\ Detach(s, byClient /\ s \notin dropping, closing, dropping \ {s})

-----------------------------------------------------------------------------

IdentifyStep(c) ==
    \/ TokenAccepted(c)
    \/ IdentifyRefused(c)
    \/ IdentifyGivenUp(c)
    \/ Register(c)

ServerNext ==
    \/ \E c \in Signals :
          \/ Accept(c)
          \/ Identify(c)
          \/ IdentifyStep(c)
          \/ IdentifyTimeout(c)
          \/ RequestTransport(c)
          \/ CloseOfStranger(c)
          \/ \E goodbye \in BOOLEAN : Release(c, goodbye)
    \/ \E s \in Sockets :
          \/ PresenceConnect(s)
          \/ \E goodbye \in BOOLEAN : PresenceDisconnect(s, goodbye)
    \/ \E p \in Peers :
          \/ PeerCreated(p)
          \/ CreationFailed(p)
          \/ \E kicked \in BOOLEAN : HttpLeave(p, kicked)
    \/ \E t \in Timers : GraceExpired(t)

ServerSpec == ServerInit /\ [][ServerNext]_vars

\* What the runtime owes: timeouts fire, a running identify goes on when the
\* Worker or the crypto answers, and a connection that the server is closing
\* closes (session.ts:94, the kill timer).  Clients owe nothing.
ServerFairness ==
    /\ \A t \in Timers : WF_vars(GraceExpired(t))
    /\ \A p \in Peers : WF_vars(PeerCreated(p) \/ CreationFailed(p))
    /\ \A c \in Signals :
          /\ WF_vars(IdentifyStep(c) /\ stage[c] # "open")
          /\ WF_vars(closing[c] # "no" /\ (CloseOfStranger(c) \/ Release(c, FALSE)))

LiveServerSpec == ServerSpec /\ ServerFairness

-----------------------------------------------------------------------------

\* Types of the state of the server.
ServerTypeOK ==
    /\ TypeOK
    /\ stage \in [Signals -> Stage]
    /\ closing \in [Signals -> CloseReason]
    /\ gone \subseteq Signals
    /\ dropping \subseteq Sockets
    /\ peers \subseteq Peers
    /\ creating \subseteq Peers
    /\ roster \subseteq Peers
    /\ byPeer \in [Peers -> Signals \cup {NoSignal}]
    /\ inRoom \subseteq Signals

\* The newest wins (server.ts:173): of the sessions of one peer at most one is
\* not on its way out, and it is the one sessionsByPeer finds, so that
\* whatever is meant for the peer reaches it.
OneSessionPerPeer ==
    \A c \in Signals :
        stage[c] \in Identified /\ closing[c] = "no" => byPeer[PeerOf[c]] = c

\* Every session the server would send an event to is open, and every open
\* session is sent the events of its room.
RoomSessionsAreOpen ==
    /\ inRoom = {c \in Signals : stage[c] \in Identified}
    /\ \A p \in Peers : byPeer[p] # NoSignal =>
          byPeer[p] \in inRoom /\ PeerOf[byPeer[p]] = p

\* presence.ts:103-108, no ghosts in the participants column: whoever is on
\* the roster has an open channel, a countdown, or an identify on its way.
NoGhostOnRoster ==
    \A p \in roster :
        \/ channels[p] # {}
        \/ timers[p] # NoTimer
        \/ Waiting(p, "signing") # {}

\* A person whose presence socket is open is on the roster.
SocketPeersAreOnRoster ==
    \A s \in Sockets : s \in channels[PeerOf[s]] => PeerOf[s] \in roster

\* server.ts:387, "`timeout` nunca encontra sessao aqui": when a grace period
\* runs out, the peer has no session but one that the server is closing.
TimeoutFindsNoSession ==
    \A t \in Timers :
        LET p == countdown[t] IN
        p # Nobody /\ byPeer[p] # NoSignal => closing[byPeer[p]] # "no"

\* The sessions and the connections agree: the newest serves its peer, what is
\* sent to is open, and no grace period runs under an open session.
SessionsAreSound ==
    ServerTypeOK /\ OneSessionPerPeer /\ RoomSessionsAreOpen /\ TimeoutFindsNoSession

\* The roster and the connections agree: nobody is on it for nothing, and
\* nobody with an open socket is missing.
RosterIsSound == NoGhostOnRoster /\ SocketPeersAreOnRoster

\* liveness.ts:22-26: whoever says goodbye takes down nobody but themselves.
\* When a close removes a peer, no other page has a channel of that peer.
GoodbyeSparesOtherPages ==
    [][\A c, d \in Channels :
          /\ owner[c] # Nobody /\ owner'[c] = Nobody
          /\ d \in channels[owner[c]]
          /\ d \notin channels'[owner[c]]
          => PageOf[d] = PageOf[c]]_vars

\* Nobody is on the other side: the connections of p are closed.
Deserted(p) ==
    /\ \A c \in Signals : PeerOf[c] = p => stage[c] = "free" \/ c \in gone
    /\ \A s \in Sockets : owner[s] # p

\* Whoever went away for good leaves the roster, whatever was going on when
\* the connections fell.
DesertersLeaveRoster ==
    \A p \in Peers : <>[]Deserted(p) => <>[](p \notin roster)

\* server.ts:151-153, the peer must not be left behind "sem ninguem do outro
\* lado": a peer in the registry has a channel, a countdown, or a request of
\* an open connection on its way.
NobodyStranded ==
    \A p \in peers :
        \/ channels[p] # {}
        \/ timers[p] # NoTimer
        \/ \E c \in Signals : PeerOf[c] = p /\ stage[c] \in Identifying

\* dispatcher.ts:73, "Conexao a caminho de fechar nao atende mais nada": a
\* connection that the server is closing becomes no session any more.
ClosingConnectionServesNothing ==
    [][\A c \in Signals :
          closing[c] # "no" /\ stage[c] \notin Identified
          => stage'[c] \notin Identified]_vars
=============================================================================
