-------------------------- MODULE MediaPublishing --------------------------
(***************************************************************************)
(* apps/web/src/hooks/mediasoup/mediasoupConnection.ts, the half of it     *)
(* that sends: the session over a channel that falls and comes back, what  *)
(* the page publishes in it, and what of that the server still has.        *)
(*                                                                         *)
(* One kind of track; the others take the same path beside it.  The        *)
(* channel is SignalStream as its owner sees it: `ready` or on its way     *)
(* back, requests that wait while it is down, requests under way that fail *)
(* when it falls.  External, from how the class uses them: mediasoup-      *)
(* client, which takes the productions of a transport one at a time, fails *)
(* them all when the transport closes and refuses a track that ended; and  *)
(* the server, which keeps the session of a channel that falls for a while *)
(* and has one transport to send on and one track of the kind.             *)
(*                                                                         *)
(* Each piece of code between two awaits is a function from one record to  *)
(* another: m is the connection, with the tracks of the page in m.live.    *)
(***************************************************************************)
EXTENDS Naturals, Sequences

CONSTANTS
    Captures,       \* MediaStreamTracks; one is used again once forgotten
    Publications,   \* Publication objects
    Transports, Producers,
    MaxTimers,      \* bound: rebuild timeouts told apart
    None

ASSUME PublishingAssumption ==
    /\ MaxTimers \in Nat \ {0}
    /\ None \notin Captures \cup Publications \cup Transports \cup Producers

VARIABLES
    conn,   \* the fields of MediasoupConnection, see NewConnection
    srv     \* what the server has of this peer

NewPublication(c) ==
    [track |-> c, producer |-> None, handle |-> None, loop |-> "none", tries |-> 0]

NewConnection ==
    [alive   |-> TRUE,
     channel |-> "opening",     \* signal.currentState
     sid     |-> FALSE,         \* sessionId is the one the server has
     send    |-> None,          \* sendTransport
     build   |-> "none",        \* what startSession waits for
     first   |-> TRUE,          \* it is the startSession of connect()
     timers  |-> 0,             \* timeouts that will call forceRebuild
     mic     |-> None,          \* publications
     pubs    |-> [p \in Publications |-> NewPublication(None)],
     line    |-> <<>>,          \* transport.produce calls, the first under way
     sent    |-> [x \in Producers |-> None],    \* open Producer -> its track
     closes  |-> [x \in Producers |-> "no"],    \* closeProducer requests
     promise |-> [p \in Publications |-> "none"],   \* of publish()
     live    |-> {}]            \* tracks that were not stopped

NewServer == [transport |-> None, onAir |-> None]

-----------------------------------------------------------------------------
(* Publishing.                                                             *)

\* closeServerProducer: the request waits for the channel, and whatever goes
\* wrong with it is swallowed.
CloseServerProducer(m, x) ==
    [m EXCEPT !.closes[x] = CASE m.channel = "ready" -> "asked"
                              [] m.channel = "closed" -> "no"
                              [] OTHER -> "waiting"]

\* retirePublication of a publication that left the map.
Retire(m, p, stopTrack) ==
    LET x == m.pubs[p].producer
        n == [m EXCEPT !.pubs[p].producer = None,
                       !.live = IF stopTrack THEN @ \ {m.pubs[p].track} ELSE @]
    IN  IF x = None THEN n ELSE CloseServerProducer([n EXCEPT !.sent[x] = None], x)

Unpublish(m) == Retire([m EXCEPT !.mic = None], m.mic, TRUE)

\* produceFor threw: publish() takes the publication back and rejects, the
\* loop of republish rests before it looks again.
ProduceFailed(m, p, loop) ==
    IF loop THEN [m EXCEPT !.pubs[p].loop = "resting"]
            ELSE [m EXCEPT !.mic = IF @ = p THEN None ELSE @,
                           !.promise[p] = IF @ = "pending" THEN "failed" ELSE @]

\* produceFor, up to its await: the track is the publication's at this moment.
ProduceFor(m, p, loop) ==
    IF m.send = None \/ m.pubs[p].track \notin m.live
    THEN ProduceFailed(m, p, loop)
    ELSE [m EXCEPT !.line = Append(@, [pub |-> p, track |-> m.pubs[p].track,
                                       stage |-> "queued", producer |-> None,
                                       loop |-> loop])]

Publish(m, p, c) ==
    LET n == IF m.mic = None THEN m ELSE Retire(m, m.mic, m.pubs[m.mic].track # c)
    IN  ProduceFor([n EXCEPT !.mic = p, !.pubs[p] = NewPublication(c),
                             !.promise[p] = "pending"], p, FALSE)

\* Mutant of ProduceAnswered: whoever asked may have given up, and nobody looks.
ProduceKept(m) ==
    LET e == Head(m.line)
        x == e.producer
    IN  [m EXCEPT !.line = Tail(@),
                  !.pubs[e.pub].producer = x,
                  !.pubs[e.pub].handle = x,
                  !.pubs[e.pub].loop = "none",
                  !.sent[x] = e.track,
                  !.promise[e.pub] = IF @ = "pending" THEN "ok" ELSE @]

\* produceFor, after its await.  The transport is still the current one: the
\* line of another was emptied when it closed.
ProduceAnswered(m) ==
    LET e == Head(m.line)
        x == e.producer
        n == [m EXCEPT !.line = Tail(@)]
    IN  IF m.mic # e.pub
        THEN ProduceFailed(CloseServerProducer(n, x), e.pub, e.loop)
        ELSE [n EXCEPT !.pubs[e.pub] = [@ EXCEPT !.producer = x, !.handle = x,
                                                 !.loop = "none"],
                       !.sent[x] = e.track,
                       !.promise[e.pub] = IF @ = "pending" THEN "ok" ELSE @]

\* republish gave up: the track stops and the page is told.
Undo(m, p) ==
    [m EXCEPT !.mic = None, !.pubs[p].loop = "none", !.live = @ \ {m.pubs[p].track}]

\* republish, up to its first await.
Republish(m, p) ==
    IF m.pubs[p].track \in m.live
    THEN ProduceFor([m EXCEPT !.pubs[p].loop = "trying", !.pubs[p].tries = 1], p, TRUE)
    ELSE Undo(m, p)

\* republish, after the half second between two attempts.
Rested(m, p) ==
    IF m.mic # p THEN [m EXCEPT !.pubs[p].loop = "none"]
    ELSE IF m.pubs[p].tries < 2
    THEN ProduceFor([m EXCEPT !.pubs[p].loop = "trying", !.pubs[p].tries = @ + 1], p, TRUE)
    ELSE Undo(m, p)

-----------------------------------------------------------------------------
(* The session.                                                            *)

\* Mutant of ReleaseMedia: the transport is forgotten and not closed.
MediaForgotten(m, stopTracks) ==
    LET p == m.mic
    IN  [m EXCEPT !.send = None, !.line = <<>>,
                  !.sent = [x \in Producers |-> None],
                  !.mic = IF stopTracks THEN None ELSE @,
                  !.live = IF stopTracks /\ p # None THEN @ \ {m.pubs[p].track} ELSE @,
                  !.pubs = [q \in Publications |->
                      [m.pubs[q] EXCEPT !.loop = "none",
                                        !.producer = IF q = p THEN None ELSE @]]]

\* releaseMedia: the transport closes, and with it every production in line
\* fails, which the publish() that asked for it is told.  A loop of republish
\* finds later that its session is over, and does nothing.
ReleaseMedia(m, stopTracks) ==
    LET p == m.mic
        x == IF p = None THEN None ELSE m.pubs[p].producer
        Asked(q) == \E i \in DOMAIN m.line : m.line[i].pub = q /\ ~m.line[i].loop
        over == [m EXCEPT !.send = None, !.line = <<>>,
                          !.sent = IF x = None THEN @ ELSE [@ EXCEPT ![x] = None],
                          !.mic = IF Asked(@) THEN None ELSE @,
                          !.promise = [q \in Publications |->
                              IF Asked(q) /\ m.promise[q] = "pending"
                              THEN "failed" ELSE m.promise[q]],
                          !.pubs = [q \in Publications |->
                              [m.pubs[q] EXCEPT !.loop = "none",
                                  !.producer = IF q = p THEN None ELSE m.pubs[q].producer]]]
    IN  IF stopTracks /\ p # None
        THEN [over EXCEPT !.mic = None, !.live = @ \ {m.pubs[p].track}]
        ELSE over

\* startSession, up to its first await.
StartSession(m, first) == [m EXCEPT !.sid = TRUE, !.build = "caps", !.first = first]

\* reconcile: what the server lost is published again.  Here it loses a producer
\* only with the transport, and what it has in excess is left as it is.
Reconcile(m) ==
    LET p == m.mic IN
    IF p = None \/ m.pubs[p].producer \in {None, srv.onAir} THEN m
    ELSE Republish([m EXCEPT !.sent[m.pubs[p].producer] = None,
                             !.pubs[p].producer = None], p)

\* Mutant of Broken: a session left half built is left so.
BrokenForGood(m) == [m EXCEPT !.build = "none"]

\* startSession threw.  connect() fails; handleReconnected tries again later.
Broken(m) ==
    [m EXCEPT !.build = "none",
              !.timers = IF m.first \/ @ = MaxTimers THEN @ ELSE @ + 1]

\* handleDown of the channel: the requests under way fail.
Fallen(m) ==
    LET down == [m EXCEPT !.channel = "reconnecting",
                          !.closes = [x \in Producers |->
                                        IF @[x] = "asked" THEN "no" ELSE @[x]]]
        n == IF m.build = "none" THEN down ELSE Broken(down)
    IN  IF n.line = <<>> \/ Head(n.line).stage = "queued" THEN n
        ELSE LET e == Head(n.line)
             IN  ProduceFailed([n EXCEPT !.line = Tail(@)], e.pub, e.loop)

\* onReady, and handleReconnected up to its first await; then the requests
\* that waited go out.
BackUp(m, intact) ==
    LET up == [m EXCEPT !.channel = "ready"]
        n == IF intact THEN Reconcile(up) ELSE StartSession(ReleaseMedia(up, FALSE), FALSE)
    IN  [n EXCEPT !.closes = [x \in Producers |-> IF @[x] = "waiting" THEN "asked" ELSE @[x]]]

\* close and handleFinalClose.
Ended(m) ==
    [ReleaseMedia(m, TRUE) EXCEPT
        !.alive = FALSE, !.channel = "closed", !.build = "none",
        !.closes = [x \in Producers |-> "no"]]

-----------------------------------------------------------------------------
(* The channel, the server and the timeouts.                               *)

Ready == conn.channel = "ready"
First(stage) == conn.line # <<>> /\ Head(conn.line).stage = stage
Advance(stage, x) ==
    [conn EXCEPT !.line[1] = [@ EXCEPT !.stage = stage, !.producer = x]]

\* start() resolves, and connect() goes on.
ChannelOpens ==
    /\ conn.channel = "opening"
    /\ conn' = StartSession([conn EXCEPT !.channel = "ready"], TRUE)
    /\ UNCHANGED srv

ChannelFalls ==
    /\ Ready
    /\ conn' = Fallen(conn)
    /\ UNCHANGED srv

\* The grace period runs out, or the node starts anew.
ServerForgets ==
    /\ ~Ready
    /\ conn.sid \/ srv # NewServer
    /\ srv' = NewServer
    /\ conn' = [conn EXCEPT !.sid = FALSE]

\* The server identified the peer: it keeps the session the page asks for.  A
\* page that forgot it while it was asking may be given it all the same.
ChannelReturns ==
    /\ conn.channel = "reconnecting"
    /\ \/ srv' = srv
       \/ ~conn.sid /\ srv' = NewServer
    /\ conn' = BackUp(conn, conn.sid /\ conn.send # None /\ conn.send = srv.transport)

\* setRtpCapabilities is answered, and createTransports asks for two.
CapabilitiesSet ==
    /\ Ready
    /\ conn.build = "caps"
    /\ conn' = [conn EXCEPT !.build = "asking"]
    /\ UNCHANGED srv

\* The server makes the transports, and closes the one it had.
ServerMakesTransport(t) ==
    /\ Ready
    /\ conn.build = "asking"
    /\ t \notin {srv.transport, conn.send}
    /\ srv' = [transport |-> t, onAir |-> None]
    /\ conn' = [conn EXCEPT !.build = "made"]

\* The answer arrives: createTransports ends, and republishAll begins.
TransportsCreated ==
    /\ Ready
    /\ conn.build = "made"
    /\ LET n == [conn EXCEPT !.build = "none", !.send = srv.transport]
       IN  conn' = IF n.mic = None THEN n ELSE Republish(n, n.mic)
    /\ UNCHANGED srv

\* A request of startSession is refused, or its time is up.
SessionRefused ==
    /\ Ready
    /\ conn.build # "none"
    /\ conn' = Broken(conn)
    /\ UNCHANGED srv

\* The timeout of handleReconnected: forceRebuild, which restarts the channel.
RebuildTimeout ==
    /\ conn.timers > 0
    /\ LET n == [conn EXCEPT !.timers = @ - 1]
       IN  conn' = IF ~conn.alive THEN n
                   ELSE IF Ready THEN [Fallen(n) EXCEPT !.sid = FALSE]
                   ELSE [n EXCEPT !.sid = FALSE]
    /\ UNCHANGED srv

\* The local part of a production is done, and the request goes out.
ProduceAsked ==
    /\ Ready
    /\ First("queued")
    /\ conn' = Advance("asked", None)
    /\ UNCHANGED srv

Forgotten(x) ==
    /\ x # srv.onAir
    /\ conn.sent[x] = None
    /\ conn.closes[x] = "no"
    /\ \A p \in Publications : conn.pubs[p].handle # x
    /\ \A i \in DOMAIN conn.line : conn.line[i].producer # x

\* The server makes the producer, and closes the one it had of the kind.
ServerProduces(x) ==
    /\ Ready
    /\ First("asked")
    /\ Forgotten(x)
    /\ srv' = [srv EXCEPT !.onAir = x]
    /\ conn' = Advance("made", x)

ProduceReturns ==
    /\ Ready
    /\ First("made")
    /\ conn' = ProduceAnswered(conn)
    /\ UNCHANGED srv

\* A production fails: here, at the server, or because its time is up.
ProduceFails ==
    /\ conn.line # <<>>
    /\ LET e == Head(conn.line)
       IN  conn' = ProduceFailed([conn EXCEPT !.line = Tail(@)], e.pub, e.loop)
    /\ UNCHANGED srv

RestEnds(p) ==
    /\ conn.pubs[p].loop = "resting"
    /\ conn' = Rested(conn, p)
    /\ UNCHANGED srv

\* The server serves a closeProducer.
ServerClosesProducer(x) ==
    /\ Ready
    /\ conn.closes[x] = "asked"
    /\ conn' = [conn EXCEPT !.closes[x] = "no"]
    /\ srv' = [srv EXCEPT !.onAir = IF @ = x THEN None ELSE @]

\* A closeProducer waited for the channel until its time was up.
CloseWaitsInVain(x) ==
    /\ conn.closes[x] = "waiting"
    /\ conn' = [conn EXCEPT !.closes[x] = "no"]
    /\ UNCHANGED srv

\* The page closes the connection, or the server does for good.
ConnectionEnds ==
    /\ conn.alive
    /\ conn' = Ended(conn)
    /\ UNCHANGED srv
=============================================================================
