-------------------------- MODULE MediaSubscribing --------------------------
(***************************************************************************)
(* apps/web/src/hooks/mediasoup/mediasoupConnection.ts, the half of it     *)
(* that receives: which tracks of the others are on the air, the consumer  *)
(* of each, the two transports of the session, and how each comes back.    *)
(*                                                                         *)
(* A consume() is a record that goes from place to place: a request that   *)
(* waits or is under way, an answer under way, or a consumer that          *)
(* mediasoup-client is making.  Requests and messages keep their order, as *)
(* SignalSession shows.  The sending and the receiving transport are made  *)
(* and released together, so a member of Transports stands for the pair;   *)
(* the path of each is its own.  A path that is "failed" or "disconnected" *)
(* is lost, and shows as "failed": the two differ in the delay of the      *)
(* restart.  What is published is MediaPublishing: here it is only that    *)
(* somebody waits for it.  The HTTP path, the roster and the chat are left *)
(* out.                                                                    *)
(*                                                                         *)
(* External, from how the class uses them: the server, which forgets the   *)
(* session of a channel that fell at any time, and mediasoup-client.  With *)
(* LateFailures, a making whose transport closed may still fail long after *)
(* that, and its finally forgets the subscription of a later session.      *)
(***************************************************************************)
EXTENDS Naturals, SequencesExt

CONSTANTS
    Tracks,         \* producers of the others, by producerId
    Transports,     \* of a session, the sending one and the receiving one together
    Consumers,
    MaxLine,        \* bound: messages on their way to the page
    MaxAsks,        \* bound: requests on their way when a path is renegotiated
    MaxResting,     \* bound: handleReconnected that wait for a publication
    MaxTimers,      \* bound: timeouts of the ICE restarts, pending or about to be
    LateFailures,   \* the making of a consumer may outlive its transport
    Absent

\* One attempt to subscribe to a track over a transport, the first or the second.
Tries == [track : Tracks, via : Transports \cup {Absent}, retry : BOOLEAN]

ASSUME SubscribingAssumption ==
    /\ {MaxLine, MaxAsks} \subseteq Nat \ {0}
    /\ {MaxResting, MaxTimers} \subseteq Nat
    /\ LateFailures \in BOOLEAN
    /\ IsFiniteSet(Tracks)
    /\ Absent \notin Tracks \cup Transports \cup Consumers \cup Tries

VARIABLES
    conn,   \* the fields of MediasoupConnection, see NewConnection
    line,   \* what the server sent and the page did not receive yet
    srv     \* what the server has of this peer, and of the room

subscribingVars == <<conn, line, srv>>

Silence == [c \in Consumers |-> Absent]

Directions == {"send", "recv"}

\* One transport, "new" also while it is connecting, with its place in iceTimers and
\* the timeouts that iceTimers no longer holds; two of a kind are taken for one.
\* Only the properties read the last: whether the path was lost and did not come back,
\* and whether that was before any media flowed on this page.
NewIce == [state |-> "new", handle |-> "none", strays |-> {}, loss |-> "none"]

NewPaths == [d \in Directions |-> NewIce]

\* What a handleReconnected that waits for a publication will do: it reconciles; it
\* does, over a session that was made again since; or it only looks whether all is well.
Rests == {"reconcile", "stale", "session"}

NewConnection ==
    [alive     |-> TRUE,
     state     |-> "connecting",
     channel   |-> "opening",   \* signal.currentState
     sid       |-> FALSE,       \* sessionId is the one the server has
     build     |-> FALSE,       \* startSession is under way
     first     |-> TRUE,        \* connect() is under way
     rebuild   |-> FALSE,       \* a timeout will call forceRebuild
     was       |-> FALSE,       \* there was a session: something may be published
     asks      |-> <<>>,        \* requests that wait or are under way
     resting   |-> [r \in Rests |-> 0],
     recv      |-> Absent,        \* sendTransport and recvTransport
     ever      |-> FALSE,       \* mediaEverConnected
     ice       |-> NewPaths,    \* of either transport, with its iceTimers
     announced |-> {},
     consumers |-> [t \in Tracks |-> Absent],
     consuming |-> {},
     making    |-> {},          \* consumers mediasoup-client is making
     open      |-> {},          \* consumers made and not closed
     retries   |-> {},          \* tracks with a second chance coming
     gaveUp    |-> {},          \* tracks whose second chance failed
     shown     |-> {}]          \* remote tracks the page was handed

NewServer == [transport |-> Absent, consumers |-> Silence, onAir |-> {}]

SubscribingInit ==
    /\ conn = NewConnection
    /\ line = <<>>
    /\ srv = NewServer

ChannelReady == conn.channel = "ready"
Ask(m, what, try, id) == [m EXCEPT !.asks = Append(@, [what |-> what, try |-> try, id |-> id])]

-----------------------------------------------------------------------------
(* Subscribing.                                                            *)

\* dropConsumer, of whatever the map holds for these tracks.
DropThose(m, ts) ==
    LET gone == {m.consumers[t] : t \in ts}
    IN  [m EXCEPT !.consumers = [t \in Tracks |-> IF t \in ts THEN Absent ELSE @[t]],
                  !.open = @ \ gone, !.shown = @ \ gone]

\* dropConsumer: another consumer the map holds by now is left alone.
DropConsumer(m, t, c) == DropThose(m, {u \in {t} : m.consumers[u] = c})

Missing(m, ts) ==
    IF m.recv = Absent THEN {} ELSE {t \in ts : m.consumers[t] = Absent} \ m.consuming

Attempt(t, via, retry) ==
    [what |-> "consume", try |-> [track |-> t, via |-> via, retry |-> retry], id |-> Absent]

Subscribe(m, ts, retry) ==
    [m EXCEPT !.consuming = @ \cup ts, !.gaveUp = @ \ ts,
              !.asks = @ \o SetToSeq({Attempt(t, m.recv, retry) : t \in ts})]

\* Mutant of EnsureConsumed: subscriptions under way are not looked at.
EnsureConsumedTwice(m, ts, retry) ==
    Subscribe(m, IF m.recv = Absent THEN {} ELSE {t \in ts : m.consumers[t] = Absent}, retry)

\* ensureConsumed, up to its await, of each of these tracks: the attempts begin as
\* requests.
EnsureConsumed(m, ts, retry) == Subscribe(m, Missing(m, ts), retry)

ConsumeMissing(m) == EnsureConsumed(m, m.announced, FALSE)

TracksOf(tries) == {y.track : y \in tries}

\* consume() threw: the catch of ensureConsumed, then its finally.  On another
\* transport the timeout would do nothing.
ConsumeFailed(m, tries) ==
    LET now == {y \in tries : y.via = m.recv}
    IN  [m EXCEPT !.consuming = @ \ TracksOf(tries),
                  !.gaveUp = @ \cup TracksOf({y \in now : y.retry}),
                  !.retries = @ \cup TracksOf({y \in now : ~y.retry})]

ConsumeEnded(m, try) == [m EXCEPT !.consuming = @ \ {try.track}]

Stale(m, try) == ~m.alive \/ m.recv # try.via \/ try.track \notin m.announced

\* consume, after the answer of the server.
ConsumeAnswered(m, try, c) ==
    IF Stale(m, try) THEN ConsumeEnded(m, try)
    ELSE [m EXCEPT !.making = @ \cup {[try |-> try, id |-> c]}]

\* consume, after mediasoup-client made the consumer.
ConsumerMade(m, try, c) ==
    LET n == [m EXCEPT !.making = @ \ {[try |-> try, id |-> c]}]
    IN  IF Stale(m, try) THEN ConsumeEnded(n, try)
        ELSE Ask([n EXCEPT !.consumers[try.track] = c, !.open = @ \cup {c}],
                 "resume", try, c)

\* consume, after the server resumed the consumer.
ConsumerResumed(m, try, c) ==
    ConsumeEnded(IF c \in m.open THEN [m EXCEPT !.shown = @ \cup {c}] ELSE m, try)

\* What the ready says of the room replaces what was known.
ApplySnapshot(m) ==
    [DropThose(m, Tracks \ srv.onAir) EXCEPT !.announced = srv.onAir]

-----------------------------------------------------------------------------
(* The path of the media.                                                  *)

\* Mutant of Healthy: the sending transport is not looked at.
HealthyHalf(m) == m.recv # Absent /\ m.ice["recv"].state # "lost"

\* transportsHealthy.
Healthy(m) == m.recv # Absent /\ \A d \in Directions : m.ice[d].state # "lost"

Recovered(m) ==
    IF m.alive /\ m.channel = "ready" /\ Healthy(m) THEN [m EXCEPT !.state = "connected"] ELSE m

ScheduleIceRestart(i) == IF i.handle # "none" THEN i ELSE [i EXCEPT !.handle = "restart"]

CancelIceRestart(i) == [i EXCEPT !.handle = "none"]

\* handleTransportState, of a path that connected.
PathConnected(m, d) ==
    LET i == [CancelIceRestart(m.ice[d]) EXCEPT !.state = "connected", !.loss = "none"]
        n == [m EXCEPT !.ever = TRUE, !.ice[d] = i]
    IN  IF m.state = "reconnecting" THEN Recovered(n) ELSE n

\* handleTransportState, of a path that was lost after media flowed on this page.
PathLost(m, d) ==
    LET i == [ScheduleIceRestart(m.ice[d]) EXCEPT !.state = "lost", !.loss = "late"]
    IN  [m EXCEPT !.state = "reconnecting", !.ice[d] = i]

\* handleTransportState, of a path that was lost before: the port may be blocked for
\* good, and nothing is tried.  The sending one is shown.
PathBlocked(m, d) ==
    LET i == [m.ice[d] EXCEPT !.state = "lost", !.loss = "early"]
    IN  [m EXCEPT !.state = IF d = "send" THEN "blocked" ELSE @, !.ice[d] = i]

\* iceTimers.set, over what it held.
Recovering(i) == [i EXCEPT !.handle = "recovery", !.strays = @ \cup ({i.handle} \ {"none"})]

\* Mutant of IceRenegotiated: one attempt, and no more.
IceRenegotiatedOnce(m, ds, t) == m

\* restartIce, after its await, of one or both transports: if a path does not come
\* back now, it will not.
IceRenegotiated(m, ds, t) ==
    IF m.recv # t THEN m
    ELSE [m EXCEPT !.ice = [d \in Directions |-> IF d \in ds THEN Recovering(@[d]) ELSE @[d]]]

-----------------------------------------------------------------------------
(* The session.                                                            *)

\* releaseMedia.  A consumer the map forgot closes with the transport, and
\* dropConsumer does not know it.
ReleaseMedia(m) ==
    [DropThose(m, Tracks) EXCEPT
        !.recv = Absent, !.consuming = {}, !.open = {}, !.ice = NewPaths,
        !.making = IF LateFailures THEN @ ELSE {},
        !.retries = {}, !.gaveUp = {}]

\* sessionEpoch moves on: who reconciled the session before may find out.
Outdated(rests) ==
    [rests EXCEPT !["stale"] = @ + rests["reconcile"], !["reconcile"] = 0]

StartSession(m) ==
    Ask([m EXCEPT !.sid = TRUE, !.build = TRUE, !.resting = Outdated(@)], "caps", Absent, Absent)

\* startSession threw.  connect() fails; handleReconnected tries again later.
Broken(m) ==
    IF m.first THEN [m EXCEPT !.build = FALSE, !.first = FALSE, !.state = "failed"]
    ELSE [m EXCEPT !.build = FALSE, !.rebuild = TRUE]

\* Requests were refused, were lost with the channel, or waited too long.
AsksFailed(m, es) ==
    LET Lost(kinds) == {e \in es : e.what \in kinds}
        dropped == {t \in Tracks :
                      \E e \in Lost({"resume"}) : e.try.track = t /\ m.consumers[t] = e.id}
        n == ConsumeFailed(DropThose(m, dropped), {e.try : e \in Lost({"consume", "resume"})})
        k == IceRenegotiated(n, {e.what : e \in {e \in Lost(Directions) : e.id = m.recv}}, m.recv)
    IN  IF Lost({"caps", "transport"}) # {} THEN Broken(k) ELSE k

IsAnswer(e) == e.what \in {"consume", "resume", "caps", "transport"} \cup Directions

\* handleDown of the channel: the page is told, the requests under way fail.
Fallen(m) ==
    AsksFailed([m EXCEPT !.channel = "reconnecting", !.state = "reconnecting", !.asks = <<>>],
               {e \in Range(line) : IsAnswer(e)} \cup Range(m.asks))

\* Mutant of DropLost: what the server lost is not looked at.
DropLostTrusting(m) == m

\* reconcile, its first loop: consumers the server lost are let go.
DropLost(m) ==
    DropThose(m, {t \in Tracks : m.consumers[t] # Absent /\ srv.consumers[m.consumers[t]] = Absent})

\* The end of handleReconnected, but for a session that reconcile is still at, for
\* consumes is that it comes to consumeMissing.
Rested(m, consumes) == Recovered(IF consumes THEN ConsumeMissing(m) ELSE m)

\* handleReconnected goes on at once, or waits for a publication to be back.
Rest(m, kind, waits, consumes) ==
    IF waits THEN [m EXCEPT !.resting[kind] = @ + 1] ELSE Rested(m, consumes)

\* forceRebuild: restart() closes the socket, and the channel falls.
ForceRebuild(m) == [IF m.channel = "ready" THEN Fallen(m) ELSE m EXCEPT !.sid = FALSE]

\* onReady of a channel that came back, and handleReconnected up to its first
\* await; then the requests that waited go out.
BackUp(m, intact, waits) ==
    LET up == ApplySnapshot([m EXCEPT !.channel = "ready", !.asks = <<>>])
        n == IF intact THEN Rest(DropLost(up), "reconcile", waits, TRUE)
             ELSE StartSession(ReleaseMedia(up))
    IN  [n EXCEPT !.asks = @ \o m.asks]

\* close, and handleFinalClose.
Ended(m, final) ==
    [ReleaseMedia(m) EXCEPT
        !.alive = FALSE, !.channel = "closed", !.asks = <<>>,
        !.build = FALSE, !.rebuild = FALSE, !.resting = [r \in Rests |-> 0],
        !.announced = IF final THEN @ ELSE {},
        !.state = IF final THEN "disconnected" ELSE @]

-----------------------------------------------------------------------------
(* The channel and the server.                                             *)

Says(what, ok, try, id) == [what |-> what, ok |-> ok, try |-> try, id |-> id]
Event(what, t, c) == Says(what, TRUE, [track |-> t, via |-> Absent, retry |-> FALSE], c)

Becomes(m) == conn' = m /\ UNCHANGED <<line, srv>>

\* start() resolves, and connect() goes on.
ChannelOpens ==
    /\ conn.channel = "opening"
    /\ conn' = StartSession(ApplySnapshot([conn EXCEPT !.channel = "ready"]))
    /\ UNCHANGED <<line, srv>>

ChannelFalls ==
    /\ ChannelReady
    /\ conn' = Fallen(conn)
    /\ line' = <<>>
    /\ UNCHANGED srv

\* The grace period runs out, or the node starts anew.
ServerForgets ==
    /\ ~ChannelReady
    /\ conn.sid \/ srv.transport # Absent
    /\ srv' = [srv EXCEPT !.transport = Absent, !.consumers = Silence]
    /\ conn' = [conn EXCEPT !.sid = FALSE]
    /\ UNCHANGED line

Resting == conn.resting["reconcile"] + conn.resting["stale"] + conn.resting["session"]

\* The timeouts of a transport, pending or about to be.
AtWork(d) ==
    Cardinality({conn.ice[d].handle} \ {"none"}) + Cardinality(conn.ice[d].strays)
        + Cardinality({e \in Range(line) \cup Range(conn.asks) : e.what = d /\ e.id = conn.recv})

UnderWay == Resting + AtWork("send") + AtWork("recv")

MayWait == Resting < MaxResting /\ UnderWay < MaxTimers

ChannelReturns(waits) ==
    /\ conn.channel = "reconnecting"
    /\ waits => MayWait
    /\ conn' = BackUp(conn, conn.sid /\ conn.recv # Absent /\ conn.recv = srv.transport, waits)
    /\ UNCHANGED <<line, srv>>

\* The page closed its transports, and DTLS tells the server.
ServerHearsOfClose ==
    /\ srv.transport # Absent
    /\ conn.recv = Absent
    /\ \A e \in Range(line) : e.id # srv.transport
    /\ srv' = [srv EXCEPT !.transport = Absent, !.consumers = Silence]
    /\ UNCHANGED <<conn, line>>

\* All that is on its way, or being made.
Pending == Range(line) \cup Range(conn.asks) \cup conn.making

NewTrack(t) ==
    /\ t \notin srv.onAir \cup conn.announced \cup conn.retries
    /\ \A e \in Pending : e.try # Absent => e.try.track # t

NewConsumer(c) ==
    /\ srv.consumers[c] = Absent
    /\ c \notin conn.open \cup conn.shown
    /\ \A e \in Pending : e.id # c

NewTransport(t) ==
    /\ t \notin {srv.transport, conn.recv}
    /\ \A e \in Pending : e.id # t /\ (e.try # Absent => e.try.via # t)

Tell(e) == line' = IF ChannelReady THEN Append(line, e) ELSE line
Room == Len(line) < MaxLine

TrackGoesOnAir(t) ==
    /\ Room
    /\ NewTrack(t)
    /\ srv' = [srv EXCEPT !.onAir = @ \cup {t}]
    /\ Tell(Event("announced", t, Absent))
    /\ UNCHANGED conn

TrackGoesOffAir(t) ==
    /\ Room
    /\ t \in srv.onAir
    /\ srv' = [srv EXCEPT !.onAir = @ \ {t},
                          !.consumers = [c \in Consumers |-> IF @[c] = t THEN Absent ELSE @[c]]]
    /\ Tell(Event("closed", t, Absent))
    /\ UNCHANGED conn

\* The bridge between two Workers dies, and the track stays on the air.
BridgeFalls(c) ==
    /\ Room
    /\ srv.consumers[c] # Absent
    /\ srv' = [srv EXCEPT !.consumers[c] = Absent]
    /\ Tell(Event("gone", srv.consumers[c], c))
    /\ UNCHANGED conn

\* The server takes the requests one at a time, and answers in order.
Serves(what) ==
    /\ ChannelReady
    /\ Room
    /\ conn.asks # <<>>
    /\ Head(conn.asks).what = what
    /\ conn' = [conn EXCEPT !.asks = Tail(@)]

Answer(ok, id) ==
    LET e == Head(conn.asks) IN line' = Append(line, Says(e.what, ok, e.try, id))

ServesCaps == Serves("caps") /\ Answer(TRUE, Absent) /\ UNCHANGED srv

ServesTransport(t) ==
    /\ Serves("transport")
    /\ NewTransport(t)
    /\ srv' = [srv EXCEPT !.transport = t, !.consumers = Silence]
    /\ Answer(TRUE, t)

ServesConsume(c) ==
    /\ Serves("consume")
    /\ NewConsumer(c)
    /\ LET try == Head(conn.asks).try
           ok == try.via = srv.transport /\ try.track \in srv.onAir
       IN  /\ srv' = IF ok THEN [srv EXCEPT !.consumers[c] = try.track] ELSE srv
           /\ Answer(ok, IF ok THEN c ELSE Absent)

\* A bridge could not be made, or the like.
RefusesConsume == Serves("consume") /\ Answer(FALSE, Absent) /\ UNCHANGED srv

ServesResume ==
    /\ Serves("resume")
    /\ LET c == Head(conn.asks).id IN Answer(srv.consumers[c] # Absent, c)
    /\ UNCHANGED srv

ServesIce(d) ==
    /\ Serves(d)
    /\ LET t == Head(conn.asks).id IN Answer(t = srv.transport, t)
    /\ UNCHANGED srv

-----------------------------------------------------------------------------
(* What the page does as messages arrive and timeouts fire.                *)

Receives(what, m) ==
    /\ line # <<>>
    /\ Head(line).what = what
    /\ conn' = m
    /\ line' = Tail(line)
    /\ UNCHANGED srv

First == Head(line)

TrackAnnounced ==
    Receives("announced", LET t == First.try.track IN
        EnsureConsumed([conn EXCEPT !.announced = @ \cup {t}], {t}, FALSE))

TrackClosed ==
    Receives("closed", LET t == First.try.track IN
        IF t \notin conn.announced THEN conn
        ELSE DropThose([conn EXCEPT !.announced = @ \ {t}], {t}))

ConsumerClosed ==
    Receives("gone",
        LET t == First.try.track
            m == DropConsumer(conn, t, First.id)
        IN  IF t \in conn.announced THEN EnsureConsumed(m, {t}, FALSE) ELSE m)

ConsumeReturns ==
    Receives("consume", IF First.ok THEN ConsumeAnswered(conn, First.try, First.id)
                        ELSE AsksFailed(conn, {First}))

ResumeReturns ==
    Receives("resume", IF First.ok THEN ConsumerResumed(conn, First.try, First.id)
                       ELSE AsksFailed(conn, {First}))

CapsReturn ==
    Receives("caps", IF First.ok THEN Ask(conn, "transport", Absent, Absent) ELSE Broken(conn))

\* createTransports ends, and with it startSession but for what is published.
\* Before the first session nothing can be published.
TransportReturns(waits) ==
    /\ waits => conn.was /\ MayWait
    /\ Receives("transport",
          IF ~First.ok THEN Broken(conn)
          ELSE Rest(ConsumeMissing(
                   [conn EXCEPT !.build = FALSE, !.first = FALSE, !.was = TRUE,
                                !.recv = First.id, !.ice = NewPaths]),
                   "session", waits, FALSE))

\* restartIce, after its await: not_found makes the session again, whichever session the
\* transport was of.
IceReturns(d) ==
    IF line # <<>> /\ First.what = d /\ ~First.ok
    THEN /\ conn' = ForceRebuild(conn)
         /\ line' = <<>>
         /\ UNCHANGED srv
    ELSE Receives(d, IceRenegotiated(conn, {d}, First.id))

\* An answer comes when the page has stopped waiting for it.
AnswerTooLate ==
    /\ line # <<>>
    /\ IsAnswer(First)
    /\ conn' = AsksFailed(conn, {First})
    /\ line' = Tail(line)
    /\ UNCHANGED srv

\* A request waited for the channel until its time was up.
WaitedInVain ==
    /\ conn.channel = "reconnecting"
    /\ conn.asks # <<>>
    /\ Becomes(AsksFailed([conn EXCEPT !.asks = Tail(@)], {Head(conn.asks)}))

MakingEnds(e) ==
    /\ conn.recv = e.try.via
    /\ Becomes(ConsumerMade(conn, e.try, e.id))

\* mediasoup-client fails, or its transport closed under it.
MakingFails(e) ==
    Becomes(ConsumeFailed([conn EXCEPT !.making = @ \ {e}], {e.try}))

RetryTimeout(t) ==
    /\ t \in conn.retries
    /\ LET m == [conn EXCEPT !.retries = @ \ {t}]
       IN  Becomes(IF t \in conn.announced THEN EnsureConsumed(m, {t}, TRUE) ELSE m)

IceConnects(d) ==
    /\ conn.recv # Absent
    /\ conn.ice[d].state # "connected"
    /\ Becomes(PathConnected(conn, d))

\* "disconnected" may be followed by "failed".
IceFalls(d) ==
    /\ conn.recv # Absent
    /\ UnderWay < MaxTimers \/ conn.ice[d].handle # "none"
    /\ Becomes(IF conn.ever THEN PathLost(conn, d) ELSE PathBlocked(conn, d))

\* "connecting", of which handleTransportState takes no notice.
IceTries(d) ==
    /\ conn.recv # Absent
    /\ conn.ice[d].state = "lost"
    /\ Becomes([conn EXCEPT !.ice[d].state = "new"])

Pends(i, kind, stray) == IF stray THEN kind \in i.strays ELSE i.handle = kind

\* Its timeout takes a transport out of iceTimers, whatever they hold by then.
Fired(i, kind, stray) ==
    [i EXCEPT !.handle = "none",
              !.strays = IF stray THEN (@ \ {kind}) \cup ({i.handle} \ {"none"}) ELSE @]

\* restartIce, up to its await.
IceRestartTimeout(d, stray) ==
    /\ Pends(conn.ice[d], "restart", stray)
    /\ Len(conn.asks) < MaxAsks
    /\ LET m == [conn EXCEPT !.ice[d] = Fired(@, "restart", stray)]
       IN  Becomes(IF conn.ice[d].state = "connected" THEN m ELSE Ask(m, d, Absent, conn.recv))

\* Renegotiating did not help.
IceRecoveryTimeout(d, stray) ==
    /\ Pends(conn.ice[d], "recovery", stray)
    /\ LET m == [conn EXCEPT !.ice[d] = Fired(@, "recovery", stray)]
       IN  IF conn.ice[d].state = "connected" THEN Becomes(m)
           ELSE /\ conn' = ForceRebuild(m)
                /\ line' = IF ChannelReady THEN <<>> ELSE line
                /\ UNCHANGED srv

\* Whether consumeMissing ends it: one that reconciled a session made again since may
\* stop at the next publication.
Consumes == [reconcile |-> {TRUE}, stale |-> BOOLEAN, session |-> {FALSE}]

\* A publication is back, or given up, and handleReconnected goes on.
RestEnds(kind, consumes) ==
    /\ conn.resting[kind] > 0
    /\ consumes \in Consumes[kind]
    /\ Becomes(Rested([conn EXCEPT !.resting[kind] = @ - 1], consumes))

RebuildTimeout ==
    /\ conn.rebuild
    /\ conn' = ForceRebuild([conn EXCEPT !.rebuild = FALSE])
    /\ line' = IF ChannelReady THEN <<>> ELSE line
    /\ UNCHANGED srv

ConnectionEnds(final) ==
    /\ conn.alive
    /\ conn' = Ended(conn, final)
    /\ line' = <<>>
    /\ UNCHANGED srv

-----------------------------------------------------------------------------

Server ==
    \/ ServesCaps \/ RefusesConsume \/ ServesResume \/ ServerHearsOfClose
    \/ \E d \in Directions : ServesIce(d)
    \/ \E t \in Transports : ServesTransport(t)
    \/ \E c \in Consumers : ServesConsume(c)

Received ==
    \/ TrackAnnounced \/ TrackClosed \/ ConsumerClosed
    \/ ConsumeReturns \/ ResumeReturns \/ CapsReturn
    \/ \E waits \in BOOLEAN : TransportReturns(waits)
    \/ \E d \in Directions : IceReturns(d)

SubscribingNext ==
    \/ ChannelOpens \/ ChannelFalls \/ ServerForgets
    \/ \E waits \in BOOLEAN : ChannelReturns(waits)
    \/ Server \/ Received \/ AnswerTooLate \/ WaitedInVain
    \/ \E t \in Tracks : TrackGoesOnAir(t) \/ TrackGoesOffAir(t) \/ RetryTimeout(t)
    \/ \E c \in Consumers : BridgeFalls(c)
    \/ \E e \in conn.making : MakingEnds(e) \/ MakingFails(e)
    \/ \E d \in Directions : IceConnects(d) \/ IceFalls(d) \/ IceTries(d)
    \/ \E d \in Directions, stray \in BOOLEAN :
          IceRestartTimeout(d, stray) \/ IceRecoveryTimeout(d, stray)
    \/ \E kind \in Rests, consumes \in BOOLEAN : RestEnds(kind, consumes)
    \/ RebuildTimeout
    \/ \E final \in BOOLEAN : ConnectionEnds(final)

SubscribingSpec == SubscribingInit /\ [][SubscribingNext]_subscribingVars

-----------------------------------------------------------------------------

Ids == Consumers \cup Transports \cup {Absent}

Requested ==
    [what : {"caps", "transport", "consume", "resume"} \cup Directions, try : Tries \cup {Absent}, id : Ids]

Messages ==
    [what : {"announced", "closed", "gone", "caps", "transport", "consume", "resume"}
                \cup Directions,
     ok : BOOLEAN, try : Tries \cup {Absent}, id : Ids]

Paths ==
    [state : {"new", "connected", "lost"}, handle : {"none", "restart", "recovery"},
     strays : SUBSET {"restart", "recovery"}, loss : {"none", "early", "late"}]

Connections ==
    [alive : BOOLEAN,
     state : {"connecting", "connected", "reconnecting", "failed", "blocked", "disconnected"},
     channel : {"opening", "ready", "reconnecting", "closed"},
     sid : BOOLEAN, build : BOOLEAN, first : BOOLEAN, rebuild : BOOLEAN, was : BOOLEAN,
     asks : Seq(Requested),
     resting : [Rests -> Nat],
     recv : Transports \cup {Absent},
     ever : BOOLEAN,
     ice : [Directions -> Paths],
     announced : SUBSET Tracks,
     consumers : [Tracks -> Consumers \cup {Absent}],
     consuming : SUBSET Tracks,
     making : SUBSET [try : Tries, id : Consumers],
     open : SUBSET Consumers,
     retries : SUBSET Tracks,
     gaveUp : SUBSET Tracks,
     shown : SUBSET Consumers]

Servers ==
    [transport : Transports \cup {Absent}, consumers : [Consumers -> Tracks \cup {Absent}],
     onAir : SUBSET Tracks]

SubscribingTypeOK == conn \in Connections /\ line \in Seq(Messages) /\ srv \in Servers

\* consumers, mediasoupConnection.ts:209 "uma track remota, uma assinatura", and
\* trackClosed, 1112-1113: "e isso que tira o quadro do palco em vez de deixa-lo
\* congelado no ultimo frame".  A track the page was handed is on the air as far
\* as the page knows, and is the one its map can take back; what the map holds is
\* open, on the transport of now.
SubscriptionsAreSound ==
    /\ SubscribingTypeOK
    /\ \A c \in conn.shown : \E t \in conn.announced : conn.consumers[t] = c
    /\ conn.open = {conn.consumers[t] : t \in Tracks} \ {Absent}
    /\ conn.recv = Absent => conn.open = {} /\ conn.consuming = {}

\* Nothing is under way between the page and the server.
Calm ==
    /\ ChannelReady
    /\ ~conn.build /\ ~conn.rebuild /\ \A r \in Rests : conn.resting[r] = 0
    /\ conn.asks = <<>> /\ line = <<>> /\ conn.making = {} /\ conn.retries = {}

\* handleReconnected and ensureConsumed, mediasoupConnection.ts:579-607 and
\* 1124-1147: whatever fell, died or was refused meanwhile, once all is quiet the
\* page knows what is on the air, and hears every track of it but those whose
\* second chance failed, through a consumer the server has.
SubscribedWhenCalm ==
    Calm /\ conn.recv # Absent =>
        /\ conn.announced = srv.onAir
        /\ \A t \in srv.onAir \ conn.gaveUp :
               conn.consumers[t] \in conn.shown /\ srv.consumers[conn.consumers[t]] = t

\* A transport whose path works, or was never lost.
Fine(i) == i.state = "connected" \/ (i.state = "new" /\ i.loss = "none")

\* handleTransportState and handleReconnected, mediasoupConnection.ts:772-812 and
\* 579-607: once all is quiet and both paths are fine the page says that it is
\* connected, unless the sending one was lost before any media flowed, which nothing
\* takes back; and it says so only while the channel is there and neither path is lost
\* that ever worked, in whatever order the two fell and came back.
StateTellsTheTruth ==
    /\ Calm /\ conn.recv # Absent /\ (\A d \in Directions : Fine(conn.ice[d])) =>
           conn.state \in {"connected", "blocked"}
    /\ conn.alive /\ conn.ever /\ conn.state = "connected" =>
           /\ ChannelReady /\ conn.recv # Absent
           /\ \A d \in Directions : conn.ice[d].state = "lost" => conn.ice[d].loss = "early"

\* handleTransportState, mediasoupConnection.ts:810 and 781: the page does not say for
\* good that a path failed which works.
FailureIsTakenBack ==
    Calm /\ conn.recv # Absent /\ (\A d \in Directions : conn.ice[d].state = "connected") =>
        conn.state # "blocked"

\* scheduleIceRestart and restartIce, mediasoupConnection.ts:823-867: a path that was
\* lost since media flowed, and did not come back, is never left so.  A timeout, a
\* renegotiation of that very transport or a session to be made again is on its way,
\* whatever becomes of the other one.
LostMediaOnItsWayBack ==
    \A d \in Directions : conn.recv # Absent /\ conn.ice[d].loss = "late" =>
        \/ conn.ice[d].handle # "none" \/ conn.ice[d].strays # {}
        \/ \E e \in Range(line) \cup Range(conn.asks) : e.what = d /\ e.id = conn.recv
        \/ conn.channel = "reconnecting" /\ ~conn.sid
=============================================================================
