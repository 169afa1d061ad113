# telecord, verified

TLA+ models of the parts of telecord in which time, order and failure matter, the TLC runs that
check them on small instances, and TLAPS proofs of what eight of them promise for every instance.
Paths below are relative to the repository; `SFU` is `apps/mediasoup-sfu/src`, `WEB` is
`apps/web/src` and `API` is `apps/api/src`.

Contents: [the system](#the-system) · [the modules](#the-modules) · [the runs](#the-runs) ·
[fairness](#fairness) · [what is proved](#what-is-proved) · [what the models show](#what-the-models-show-about-the-code) ·
[not modelled](#what-is-not-modelled) · [plan](#plan)

## The system

telecord is a voice and video room application. A browser (or the Electron shell around it) asks
the API for a room and a token, then talks to one of two media back-ends: LiveKit, an external
server, or the repository's own SFU over mediasoup, which is where the protocol of the project
lives. One SFU node is one Node.js process that drives several mediasoup Workers, separate
processes reached through promises.

| component | state it keeps | operations | talks to |
| --- | --- | --- | --- |
| Peer liveness, `SFU/liveness.ts` | open channels per peer, each with the page that opened it; the grace timeout of a peer with none | `attach`, `detach`, `goodbye`, `forget`, `stop` | called by the signalling server and the presence socket; calls back when a peer expires |
| Signalling server, `SFU/signal/server.ts`, `presence.ts`, `node.ts`, `http.ts` | connections, the session of each peer, the sessions of each room, the roster | `accept`, `identify`, `release`, identify timeout, leave, kick, expiry | rooms, liveness, the resume token |
| Session and dispatcher, `SFU/signal/session.ts`, `dispatcher.ts`, `frames.ts` | the request being served, events held meanwhile, the close code | serve, deliver, close | the outgoing queue below, the room above |
| Outgoing queue, `SFU/signal/outbound.ts`, `socketStream.ts` | a lane of critical frames, one volatile frame per event, whether the stream asked for one | `enqueue`, `enqueueLatest`, `finish`, `_read`, `destroy` | the WebSocket |
| Rooms, `SFU/rooms.ts`, `workers.ts` | rooms, their Routers (one per Worker), peers, creations in flight; transports, producers, consumers, bridges; the load of each Worker | join, leave, create transport, produce, consume, close | mediasoup Workers |
| Browser channel, `WEB/lib/signalStream.ts` | the WebSocket, pending requests, timers, the resume token | `start`, `request`, `restart`, `close` | the signalling server, the token endpoint |
| Browser session, `WEB/hooks/mediasoup/` | device, two transports, what is published and subscribed, recovery timers | connect, publish, replace, consume, rebuild | the browser channel, mediasoup-client |
| Accounts, `API/auth`, `WEB/lib/auth.ts`, `WEB/hooks/useAuth.tsx` | the row of a user, identities of Google, refresh tokens, links by mail; in the browser a cookie, a timeout and one shared renewal | register, login, refresh, logout, Google, verify, reset, suspend | the database, the mailbox, Google |
| Catalog, `API/rooms`, `API/channels` | rooms, channels, members and owners of both, place of each room | create, adopt, remove, roles, add, take out, put in order | the database |
| Media sessions, `API/livekit` | who was in which room of LiveKit, from when to when | `onJoin`, `onLeave`, `onRoomFinished` | the webhooks of LiveKit, the database |
| The rest of the API | presence rows, layouts, chat, sounds, logs; the choice of an SFU node | REST handlers | the database, the SFU nodes, LiveKit |
| Browser interface, the rest of `WEB` | React state, LiveKit's client objects, audio graphs, storage | | LiveKit, the API |
| Desktop, `desktop/src` | windows, tray, updates | | Electron |

What is hard here, and where:

* **Handlers that wait.** Every promise is a point at which anything else may run: a person may
  leave while the Worker is making their Router; a connection may close while its token is being
  checked; a track may close while the bridge that carries it is being built. What was read before
  the wait may be false after it (`SFU/rooms.ts`, `SFU/signal/server.ts`).
* **Several channels of one person.** A tab has a signalling connection and a presence socket; a
  reload makes another page of the same person while the goodbye of the first is still on its way.
  Who is *gone* is a question about all of these and a timeout (`SFU/liveness.ts`).
* **Order.** An event about a consumer must not overtake the answer that creates it; an answer must
  not overtake an earlier one; a client that does not read must cost a bounded amount and lose
  nothing in the middle (`SFU/signal/*`).
* **Coming back.** The browser must return from any fall, without a fall of an old connection
  disturbing the new one, and whoever waits must be told (`WEB/lib/signalStream.ts`).
* **Counting.** A Worker's load goes up and down with four kinds of object that close in cascades
  on two Workers; rooms must be forgotten when they are empty and not before (`SFU/rooms.ts`).
* **Check, then write, over a database.** A request reads, decides, and writes in another statement; another
  request, a removal or a revival falls in between (`API/rooms`, `API/channels`, `API/auth`).
* **Asked twice, told twice.** A refresh token is good for one renewal, and asked for by a timeout, a load and a
  refused fetch (`WEB/lib/auth.ts`); a webhook arrives twice, late or never (`API/livekit`).

`PROJECT.json` lists every hazard at its line, with the property that would catch it.

### How they interact

```
 browser                                 one SFU node                        Workers
 SignalStream  --- WebSocket --- SignalSession -- SignalServer -- RoomRouters -- Router
   |                               |  OutboundQueue   |    \           |          observer
 media session                     |  (FrameStream)   |   PeerMedia ---+--------- transport
                                   +-- serves one     PeerLiveness               producer
 presence socket ----------------- request at a time  (PeerPresence)             consumer, bridge
```

`SignalServer` EXTENDS `PeerLiveness`: they share the identity of connections and run in the same
synchronous pieces of code, so they are one state machine. `SignalSession` EXTENDS `OutboundQueue`
for the same reason. Elsewhere the interface is narrow, and each side treats the other as an
environment that may do anything the interface allows: `SignalServer` sees the creation of a peer
as a promise that is kept or broken, and `RoomRouters` says when; `RoomRouters` sees the load of a
Worker as something that changes at will, and `PeerMedia` says how; `SignalStream` sees the server
as one that answers, refuses, closes or is silent; `MediaPublishing` and `MediaSubscribing` see the channel as
its owner does, and are the two halves of one class that share it and nothing else that either changes. The three
modules of the API meet the others nowhere but in the token that opens a connection, which decides nothing in them.

## The modules

JavaScript runs a handler to its next `await` without interruption. So an action is what happens
between two awaits, with every synchronous call in it; the continuation is another action, which
reads the state as it is then. Timeouts, callbacks and answers of a Worker are actions too.

**`PeerPresence`**, the promise of liveness without timeouts: somebody is here, in grace or gone,
and only who is in grace is expired.

**`PeerLiveness`** (`SFU/liveness.ts`). `channels`, `instance` and `timers` are the maps of the class;
`countdown` is what the JavaScript runtime holds. They are kept apart because a timeout that is not
cleared fires whether or not the map remembers its handle. `owner` is the connection whose `close`
event is still to come; `known` is history. `Attach`, `Forget` and `Fire`
are methods and the timeout; `detach` is one action per outcome: `DetachUnknown`, `GoodbyeOfOnePage`,
`GoodbyeOfPeer`, `FallOfOneChannel`, `FallOfLastChannel`. The page of an old client is `NoPage`, the
`null` of the code.

**`SignalServer`** (`SFU/signal/server.ts`, `presence.ts`, the membership half of `rooms.ts`, `node.ts`).
`stage[c]` is where the handlers of connection `c` are: nobody yet (`open`), at one of the awaits of
`identify` (`verifying`, `joining`, `signing`), identified (`ready`), or identified with a
`createTransport` that waits for the peer to be made again (`requesting`); `closing[c]` is why the server has decided to close it; `gone` are connections that closed
under a running `identify`. `peers`, `creating`, `roster`, `byPeer`, `inRoom` are the maps of the
registry and of the server. There is one action per stage, one per removal (leave, kick, expiry)
with all its listeners, one for the identify timeout and one for each end of the presence socket.
`MCSignalServer` gives the connections their owners and pages.

**`FrameStream`**, what a client may count on: a sequence of critical frames of which it gets a
prefix, volatile values that only get newer, and a polite end only after everything accepted.

**`OutboundQueue`** (`SFU/signal/outbound.ts`, `socketStream.ts`). The lane, the volatile frames,
`wanted` (the stream asked and was not served) and the bounded chain below. `_read` and the pump are
one step, as in the code; the fall of the connection, the flush before a close and the overflow that
cuts are actions.

**`SignalSession`** (`SFU/signal/session.ts`, `dispatcher.ts`). A request is taken up, its handler ends,
its answer is queued by a later microtask: three steps, with events, timeouts and closes between.

**`RoomRouters`** (`SFU/rooms.ts`, `workers.ts`): `ensureRoom`, `createPeer`, `assignRouter`,
`primaryRouter`, `ensureRouter`, `createRoomRouter`, `removePeer`, `releaseRouterIfIdle`,
`closeRoomIfEmpty`. A room is an object that a creation goes on holding after the registry forgot
it, hence identities. Which Worker is best is left open among those `leastLoaded` allows.

**`PeerMedia`** (`SFU/rooms.ts`): `joinPeer`, `resetPeerMedia`, `createTransport`, `produce`,
`closeProducer`, `consume`, `ensurePiped`, `account`, `removePeer`. An object in the making has what
the code captured before its await; an answer finds the room as it has become. A Worker closes what
is on a transport at once and tells the consumers and bridges of a closed track later.
`MCPeerMedia` says who lives on which Worker.

**`SignalStream`** (`WEB/lib/signalStream.ts`): the fields of the class in one record, and the two ends of
every WebSocket that something still refers to. The identity of a WebSocket is used again when
nothing does, so the number of reconnections is not bounded.

**`MediaPublishing`** (`WEB/hooks/mediasoup/mediasoupConnection.ts`, the half that sends): `connect`,
`startSession`, `createTransports`, `handleReconnected`, `reconcile`, `forceRebuild`, `publish`,
`unpublish`, `produceFor`, `republish`, `releaseMedia`, `close`. Each piece of code between two awaits
is an operator from one record of the connection to another, since the button below calls some of them in
the middle of its own. The channel is `SignalStream` as its owner sees it. `line` is the productions that
mediasoup-client takes one at a time; `sent` the open Producers with the track each sends; `live` the
tracks nobody stopped; `srv` what the server has. `sid` stands for `sessionId` being the server's.

**`Microphone`** (`WEB/hooks/mediasoup/useMediasoupTalkControls.ts`, `withPublishTimeout.ts`) EXTENDS it:
`apply` and its continuations, the recapture after a change of device, and `replaceTrack`. A promise of
`publish()` that settled is continued before any other event (`PublishSettles`), as microtasks are.

**`MediaSubscribing`** (the half of the same class that receives, and the transports of both): `startSession`, `handleReconnected`,
`reconcile`, `applySnapshot`, `trackAnnounced`, `trackClosed`, `ensureConsumed` with its one retry, `consume`, `handleTransportState`,
`transportsHealthy`, `scheduleIceRestart`, `restartIce`, `forceRebuild`, `releaseMedia`, `close`. A `consume()` is a record that goes from
place to place: a request, an answer, a consumer in the making. `line` is what the server sent, in order; `srv` what it
has. The sending and the receiving transport are made and released together, so one identity stands for the pair, but each has a path of its own
in `conn.ice`, which holds the timeouts of a path apart from the handle the class remembers, as `PeerLiveness` does. An answer `not_found` to a
`restartIce` makes the session again whichever transport it is about (`IceReturns`). `resting` is the `handleReconnected` that wait
for a publication to be back, with what they do then: one that reconciled goes on to `consumeMissing`, unless the session was made again
meanwhile and it sees that. Of the publications themselves nothing else is here: they are `MediaPublishing`'s. A path that is lost before any
media flowed on the page is not renegotiated, and when it is the sending one the page says so (`blocked`); that the receiving one is then
lost shows in no state of the page, and the properties except it. `ServerHearsOfClose` lets the server hear of the pair at once, at any time.

**`Accounts`** (`API/auth`, `API/admin/admin.service.ts` where it suspends, `WEB/lib/auth.ts`, `WEB/hooks/useAuth.tsx`):
one address and all that may happen to its account. A call is an HTTP request from when the page sends it, with the
cookie of that moment, to when its answer reaches the page; the server advances it one statement at a time, so two calls
interleave at each. `pages` is the cookie, what the page shows, its timeout, the renewal it shares and who waits for it.

**`Catalog`** (`API/rooms/rooms.service.ts`, `API/channels/channels.service.ts`). Rooms and channels keep owners and
members in the same way, and share operators. A request is taken up with what it read when it passed its checks - `saw` is the owner it
read - and writes on what it read, one transaction at a time; requests overlap at will. Removed rows and their members stay. `reorderRooms` takes
any list as long as the channel that names rooms of it only: a room named twice gets its last place, one left out keeps the one it had.

**`MediaSessions`** (`API/livekit/livekit.service.ts`, the webhook of its controller). LiveKit is what happened in one
room and the events it owes; an event is its place in that history, which is its date too. A task is a request of the webhook, split at its
queries, which may end at any of them. `orderly`, chosen once, says whether events are told in order, each until it is
answered or given up, or in any order, repeated and overlapping.

The modules called `...Proofs` EXTEND the module they are about and hold proofs only
(`SignalServerProofs` and `SignalSessionProofs` are also about the module that theirs EXTENDS, `ApiProofs` is about `MediaSessions` and `Catalog`,
`BrowserProofs` about `SignalStream` and `MediaSubscribing`);
the modules called `MC...` give constants their values, people their connections, and symmetry.

## The runs

`tlc -config X.cfg M`. Constants are in the `.cfg`; a run that should find nothing is *pass*, one that
exhibits a disagreement between the code and what it says of itself is *violation*.

| run | module, cfg | bounds | shows |
| --- | --- | --- | --- |
| server | `MCSignalServer`, `SignalServer.cfg` | 1 person, 3 signalling connections and a presence socket, an old client's page and a new one, 2 timeouts | one session per peer, no ghosts, goodbyes spare other pages, deserters leave the roster; maps, handles and timeouts in step; the whole implements `PeerPresence` |
| session | `SignalSession` | 3 requests, 2 events, a limit of 2, a chain of 1, 2 values of one volatile key | order of answers and events, explained ends, closes that end; bound and wakeups of the queue; the whole implements `FrameStream` |
| routers | `RoomRouters` | 2 people, 2 Workers, 2 successive rooms, 4 Routers | nobody on a closed Router, no lost Router, together unless strained, joins end |
| media | `MCPeerMedia`, `PeerMedia.cfg` | a publisher, a subscriber on the same Worker and one on another; 2 transports, tracks, consumers, bridges | lists, bridges, subscriptions and units agree with what is open |
| stream | `SignalStream` | 2 WebSockets at a time, 1 request, 2 frames on their way | always on the way back, quiet once stopped, promises settle |
| microphone | `MCMicrophone`, `Microphone.cfg` | 3 captures, 2 publications, 2 transports, 3 producers, 1 rebuild timeout; all symmetric | one microphone, page and server agree once quiet, no wait without an end |
| subscribing | `MCMediaSubscribing`, `MediaSubscribing.cfg` | 1 track that goes on and off the air, 2 pairs of transports with 2 paths each, 2 consumers, 2 messages on their way, no request for ICE while others wait to be served, 2 timeouts of ICE or one and a wait for a publication; no late failure | one subscription per track, everything on the air heard once quiet, the state shown true of both paths, a lost path on its way back |
| accounts | `MCAccounts`, `Accounts.cfg` | 1 browser, 1 identity of Google, 3 refresh tokens, 2 requests at once; all symmetric | Google opens only confirmed accounts, a renewal is no reuse, renewing never stops |
| catalog | `MCCatalog`, `Catalog.cfg` | 1 room, a channel of one, 2 people who do not administer, 2 requests at once; people and requests symmetric | an owner stays a member and no room comes to stand in a channel that went, but at the end of a request that was overtaken |
| media_sessions | `MCMediaSessions`, `MediaSessions.cfg` | 2 people, 7 events told in order or 3 in any order, 2 requests at once, a sweep that takes 2 | stays become sessions with their own ends, the end of the room closes what was lost |
| stranded_peer (*violation*) | `MCSignalServer`, `SignalServerStranded.cfg` | 1 person, 2 connections of each kind | see below |
| repeated_exit (*violation*) | `MCMediaSessions`, `MediaSessionsRepeated.cfg` | as media_sessions | see below |

Why the bounds are enough for the questions asked. *server*: three signalling connections are a session, its
successor and one in an await, which is what a hand-over involves; the socket is the second channel
of either page. Symmetry is not used since connections have owners and pages. What `PeerLiveness` claims is proved for
any number of people; here it is checked in the company of its callers. *session*: a request being
served, one before and one after, and an event on each side; the queue fills, drains and fills. What it claims of
itself is proved for every limit and key. *routers*: two people reach every race
between a join and a leave or another join, since each await of one is a window for the other; four
Routers are two per Worker, one closing and one opening. *media*: a race is between the publisher, one
subscriber and the bridge; two of each object make one old and one new. *stream*: an old WebSocket that
is closing and a new one; the counters that would grow are not state. *microphone*: the track on the air,
its replacement and one that was forgotten; a publication that outlives its timeout beside a new one; an old
transport and a new one; identities are used again, so clicks and reconnections are not bounded. *subscribing*: tracks
do not see each other, so one is enough for what is claimed of each; an old consumer and pair of transports and a new one; two timeouts are one
of either path, or one remembered and one that was not cleared, so that both paths are lost and come back in any order, and answers about a pair
that was replaced arrive. A wait for a publication takes the place of one of them.
*accounts*: two requests are what a race takes, three tokens are one in the cookie, one on its way and one replaced;
tokens nobody holds are issued anew, so renewals are not bounded; the proof covers the rest. *catalog*: two people make
an owner and a successor; an administrator has rights that come of no row, and the proof says that nothing here depends on rights; two requests are what a race takes: the one that reads, and the one that changes what was
read, which may be several of them in turn. One room is enough since what is claimed is of each room, and only the order of a channel relates two; lists
that name a room twice take two, and are in the proof. Both exceptions that the properties make are reached (below). *media_sessions*: seven events are two stays of one person beside one of the other and the end of
the room between or after them, so that an exit is lost with a later stay to be confused with; a sweep that takes two
meets three open sessions.

`CHECK_DEADLOCK FALSE` is said where the system may stop: a session whose connection ended (*session*), a channel or a
connection that was closed (*stream*, *microphone*, *subscribing*), a room that used every session and object
the bound gives (*media*), a room in which all the events
of the bound have happened (*media_sessions*, *repeated_exit*).

The bounds that are not constants of the code are commented `bound:` where they are declared;
`Limit` stands for the 1024 frames of `SFU/signal/outbound.ts`, `Take` for the 200 rows of `onRoomFinished`, and
`CHANNEL_ROOM_LIMIT` for the rooms of a channel.

## Fairness

Weak fairness is assumed only of what the runtime, and in one run the Workers, will do by themselves;
never of people, clients or the network.

* `SignalServer`: timeouts that are armed and not cleared fire; a promise that was begun settles (token check, creation of a peer,
  signature); a connection the server closes ends, because `SFU/signal/session.ts` arms a kill timer.
  Nobody has to identify, answer or leave.
* `SignalSession`: the kill timer fires and a destroyed connection reports its close. The client need
  not read.
* `RoomRouters`: a Worker answers or refuses, and continuations run.
* `SignalStream`: timeouts fire, and the browser closes what it was told to close. Neither the
  network nor the server nor the token endpoint owes anything.

The other runs assume none: "in the end" is said there as what holds once all is quiet, or as a timeout or request that
is always on its way (`LostMediaOnItsWayBack`, `RenewalNeverStops`, `PublishIsAnswered`). Two liveness properties are
stated and in no run, since what they say is said of the composition by `DesertersLeaveRoster` and by
`NothingWaitsOnAnIdleSocket` with `KeepsStream`. `GraceEnds` of `PeerLiveness`, under its `Spec`: TLC finds no error with
two people, three connections, two pages and three timeouts. `EverythingArrives` of `OutboundQueue`, of a client that
keeps reading, under its `LiveSpec`: none with four critical frames, a limit of two, a chain of two and two keys of two
values.

## What is proved

`tlapm M.tla` for each of the eight modules of proofs; every theorem is for every value of the constants.

**`SignalServerProofs`**, of `PeerLiveness` from `LivenessAssumption` alone (the absent values are not values): `TypeCorrect`,
`CountdownsAreSound`, `NobodyIsLeftBehind` and `Implements` (`Spec => PeerPresence!Spec`). "A known peer
has a channel or a countdown" is not inductive: a step keeps it only if the handle the map holds is that
of a timeout which will fire for that very peer, and if a connection in the map is one whose close is
still to come. Hence

    Inv == TypeOK /\ ChannelsAreOpenConnections /\ NoOrphanCountdown
             /\ NoCountdownWhileReachable /\ NobodyLeftBehind

with one lemma per action, and one step of it per conjunct the action can disturb. The refinement maps
"in grace" to "has a countdown"; each action is shown to be a step of `PeerPresence` or a stutter, under Inv.

Of the server over it, from `ServerAssumption` (a connection is a signalling one or a presence socket, and has one person and one
page): `SessionsStaySound` (`SessionsAreSound`), `RosterStaysSound` (`RosterIsSound`), `NodeCountsSoundly` (`CountdownsAgree`),
`GoodbyesSpareOtherPages` and `NodeKeepsPromise` (`ServerSpec => PeerPresence!Spec`). Every step of the server is shown to be a step of
`PeerLiveness` or none, so the invariant of that module holds here as it stands, and the refinement with it. What is new is

    ServerInv == Inv /\ ServerTypeOK /\ ConnectionsAreSessions /\ OneSessionPerPeer /\ RoomSessionsAreOpen
                   /\ SessionIsHeard /\ NoGhostOnRoster /\ SocketPeersAreOnRoster

The two that are not in the runs carry it: a connection the liveness class waits for is a session or a socket of that very person, under
the label of its page (`ConnectionsAreSessions`), and the session that serves a person is one of its channels unless the server is closing it
(`SessionIsHeard`). A grace period that ends finds no session because of the second; and the second survives a goodbye only
because `OneSessionPerPeer` says whose goodbye it was.

**`SignalSessionProofs`**, of `OutboundQueue` from `QueueAssumption` (the limits are positive naturals): `QueueTypeCorrect`,
`BacklogBounded`, `NoLostWakeup` and `QueueKeepsStream` (`Spec => FrameStream!Spec`). What makes the
refinement inductive is the *shape* of the frames: the client holds 1..received, the pipe holds those from
received + 1 to the last that left the lane, in order, the lane holds the rest up to the last accepted;
and each volatile frame waiting is the newest of its key. `QueueInv` is that shape with the bound and the
wakeup (`Tidy`), the types of what the client holds, that it holds nothing newer than was sent, and that
a polite end leaves nothing in the pipe. Lemmas about the two lanes and the pipe (what `Append`, `Tail` and a filtered
sequence do to it) are stated once.

Of `SignalSession` over it, from `SessionAssumption` too (the bounds are naturals, there is a volatile key, the absent value is not a
request): `AnswersInTurn` (`AnsweredInTurn`), `EventsInPlace` (`EventsInTheirPlace`), `EndExplained` (`EndIsExplained`),
`SessionBacklogBounded`, `SessionNoLostWakeup`, and `SessionKeepsStream` (`SessionSpec => FrameStream!Spec`).

    SessionInv == QueueInv /\ SessionTypes /\ Control /\ Numbered /\ AnswersAreSound /\ EventsAreSound

`Numbered` says which requests are settled, served and waiting, and `AnswersAreSound` that the log answers the settled ones and no other.
`EventsAreSound` says that the log and, after it, the list of held events are together the events since the picture of the room, each once and in
order (`Gapless`). None of this holds of the whole log at all times: a queue that overflows in the middle of a flush is cut, its pump still empties, and it takes
what comes after the hole. So what is claimed of a connection that is cut is claimed of the part its client has, which no later frame can touch.
A step of the server does to the queue one of few things (`Grows`: it accepts, it is cut; and `Finish` after it), and they compose, so the queue's
invariant and the refinement are shown once for all of them (`Enlarged`, `HungUp`, `AdvancesMaps`), and the steps of the
chain below are steps of the queue's own specification. The flush of what was held is a recursive function over the list. That it ends in a log with the
answer and then all of the list is shown by the least index at which it would not (`Least`, from `WFMin` of the library), with the claim at each index kept
in a function of sets, since the induction theorems themselves cannot be used here.

**`RoomRoutersProofs`**, from `RoutersAssumption` (the absent value is not a value): `PeersStayOnOpenRouters`, `RoomsStaySound`,
`RoutersAreNeverLost` and `RoomStaysTogether`, the four invariants of *routers*. The invariant is said of one room, `Sound(room, rts, g)`, an
operator of the room and of the Routers as they are in the middle of a step, because one step may join, make a Router and settle another:

    MapsAgree /\ PromisesAreHeld /\ SomebodyWaits /\ PeersAreCounted /\ PrimaryIsThere /\ Together

the maps of the room and the state of every Router tell the same (`MapsAgree`), which is `NoRouterIsLost` made inductive; what somebody awaits
is there, if only to be found failed (`PromisesAreHeld`), and nothing is in the making but for somebody who waits (`SomebodyWaits`), which is why a room
that is closed closes it; a person is counted by the Router that serves them. `RoutersInv` adds that what the registry forgot is empty.

**`PeerMediaProofs`**, from `MediaAssumption` and from there being finitely many objects: `TracksStaySound`, `UnitsStayWhatIsForwarded`,
`PipesStayTheBridges` and `SubscribersStayHere`, the four invariants of *media*. The invariant is again of one room, `RoomInv(m)`: types, and what
holds of peers, transports, tracks, consumers, bridges, pipes and units (`PeersAreSound` to `UnitsAreSound`). A close is a cascade, so each operator of the model -
a set of bridges closed, of consumers, of tracks, of transports - is shown to keep `RoomInv` and to touch nothing
else, and an action is a chain of them. The load of a Worker is a sum over sets; it is counted weight by weight, by cardinality, because
that can be reasoned about where a fold cannot: what closes takes its weight along (`UnitsSplit`), what opens brings it
(`ProducerUnitsGrow` and its like), and what stays weighs the same.

**`BrowserProofs`**, of `SignalStream` from `StreamAssumption`: `StaysOnTheWayBack` (`AlwaysOnTheWayBack`) and `StaysQuiet` (`QuietOnceStopped`). `Sound(m)` is
of the fields of the class, and every method is shown to take sound fields to sound fields, also in the middle of another:

    Sound(m) == m \in Fields /\ NothingYet(m) /\ OnTheWay(m) /\ NobodyWaits(m) /\ AttemptsAreLeft(m)

`OnTheWay` alone is not inductive: a fall before the first `ready` stops the stream at its last attempt, so the attempts that are left belong to it.

Of `MediaSubscribing`, from `SubscribingAssumption` (the absent value is not a value, there are finitely many tracks, the bounds are positive):
`LostMediaComesBack` (`LostMediaOnItsWayBack`) and `StateIsTrue` (`StateTellsTheTruth`), also when the making of a consumer outlives its transport. The invariant is

    BasicInv == PathInv(conn, line) /\ srv \in Servers
    PathInv(m, l) == Steady(m, l) /\ LostIsOnItsWay(m, l)
    Steady(m, l) == Framed(m, l) /\ StateSound(m)
    Framed(m, l) == types /\ WellFormed(m, l) /\ ChannelSound(m, l) /\ OneSession(m, l) /\ PathSound(m)

Neither property is inductive: the answer that would bring a path back may be about a pair that was replaced - and then brings the session down again -
may be crossed by a session that is made again, or by a second answer. `OneSession` is that at most one request or answer is about a session being made, and
none while there is one; `PathSound` ties what is lost to how it was lost. `StateSound` is what the page shows, in two parts. `StateKept` says when it may show
"connected", and holds of the connection between any two calls of a method. The other, that a session whose paths are both fine (`AllFine`) does not go on
showing "reconnecting", is claimed only while no `handleReconnected` waits (`Settled`); each way for the last of them to end, and for the last path to come back,
looks at both paths (`Recovered`), which is what restores it. What concerns subscriptions alone (`Quiet`: `ensureConsumed`, `dropConsumer`,
`consume` and what follows it) is shown once to leave all of this alone, but for the attempts it appends.

Of `MediaSubscribing` with `~LateFailures`: `SubscriptionsStaySound` (`SubscriptionsAreSound`) and `CalmPagesHearAll` (`SubscribedWhenCalm`). The hypothesis
is that the making of a consumer does not fail after its transport closed; without it the first is false, as the next section
says. Below `BasicInv` stands a second invariant, of the map of subscriptions and of what the server has of them:

    SubsInv == Covered(conn) /\ \E f \in [Consumers -> Tracks \cup {Absent}] : Subs(f, conn, line, srv)
    Subs(f, m, l, s) == Shaped(m, l, s) /\ Booked(m, Way(m, l)) /\ Counted(m, Way(m, l)) /\ Released(m) /\ Held(m) /\ Awaited(m, Way(m, l))
                        /\ Tagged(f, m, l, s) /\ Resumable(m, l, s) /\ Agree(m, l, s) /\ RoomKnown(m, l, s) /\ News(m, l, s)

`Way(m, l)` is the messages with the requests behind them: what the page will hear of, in order. One attempt a track is on it or in the making
(`Booked`), and `consuming` is those (`Counted`), which is what makes `ensureConsumed` subscribe once. `f`, which no code
has, says whose track a consumer was made for: the server forgets at a fall what the page still holds (`Tagged`). What the server lost the page will
hear of (`Agree`, `RoomKnown`), and nothing is told of a track before its end was (`News`). `Covered` - every announced track has a consumer,
an attempt, a retry, or was given up - does not hold inside a method, so each is shown to restore it, nor while a `reconcile` waits for a
publication, so it is claimed of a session that is `Reconciled`; the end of that wait subscribes to what is missing. The hard step is `BackUp`: a session
that survives is compared to a connection that stayed ready, less what was lost on the way (`SurvivedKeeps`), one that does not begins from
nothing (`Released`). `SubsInv` was checked by TLC on the instance of *subscribing*, and by simulation with two tracks and three consumers,
before it was proved.

**`MicrophoneProofs`**, from `PublishingAssumption` (there is a rebuild timeout at least, the absent value is not a value): `NeverTwoMicrophones`
(`OneMicrophone`), `CalmPagesAgree` (`AgreeWhenCalm`) and `PublishesAreAnswered` (`PublishIsAnswered`), the three invariants of *microphone*.

    MicInv == TypeOK /\ Sound(conn) /\ Agrees(conn, srv) /\ ButtonWaits(ui, conn)
    Sound(m) == LineIsSound(m) /\ SentIsCarried(m) /\ SessionIsSound(m) /\ Waits(m) /\ Kept(m)

`OneMicrophone` counts the open producers; what makes it inductive is that the only one that may be open is the one of what is published
(`SentIsCarried`), which a production that comes back late respects because it was asked for what is still published, and nothing that is in line is carried already
(`LineIsSound`). `Agrees` is claimed while the session of the page is the server's (`sid`), so it says nothing when the server forgets, and must be found
again when the page rebuilds; `Waits` and `SessionIsSound` are why what is published is carried once nothing is under way. Each piece of code of
`MediaPublishing` is shown once to take a sound connection to a sound one that agrees with whatever server the first agreed with (`Follows`, which
composes), and an action is such a lemma cited. `MicInv` was checked by TLC on the instance of *microphone* before it was proved.

**`ApiProofs`**, of `MediaSessions` from `MediaSessionsAssumption`: `StaysStaySessions` (`StaysAreSessions`) and `NothingStaysOpen`
(`NothingOpenPastTheEnd`). Half of the work is about history alone, without the API: the entries and exits of one person alternate
(`HistoryMakesSense`), so the exit of a stay is before the next entry. The other half holds of events told in order: nobody handles an event before
those which precede it were answered (`InTurn`, `OneRecorder`), hence a session that is open when the exit of its stay is handled is that stay
(`SessionsFollow`), and the sweep closes what is open and older than the end (`AboutToClose`, for a sweep split at each of its updates).

Of `Catalog`, from `CatalogAssumption` and `NoneAssumption` (the absent value is not a value): `CatalogKeepsItsTypes`, and for any number of
requests that overlap in any way

    OwnersStayMembers       == CatalogSpec => OwnersStay
    RoomsStayInLiveChannels == CatalogSpec => RoomsStay

No step makes a row name an owner that is not a member as OWNER (`OwnerAway`), and none makes a room stand in a channel that was removed (`Astray`), but the
end of a request that passed its checks before that was so: a role or removal of somebody who became the owner since (`OwnerTakenLate`), a room added to a
channel that went since (`PutLate`). What makes this so is what a request that passed its checks is (`Fits`): the role it writes of the owner it read is
OWNER, and who it removes is not the owner it read. Each action is then compared with the owner, roles and places of the state
it is taken in, whatever happened since the request was taken up.

**`AccountsProofs`**, from `AccountsAssumption` (the absent value is not a value, a token is not an identity):
`GoogleOpensOnlyConfirmed` (`LinkedIsVerified`) and `RenewalGoesOn` (`RenewalNeverStops`). That a linked account is
confirmed is not inductive: the link is written on a row read earlier. What is needed is that a request of Google that has
decided to link is about an account confirmed *now*, which holds because nothing ever takes a confirmation back
(`Confirmed(account) => Confirmed(account')`, a conjunct of every step). Hence `Inv == LinkedIsVerified /\ CallsAreSound`.
`RenewalGoesOn` is inductive with types alone.

The same module then proves `RenewalIsSafe` (`RenewalIsNoReuse`). A renewal's token was replaced by nobody only if
no other request came with it; that, only if no other browser has the cookie and the page asks for one renewal at a
time; and that depends on what an answer under way will put in the cookie. Hence

    RInv == Owned /\ FreshNews /\ OneRenewal /\ AtGoogle /\ AnswersAreHeard /\ CleanPages /\ CleanRenewals

a token in the cookie of one browser and of its requests only (`Owned`); a token on its way nowhere else (`FreshNews`);
one renewal a page (`OneRenewal`); nobody at Google waits for anything else (`AtGoogle`); the cookie of a page that lost no answer, and the token
of its renewal, not replaced and in no other renewal (`CleanPages`, `CleanRenewals`). The parts are operators of the requests,
tokens and pages they read, so that a step that changes two of them is taken in two turns: some twenty lemmas say what a kind of change
(a request goes on, a token is issued, an answer is heard, a page asks) keeps, and each action is a chain of them.
`RInv` was checked by TLC on the instance of *accounts* and by simulation on a larger one before it was proved.

Not proved, only model-checked: liveness under fairness, which is out of the prover's reach (`ClosesInTheEnd`, `JoinsSettle`, `PromisesSettle`,
`DesertersLeaveRoster`). Every invariant and action property of the passing runs is stated by a theorem.

## What the models show about the code

Most of what the code says of itself holds. Two statements that do not have a run that shows how:

* `NobodyStranded` (*stranded_peer*). A leave or a kick while `createPeer` waits for a Router does not see
  the creation; the peer enters the room afterwards with no channel and no countdown (`SFU/rooms.ts:692`).
* `NaturallyIdempotent` (*repeated_exit*). LiveKit delivers an exit again because it did not hear the answer; meanwhile its person came
  back, and the second delivery closes the session of the new stay, with a leftAt before its joinedAt and no
  minutes (`API/livekit/livekit.service.ts:132`, against its comment at line 22).

More that do not are stated in the modules and have no run; to see how, add the name to the `.cfg`:

* `ClosingConnectionServesNothing` (`SignalServer.cfg`, INVARIANT). `identify` looks after its awaits at `closed` and
  not at `closing`: a connection timed out during an await still replaces a healthy session
  (`SFU/signal/server.ts:150`).
* `OpeningEnds` (`SignalStream.cfg`, PROPERTY). After two calls of `restart()` the connect timeout finds the state
  `ready` and leaves a WebSocket opening for ever (`WEB/lib/signalStream.ts:192`).
* `ButtonTellsTheTruth` (`Microphone.cfg`, INVARIANT). A publication that cannot be brought back is undone
  (`WEB/hooks/mediasoup/mediasoupConnection.ts:1032`), but the button shows what was clicked, and goes on
  showing the microphone open.
* `SubscriptionsAreSound` with `LateFailures = TRUE` (`MediaSubscribing.cfg`). Should the making of a consumer fail long after
  its transport closed, its `finally` forgets the subscription of a later session, and one track gets two consumers
  (`WEB/hooks/mediasoup/mediasoupConnection.ts:1145`).
* `OneOwner` (`Catalog.cfg`, INVARIANT). `create` makes an OWNER beside the owner that a removed row still had, and an adoption one beside
  the OWNER rows that survived (`API/rooms/rooms.service.ts:187`, against "com dono novo e sem os membros antigos").
* `LimitOfRooms` and `PlacesOfTheirOwn` (`Catalog.cfg` with `Rooms = {r1, r2}`, INVARIANT). A removed room keeps its channel and position and comes back over the limit; a
  room taken out leaves a gap, so that the next one added takes a position that is held (`API/channels/channels.service.ts:388`).
* `FailureIsTakenBack` (`MediaSubscribing.cfg`, INVARIANT). A sending path that fails before media flowed shows as failed
  (`WEB/hooks/mediasoup/mediasoupConnection.ts:810`), and goes on showing so after both paths connect, since line 781 looks for 'reconnecting' only.

What a late request may do is in `OwnersStay` and `RoomsStay` as their exception, and the run *catalog* reaches both: a removal that was taken up while a room
had no owner ends after that person adopted it; a room that was counted in is put in a channel that has just gone.

Smaller things met while modelling, modelled as they are. In the node and the browser's media session:

* the peer may be removed during the signature of the resume token; the session is registered all the same
  and its requests answer `not_found` until `createTransport` makes the peer again (`SFU/signal/server.ts:135`);
* `resetPeerMedia` keeps the session identifier of a peer with no transport, so the first transport of a
  replaced page can enter the session of its successor (`SFU/rooms.ts:335`, 727);
* events held during a request are not counted by the limit of the queue until they are let go (`SFU/signal/session.ts:81`);
* a final code that crosses the browser's own close before the first `ready` leaves `start()` pending; the
  owner is told through `onFinalClose` instead;
* a primary Router whose Worker is saturated when its promise settles stays open with nobody on it, although
  "Router sem ninguém é fechado na hora" (`SFU/rooms.ts:746`, 887);
* `unsupported` in a reconnection ends the channel without telling its owner (`WEB/lib/signalStream.ts:302`);
* a `publish()` that succeeds after its timeout leaves a publication whose track was stopped: the button is
  off, pressing it does nothing because a microphone seems to be on, and a capture that a change of device
  asked for much earlier may still be put on it, live, with the button off;
* a connection that ends while `replaceTrack` waits stops the new capture and not the old one, which the
  button loses at the next capture (`WEB/hooks/mediasoup/mediasoupConnection.ts:886`);
* a `closeProducer` under way when the channel falls is swallowed, and `reconcile` closes nothing that the
  server has in excess (`WEB/hooks/mediasoup/mediasoupConnection.ts:609`);
* a `restartIce` that waited for the channel is answered `not_found` when its transport was replaced meanwhile, and brings down the session made
  since, which nothing is wrong with (`WEB/hooks/mediasoup/mediasoupConnection.ts:848`);
* a `reconcile` that goes on over a session made since closes the producer of the next publication before it looks at the epoch
  (`WEB/hooks/mediasoup/mediasoupConnection.ts:619`); it takes two publications, and the one of `MediaPublishing` is the microphone;
* the timeout that asks for a rebuild is not cancelled by a reconnection that succeeded meanwhile;
* `needFreshToken` is used up before `getToken` answers; a failure costs a refused attempt.

In the catalog: `reorderRooms` compares lengths and membership, so a list that names a room twice passes, and the room it leaves out keeps its old
position, against "precisa ser EXATAMENTE o conjunto de salas do canal" (`API/channels/channels.service.ts:476`, 473).

In the accounts:

* any revoked token that is presented revokes every session, not only one that was replaced, sessions made since included;
* a page loaded again during its renewal, a second tab, or an answer that was lost make the page's own token look like a
  copy (`API/auth/auth.service.ts:531`): what is proved is said of a page that lost no answer;
* a login or a renewal under way survives a password reset or a suspension that falls between its read and its write;
* signing out during a renewal leaves the person signed in, by the token the renewal brings;
* a renewal of the first load that fails clears the cookie that a login has set meanwhile;
* a refused fetch whose renewal fails leaves the page showing somebody signed in until the timeout.

In the sessions of LiveKit:

* any failure of the creation is taken for the collision of a repeated delivery and answered 200, so LiveKit does not
  deliver again and the stay is never counted (`API/livekit/livekit.service.ts:112`); `StaysAreSessions` speaks of entries that were handled;
* an exit that comes before its entry finds nothing, and the session stays open until the end of the room; an entry that comes after the end of
  the room opens one that nothing closes, and so does the 201st of a room that lost its exits (`take: 200`);
* a request that ends between the creation and the record leaves an entry that the activity of the room never shows.

Read in the code while looking at what is not modelled:

* `assertPresent` (`API/admin/mediasoup-moderation.service.ts:226`) looks for a row renewed in the last 20 seconds, and nothing renews it
  after the entry (`API/mediasoup/mediasoup.service.ts:229`, "que ninguém mais renova"): to mute, move or remove somebody who has been in
  the room for longer is answered "Essa pessoa não está mais na sala.", and `removeRoom` stops at the first;
* nothing reads a saved `adminCommand` on a reconnection, which `API/mediasoup/mediasoup-sfu.client.ts:200` counts on;
* `nodeFor` may split a room: over a node that did not answer, a list of nodes that changed while a room was empty, or an
  assignment told to somebody who has not connected yet (`API/mediasoup/mediasoup-sfu.client.ts:90`).

## What is not modelled

* What a Worker does with packets, and WebRTC itself: external. `connectTransport`, `restartIce`,
  `pause`/`resumeConsumer` pass a call on and change no state of the node.
* The choice among Workers by score: any choice `leastLoaded` allows is in the model.
* Administrators' presence sockets, chat relay, read-only routes: no state the others read.
* Payloads, codecs, logging, metrics, HTTP parsing; the delays themselves (a timeout may fire at any moment).
* Rendering, styling, audio processing, LiveKit's client: no protocol of this repository, or another's.
* The HTTP path of media, which no page of this version takes.
* Routes that read, and single writes of one row: profiles, layouts, sounds, logs, metrics. Names, visibility and limits
  of rate of the routes that are modelled.
* The choice of an SFU node, moderation and chat by polling of `API/mediasoup`: see the plan. `PROJECT.json` gives the reason for every part.

## Plan

What is left, in order of what it is worth:

1. **`NodePlacement`** (`API/mediasoup/mediasoup-sfu.client.ts`, `node-ring.ts`, `API/admin/mediasoup-moderation.service.ts`): a room is on one node
   while nodes fail and the list changes; whoever is there can be moderated.
2. Cameras and screen shares beside the microphone (`WEB/hooks/mediasoup/`), over `MediaPublishing`: a second publication is what a stale `reconcile` hurts.
3. `WEB/hooks/useRoomMessages`, `useKeysetList`, `useSoundPlayer`: pages and sounds that arrive after what asked for them was left.
4. Liveness of `MediaPublishing` and `MediaSubscribing`: what one publishes is on the air in the end or given up, if the
   channel stays.
