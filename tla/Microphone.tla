----------------------------- MODULE Microphone -----------------------------
(***************************************************************************)
(* apps/web/src/hooks/mediasoup/useMediasoupTalkControls.ts: the button of *)
(* the microphone, over the connection of MediaPublishing.                 *)
(*                                                                         *)
(* The button shows what the person wants; `apply` brings the connection   *)
(* there, one thing at a time, and looks again when it is done.  A change  *)
(* of device captures again and replaces the track on the air.             *)
(*                                                                         *)
(* What a settled promise of publish() makes the page do comes before any  *)
(* other event, as continuations do.  The page is the pair s of the        *)
(* connection m and the controls u.                                        *)
(***************************************************************************)
EXTENDS MediaPublishing, FiniteSets

VARIABLES
    ui      \* the refs of the hook, see NewControls

vars == <<conn, srv, ui>>

NewControls ==
    [desired   |-> FALSE,   \* desiredRef, and isMicOn
     busy      |-> "no",    \* busyRef, and what apply waits for
     stream    |-> None,    \* micStreamRef
     awaited   |-> None,    \* the publication whose publish() apply awaits
     recapture |-> "no",    \* where the recapture under way is
     replacing |-> [producer |-> None, track |-> None]]

Init ==
    /\ conn = NewConnection
    /\ srv = NewServer
    /\ ui = NewControls

Page == [m |-> conn, u |-> ui]
Becomes(s) == conn' = s.m /\ ui' = s.u /\ UNCHANGED srv

\* isMicEnabledNow
Enabled(m) == m.mic # None /\ m.pubs[m.mic].handle # None

StopStream(s) == [s EXCEPT !.m.live = @ \ {s.u.stream}, !.u.stream = None]

\* apply, when nothing is under way.
Apply(s) ==
    IF Enabled(s.m) = s.u.desired THEN s
    ELSE IF s.u.desired THEN [s EXCEPT !.u.busy = "capturing"]
    ELSE StopStream([s EXCEPT !.m = Unpublish(@)])

\* finish
Finish(s) == Apply([s EXCEPT !.u.busy = "no", !.u.awaited = None])

\* The catch of apply: the button goes back and the captured track stops.
Failed(s) == Finish(StopStream([s EXCEPT !.u.desired = FALSE]))

\* The button is clicked; the space bar goes down or up; the window loses focus.
Want(next) ==
    LET s == [Page EXCEPT !.u.desired = next]
    IN  Becomes(IF ui.busy = "no" THEN Apply(s) ELSE s)

FreshTrack(c) ==
    /\ c \notin conn.live \cup {ui.stream, ui.replacing.track}
    /\ \A p \in Publications : conn.mic = p => conn.pubs[p].track # c
    /\ \A i \in DOMAIN conn.line : conn.line[i].track # c
    /\ \A x \in Producers : conn.sent[x] # c

FreshPublication(p) ==
    /\ conn.mic # p
    /\ conn.promise[p] = "none"
    /\ conn.pubs[p].loop = "none"
    /\ \A i \in DOMAIN conn.line : conn.line[i].pub # p

\* getUserMedia answers, and publish() is called.
Captured(c, p) ==
    /\ ui.busy = "capturing"
    /\ FreshTrack(c)
    /\ FreshPublication(p)
    /\ LET s == [Page EXCEPT !.m.live = @ \cup {c}, !.u.stream = c]
       IN  Becomes(IF conn.send = None THEN Failed(s)
                   ELSE [s EXCEPT !.m = Publish(@, p, c),
                                  !.u.busy = "publishing", !.u.awaited = p])

CaptureRefused ==
    /\ ui.busy = "capturing"
    /\ Becomes(Failed(Page))

\* withPublishTimeout: apply stops waiting, and publish() goes on alone.
PublishTimeout ==
    /\ ui.busy = "publishing"
    /\ Becomes(Failed(Page))

\* The promise of publish() settled, under apply or after it gave up.
PublishSettles(p) ==
    /\ conn.promise[p] \in {"ok", "failed"}
    /\ LET s == [Page EXCEPT !.m.promise[p] = "none"]
       IN  Becomes(IF ui.awaited # p THEN s
                   ELSE IF conn.promise[p] = "ok" THEN Finish(s) ELSE Failed(s))

\* The device or its treatment changed: a new capture is asked for.
RecaptureStarts ==
    /\ ui.recapture = "no"
    /\ ui.busy = "no"
    /\ Enabled(conn)
    /\ ui.stream # None
    /\ Becomes([Page EXCEPT !.u.recapture = "capturing"])

RecaptureRefused ==
    /\ ui.recapture = "capturing"
    /\ Becomes([Page EXCEPT !.u.recapture = "no"])

\* replaceTrack said true: the old capture stops.
Replaced(s, c) ==
    LET t == StopStream(s)
    IN  [t EXCEPT !.u.stream = c, !.u.recapture = "no",
                  !.u.replacing = [producer |-> None, track |-> None]]

\* The new capture is there: replaceTrack, up to its await if it has one.
Recaptured(c) ==
    /\ ui.recapture = "capturing"
    /\ FreshTrack(c)
    /\ IF ~Enabled(conn)
       THEN Becomes([Page EXCEPT !.u.recapture = "no"])
       ELSE LET p == conn.mic
                x == conn.pubs[p].producer
                s == [Page EXCEPT !.m.live = @ \cup {c}, !.m.pubs[p].track = c]
            IN  Becomes(IF x = None THEN Replaced(s, c)
                        ELSE [s EXCEPT !.u.recapture = "replacing",
                                       !.u.replacing = [producer |-> x, track |-> c]])

\* The producer took the new track, or was closed meanwhile and replaceTrack
\* rejects.
ReplaceEnds ==
    /\ ui.recapture = "replacing"
    /\ LET x == ui.replacing.producer
           c == ui.replacing.track
       IN  Becomes(IF conn.sent[x] # None
                   THEN Replaced([Page EXCEPT !.m.sent[x] = c], c)
                   ELSE [Page EXCEPT !.u.recapture = "no",
                             !.u.replacing = [producer |-> None, track |-> None]])

Settled == \E p \in Publications : conn.promise[p] \in {"ok", "failed"}

Channel ==
    \/ ChannelOpens \/ ChannelFalls \/ ServerForgets \/ ChannelReturns
    \/ CapabilitiesSet \/ TransportsCreated \/ SessionRefused \/ RebuildTimeout
    \/ \E t \in Transports : ServerMakesTransport(t)
    \/ ConnectionEnds

Production ==
    \/ ProduceAsked \/ ProduceReturns \/ ProduceFails
    \/ \E x \in Producers :
           \/ x # ui.replacing.producer /\ ServerProduces(x)
           \/ ServerClosesProducer(x) \/ CloseWaitsInVain(x)
    \/ \E p \in Publications : RestEnds(p)

Controls ==
    \/ \E next \in BOOLEAN : Want(next)
    \/ CaptureRefused \/ PublishTimeout
    \/ \E c \in Captures, p \in Publications : Captured(c, p)
    \/ RecaptureStarts \/ RecaptureRefused \/ ReplaceEnds
    \/ \E c \in Captures : Recaptured(c)

Next ==
    \/ \E p \in Publications : PublishSettles(p)
    \/ ~Settled /\ (Channel \/ Production) /\ UNCHANGED ui
    \/ ~Settled /\ Controls

Spec == Init /\ [][Next]_vars

-----------------------------------------------------------------------------

PublicationRecords ==
    [track : Captures \cup {None}, producer : Producers \cup {None},
     handle : Producers \cup {None}, loop : {"none", "trying", "resting"},
     tries : 0..2]

Productions ==
    [pub : Publications, track : Captures, stage : {"queued", "asked", "made"},
     producer : Producers \cup {None}, loop : BOOLEAN]

Connections ==
    [alive   : BOOLEAN,
     channel : {"opening", "ready", "reconnecting", "closed"},
     sid     : BOOLEAN,
     send    : Transports \cup {None},
     build   : {"none", "caps", "asking", "made"},
     first   : BOOLEAN,
     timers  : 0..MaxTimers,
     mic     : Publications \cup {None},
     pubs    : [Publications -> PublicationRecords],
     line    : Seq(Productions),
     sent    : [Producers -> Captures \cup {None}],
     closes  : [Producers -> {"no", "waiting", "asked"}],
     promise : [Publications -> {"none", "pending", "ok", "failed"}],
     live    : SUBSET Captures]

Servers == [transport : Transports \cup {None}, onAir : Producers \cup {None}]

Buttons ==
    [desired : BOOLEAN, busy : {"no", "capturing", "publishing"},
     stream : Captures \cup {None}, awaited : Publications \cup {None},
     recapture : {"no", "capturing", "replacing"},
     replacing : [producer : Producers \cup {None}, track : Captures \cup {None}]]

TypeOK == conn \in Connections /\ srv \in Servers /\ ui \in Buttons

\* publish, mediasoupConnection.ts:334-338: however fast the clicks, the page
\* never has two microphones open at once.
OneMicrophone ==
    TypeOK /\ Cardinality({x \in Producers : conn.sent[x] # None}) <= 1

\* Nothing is under way between the page and the server.
Calm ==
    /\ Ready
    /\ conn.build = "none"
    /\ conn.timers = 0
    /\ conn.line = <<>>
    /\ \A p \in Publications : conn.pubs[p].loop = "none"
    /\ \A x \in Producers : conn.closes[x] = "no"

\* handleReconnected, mediasoupConnection.ts:573-578: whatever was lost while
\* the channel was down, once it is back and all is quiet the server has the
\* producer of what is published, on the transport the page has.
AgreeWhenCalm ==
    Calm /\ conn.mic # None =>
        /\ conn.send = srv.transport
        /\ conn.pubs[conn.mic].producer # None
        /\ conn.pubs[conn.mic].producer = srv.onAir
        /\ conn.sent[srv.onAir] # None

\* apply, useMediasoupTalkControls.ts:149-175: the button never waits for a
\* publish() that nothing will end but its timeout.  Whatever became of the
\* transport or of the publication meanwhile, the promise is settled or its
\* production is in line.
PublishIsAnswered ==
    ui.busy = "publishing" =>
        LET p == ui.awaited
        IN  \/ conn.promise[p] \in {"ok", "failed"}
            \/ /\ conn.promise[p] = "pending"
               /\ \E i \in DOMAIN conn.line : conn.line[i].pub = p /\ ~conn.line[i].loop

\* mediasoupConnection.ts:1010-1012: "Deixar a entrada la sem producer seria o
\* pior resultado possivel: o botao mostrando o microfone aberto e ninguem
\* ouvindo".  With nothing under way, a button that shows the microphone open
\* has a publication behind it.
ButtonTellsTheTruth ==
    Calm /\ ui.busy = "no" /\ ui.desired => conn.mic # None

=============================================================================
