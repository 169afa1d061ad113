-------------------------- MODULE MicrophoneProofs --------------------------
(***************************************************************************)
(* Proofs about Microphone, for any tracks, publications, transports,      *)
(* producers and number of rebuild timeouts.                               *)
(*                                                                         *)
(* MicInv is what makes the three properties of Microphone inductive.  It  *)
(* has a part about the page alone, Sound, a part about the page and what  *)
(* the server has of it, Agrees, and one about what the button waits for.  *)
(* The pieces of code of MediaPublishing are functions of a connection, so *)
(* each has its lemma: from a sound connection it leaves a sound one that  *)
(* agrees with whatever server the first agreed with, and settles promises *)
(* but forgets none (Follows).  An action is then a lemma cited, together  *)
(* with what it does to the server or to the button.                       *)
(***************************************************************************)
EXTENDS Microphone, SequenceTheorems, FiniteSetTheorems, TLAPS

\* A production of p is in line.
Waiting(m, p) == \E i \in 1..Len(m.line) : m.line[i].pub = p

\* What the page publishes has its producer.
Carried(m) == m.mic # None /\ m.pubs[m.mic].producer # None

\* No publication is in line twice, and the published one is last; only the
\* head has left the page, while the channel is up, and has a producer once the
\* server made it; nothing is in line behind a publication that is carried.
LineIsSound(m) ==
    /\ \A i, j \in 1..Len(m.line) : m.line[i].pub = m.line[j].pub => i = j
    /\ \A i \in 1..Len(m.line) :
           /\ m.line[i].pub = m.mic => i = Len(m.line)
           /\ i > 1 \/ m.channel # "ready" => m.line[i].stage = "queued"
           /\ m.line[i].stage = "made" <=> m.line[i].producer # None
           /\ m.pubs[m.line[i].pub].loop # "resting"
    /\ Carried(m) => Len(m.line) = 0

\* The only open producer is the one of what is published, and a producer that
\* the server was asked to close is nobody's.
SentIsCarried(m) ==
    /\ \A x \in Producers : m.sent[x] # None => m.mic # None /\ m.pubs[m.mic].producer = x
    /\ Carried(m) => m.sent[m.pubs[m.mic].producer] # None
    /\ \A x \in Producers : m.closes[x] # "no" =>
           /\ m.mic # None => m.pubs[m.mic].producer # x
           /\ \A i \in 1..Len(m.line) : m.line[i].producer # x

\* Without a transport nothing is produced, and a page that publishes is on its
\* way to one.
SessionIsSound(m) ==
    /\ m.channel = "opening" => m.send = None /\ m.first
    /\ m.build # "none" => m.send = None
    /\ m.send = None => Len(m.line) = 0 /\ ~Carried(m) /\ (m.first => m.mic = None)
    /\ m.mic # None /\ m.send = None =>
           m.build # "none" \/ m.timers # 0 \/ m.channel # "ready"
    /\ m.channel = "ready" => m.sid
    /\ ~m.alive => m.channel = "closed"

\* On a transport, what is published and not carried is in line, or the loop of
\* republish rests and will put it there.
Waits(m) ==
    /\ m.mic # None /\ m.pubs[m.mic].producer = None /\ m.send # None =>
           Waiting(m, m.mic) \/ m.pubs[m.mic].loop = "resting"
    /\ m.mic # None /\ m.pubs[m.mic].loop = "resting" => m.pubs[m.mic].producer = None

\* The production of a publish() whose promise is pending.
Answering(m, p) == \E i \in 1..Len(m.line) : m.line[i].pub = p /\ ~m.line[i].loop

Kept(m) == \A p \in Publications : m.promise[p] = "pending" => Answering(m, p)

Sound(m) ==
    /\ LineIsSound(m) /\ SentIsCarried(m) /\ SessionIsSound(m)
    /\ Waits(m) /\ Kept(m)

\* As long as the server has the session, it has what the page has in it.
Agrees(m, s) ==
    m.sid =>
        /\ m.send # None => m.send = s.transport
        /\ m.build = "made" => s.transport # None
        /\ Carried(m) => s.onAir = m.pubs[m.mic].producer
        /\ \A i \in 1..Len(m.line) :
               m.line[i].stage = "made" /\ m.line[i].pub = m.mic =>
                   s.onAir = m.line[i].producer

ButtonWaits(u, m) ==
    /\ u.busy = "publishing" => u.awaited # None /\ m.promise[u.awaited] # "none"
    /\ u.recapture = "replacing" => u.replacing.producer # None /\ u.replacing.track # None

MicInv ==
    /\ TypeOK
    /\ Sound(conn) /\ Agrees(conn, srv) /\ ButtonWaits(ui, conn)

\* n is what a piece of code may leave of m.
Follows(m, n) ==
    /\ n \in Connections
    /\ Sound(n)
    /\ \A s : Agrees(m, s) => Agrees(n, s)
    /\ \A p \in Publications : m.promise[p] # "none" => n.promise[p] # "none"

\* What no piece of the publishing touches.
SameSession(m, n) ==
    /\ n.alive = m.alive /\ n.channel = m.channel /\ n.sid = m.sid /\ n.send = m.send
    /\ n.build = m.build /\ n.first = m.first /\ n.timers = m.timers

-----------------------------------------------------------------------------
(* The data.                                                               *)

LEMMA NoneApart ==
    /\ None \notin Captures
    /\ None \notin Publications
    /\ None \notin Transports
    /\ None \notin Producers
  BY PublishingAssumption, Zenon DEF PublishingAssumption

\* A record of publications with one field of one changed.
LEMMA PubsTyped ==
    ASSUME NEW f \in [Publications -> PublicationRecords], NEW p \in Publications
    PROVE  /\ \A x \in Producers \cup {None} :
                  [f EXCEPT ![p].producer = x] \in [Publications -> PublicationRecords]
           /\ \A c \in Captures \cup {None} :
                  [f EXCEPT ![p].track = c] \in [Publications -> PublicationRecords]
           /\ \A k \in {"none", "trying", "resting"} :
                  [f EXCEPT ![p].loop = k] \in [Publications -> PublicationRecords]
  BY DEF PublicationRecords

\* The fields of a connection.
LEMMA Fields ==
    ASSUME NEW m \in Connections
    PROVE  /\ m.alive \in BOOLEAN /\ m.sid \in BOOLEAN /\ m.first \in BOOLEAN
           /\ m.channel \in {"opening", "ready", "reconnecting", "closed"}
           /\ m.send \in Transports \cup {None}
           /\ m.build \in {"none", "caps", "asking", "made"}
           /\ m.timers \in 0..MaxTimers
           /\ m.mic \in Publications \cup {None}
           /\ m.pubs \in [Publications -> PublicationRecords]
           /\ m.line \in Seq(Productions)
           /\ m.sent \in [Producers -> Captures \cup {None}]
           /\ m.closes \in [Producers -> {"no", "waiting", "asked"}]
           /\ m.promise \in [Publications -> {"none", "pending", "ok", "failed"}]
           /\ m.live \in SUBSET Captures
  BY DEF Connections

LEMMA PubFields ==
    ASSUME NEW m \in Connections, NEW p \in Publications
    PROVE  /\ m.pubs[p] \in PublicationRecords
           /\ m.pubs[p].track \in Captures \cup {None}
           /\ m.pubs[p].producer \in Producers \cup {None}
           /\ m.pubs[p].loop \in {"none", "trying", "resting"}
           /\ m.pubs[p].tries \in 0..2
  BY DEF Connections, PublicationRecords

LEMMA LineFields ==
    ASSUME NEW m \in Connections
    PROVE  /\ Len(m.line) \in Nat
           /\ DOMAIN m.line = 1..Len(m.line)
           /\ m.line = <<>> <=> Len(m.line) = 0
           /\ \A i \in 1..Len(m.line) :
                  /\ m.line[i] \in Productions
                  /\ m.line[i].pub \in Publications /\ m.line[i].track \in Captures
                  /\ m.line[i].stage \in {"queued", "asked", "made"}
                  /\ m.line[i].producer \in Producers \cup {None}
                  /\ m.line[i].loop \in BOOLEAN
  <1>1. m.line \in Seq(Productions)
    BY DEF Connections
  <1>2. Len(m.line) \in Nat /\ DOMAIN m.line = 1..Len(m.line)
    BY <1>1
  <1>3. m.line = <<>> <=> Len(m.line) = 0
    BY <1>1, EmptySeq
  <1>4. \A i \in 1..Len(m.line) : m.line[i] \in Productions
    BY <1>1, ElementOfSeq
  <1> QED  BY <1>2, <1>3, <1>4 DEF Productions

LEMMA FollowsTransitive ==
    ASSUME NEW a, NEW b, NEW c, Follows(a, b), Follows(b, c)
    PROVE  Follows(a, c)
  BY DEF Follows

-----------------------------------------------------------------------------
(* Productions.                                                            *)

\* A closeProducer changes nothing but the requests of its producer.
LEMMA Closing ==
    ASSUME NEW m \in Connections, NEW x \in Producers,
           NEW n, n = CloseServerProducer(m, x)
    PROVE  /\ n \in Connections /\ SameSession(m, n)
           /\ n.mic = m.mic /\ n.pubs = m.pubs /\ n.line = m.line /\ n.sent = m.sent
           /\ n.promise = m.promise /\ n.live = m.live
           /\ \A y \in Producers : y # x => n.closes[y] = m.closes[y]
  BY DEF CloseServerProducer, Connections, SameSession

LEMMA Retiring ==
    ASSUME NEW m \in Connections, NEW p \in Publications, NEW stop \in BOOLEAN,
           NEW n, n = Retire(m, p, stop)
    PROVE  /\ n \in Connections /\ SameSession(m, n)
           /\ n.mic = m.mic /\ n.line = m.line /\ n.promise = m.promise
           /\ n.pubs[p].producer = None /\ n.pubs[p].loop = m.pubs[p].loop
           /\ \A q \in Publications : q # p => n.pubs[q] = m.pubs[q]
           /\ \A y \in Producers : y # m.pubs[p].producer =>
                  n.sent[y] = m.sent[y] /\ n.closes[y] = m.closes[y]
           /\ \A y \in Producers : y = m.pubs[p].producer => n.sent[y] = None
  <1> DEFINE x == m.pubs[p].producer
             g == [m.pubs EXCEPT ![p].producer = None]
             l == IF stop THEN m.live \ {m.pubs[p].track} ELSE m.live
             a == [m EXCEPT !.pubs = g, !.live = l]
             b == [a EXCEPT !.sent[x] = None]
  <1>1. /\ g \in [Publications -> PublicationRecords]
        /\ g[p].producer = None /\ g[p].loop = m.pubs[p].loop
        /\ \A q \in Publications : q # p => g[q] = m.pubs[q]
    <2>1. m.pubs \in [Publications -> PublicationRecords]
      BY Fields
    <2>2. g \in [Publications -> PublicationRecords]
      BY <2>1, PubsTyped
    <2> QED  BY <2>1, <2>2 DEF PublicationRecords
  <1>2. l \in SUBSET Captures
    BY Fields
  <1>3. x \in Producers \cup {None}
    BY PubFields
  <1>4. n = IF x = None THEN a ELSE CloseServerProducer(b, x)
    BY DEF Retire
  <1> HIDE DEF g, l
  <1>5. /\ a \in Connections /\ SameSession(m, a)
        /\ a.mic = m.mic /\ a.line = m.line /\ a.promise = m.promise
        /\ a.pubs = g /\ a.sent = m.sent /\ a.closes = m.closes
    BY <1>1, <1>2 DEF Connections, SameSession
  <1> HIDE DEF a
  <1>6. CASE x = None
    BY <1>1, <1>4, <1>5, <1>6, NoneApart
  <1>7. CASE x # None
    <2>1. /\ b \in Connections /\ SameSession(a, b)
          /\ b.mic = a.mic /\ b.line = a.line /\ b.promise = a.promise
          /\ b.pubs = a.pubs /\ b.closes = a.closes
          /\ b.sent[x] = None /\ \A y \in Producers : y # x => b.sent[y] = a.sent[y]
      BY <1>3, <1>5, <1>7 DEF Connections, SameSession
    <2> HIDE DEF b, x
    <2>2. n = CloseServerProducer(b, x) /\ x \in Producers
      BY <1>3, <1>4, <1>7
    <2>3. /\ n \in Connections /\ SameSession(b, n)
          /\ n.mic = b.mic /\ n.pubs = b.pubs /\ n.line = b.line /\ n.sent = b.sent
          /\ n.promise = b.promise
          /\ \A y \in Producers : y # x => n.closes[y] = b.closes[y]
      BY <2>1, <2>2, Closing
    <2> QED  BY <1>1, <1>5, <2>1, <2>3 DEF SameSession, x
  <1> QED  BY <1>6, <1>7

\* Unpublish leaves the page without a producer.
LEMMA Unpublishing ==
    ASSUME NEW m \in Connections, Sound(m), m.mic # None,
           NEW n, n = Unpublish(m)
    PROVE  Follows(m, n)
  <1> DEFINE a == [m EXCEPT !.mic = None]
             p == m.mic
             x == m.pubs[p].producer
  <1>1. p \in Publications
    BY Fields
  <1>2. /\ a \in Connections /\ SameSession(m, a)
        /\ a.mic = None /\ a.pubs = m.pubs /\ a.line = m.line /\ a.sent = m.sent
        /\ a.closes = m.closes /\ a.promise = m.promise
    BY DEF Connections, SameSession
  <1>3. n = Retire(a, p, TRUE)
    BY DEF Unpublish
  <1> HIDE DEF a
  <1>4. /\ n \in Connections /\ SameSession(a, n)
        /\ n.mic = a.mic /\ n.line = a.line /\ n.promise = a.promise
        /\ n.pubs[p].producer = None /\ n.pubs[p].loop = a.pubs[p].loop
        /\ \A q \in Publications : q # p => n.pubs[q] = a.pubs[q]
        /\ \A y \in Producers : y # a.pubs[p].producer =>
               n.sent[y] = a.sent[y] /\ n.closes[y] = a.closes[y]
        /\ \A y \in Producers : y = a.pubs[p].producer => n.sent[y] = None
    <2> HIDE DEF p, x
    <2>1. PICK stop \in BOOLEAN : n = Retire(a, p, stop)
      BY <1>3, Zenon
    <2>2. stop \in BOOLEAN
      OBVIOUS
    <2> QED  BY ONLY <1>1, <1>2, <2>1, <2>2, Retiring
  <1>5. /\ n \in Connections /\ SameSession(m, n)
        /\ n.mic = None /\ n.line = m.line /\ n.promise = m.promise
        /\ \A q \in Publications : n.pubs[q].loop = m.pubs[q].loop
        /\ \A y \in Producers : y # x => n.sent[y] = m.sent[y] /\ n.closes[y] = m.closes[y]
        /\ \A y \in Producers : y = x => n.sent[y] = None
    BY <1>2, <1>4 DEF SameSession
  <1>6. ~Carried(n)
    BY <1>5 DEF Carried
  <1>7. \A i \in 1..Len(m.line) : m.line[i].pub \in Publications
    BY LineFields
  <1>8. LineIsSound(n)
    BY <1>5, <1>6, <1>7, NoneApart DEF LineIsSound, Sound, SameSession
  <1>9. SentIsCarried(n)
    <2>1. \A y \in Producers : n.sent[y] = None
      BY <1>5 DEF Sound, SentIsCarried
    <2>2. ASSUME NEW y \in Producers, n.closes[y] # "no", NEW i \in 1..Len(n.line)
          PROVE  n.line[i].producer # y
      <3>1. CASE y # x
        BY <1>5, <2>2, <3>1 DEF Sound, SentIsCarried
      <3>2. CASE y = x
        BY <1>5, <2>2, <3>2, LineFields, NoneApart DEF Sound, LineIsSound, Carried
      <3> QED  BY <3>1, <3>2
    <2> QED  BY <1>5, <1>6, <2>1, <2>2 DEF SentIsCarried
  <1>10. SessionIsSound(n)
    BY <1>5, <1>6 DEF SessionIsSound, Sound, SameSession
  <1>11. Waits(n) /\ Kept(n)
    BY <1>5 DEF Waits, Kept, Answering, Sound
  <1>12. ASSUME NEW s, Agrees(m, s)  PROVE Agrees(n, s)
    BY <1>5, <1>6, <1>7, <1>12, NoneApart DEF Agrees, SameSession
  <1> QED  BY <1>5, <1>8, <1>9, <1>10, <1>11, <1>12 DEF Follows, Sound

\* p is what the page publishes, and it is not in line yet.
Producible(m, p, loop) ==
    /\ m.mic = p
    /\ m.pubs[p].producer = None
    /\ m.pubs[p].loop # "resting"
    /\ ~Waiting(m, p)
    /\ m.promise[p] = "pending" => ~loop
    /\ \A q \in Publications \ {p} : m.promise[q] = "pending" => Answering(m, q)
    /\ LineIsSound(m) /\ SentIsCarried(m) /\ SessionIsSound(m)

\* A publication that is not in line gives up: the loop rests, or the page is
\* told.
LEMMA GivingUp ==
    ASSUME NEW m \in Connections, NEW p \in Publications, NEW loop \in BOOLEAN,
           NEW n, n = ProduceFailed(m, p, loop)
    PROVE  /\ n \in Connections /\ SameSession(m, n)
           /\ n.line = m.line /\ n.sent = m.sent /\ n.closes = m.closes
           /\ \A q \in Publications : n.pubs[q].producer = m.pubs[q].producer
           /\ \A q \in Publications : q # p => n.pubs[q] = m.pubs[q] /\ n.promise[q] = m.promise[q]
           /\ loop => n.mic = m.mic /\ n.pubs[p].loop = "resting" /\ n.promise[p] = m.promise[p]
           /\ ~loop => /\ n.mic = IF m.mic = p THEN None ELSE m.mic
                       /\ n.pubs[p] = m.pubs[p]
                       /\ n.promise[p] = IF m.promise[p] = "pending" THEN "failed"
                                         ELSE m.promise[p]
  <1>1. CASE loop
    <2> DEFINE g == [m.pubs EXCEPT ![p].loop = "resting"]
    <2>1. m.pubs \in [Publications -> PublicationRecords]
      BY Fields
    <2>2. g \in [Publications -> PublicationRecords]
      BY <2>1, PubsTyped
    <2>3. /\ g[p].loop = "resting"
          /\ \A q \in Publications : g[q].producer = m.pubs[q].producer
          /\ \A q \in Publications : q # p => g[q] = m.pubs[q]
      BY <2>1, <2>2 DEF PublicationRecords
    <2>4. n = [m EXCEPT !.pubs = g]
      BY <1>1 DEF ProduceFailed
    <2> HIDE DEF g
    <2>5. /\ n \in Connections /\ SameSession(m, n) /\ n.pubs = g /\ n.mic = m.mic
          /\ n.line = m.line /\ n.sent = m.sent /\ n.closes = m.closes /\ n.promise = m.promise
      BY <2>2, <2>4 DEF Connections, SameSession
    <2> QED  BY <1>1, <2>3, <2>5
  <1>2. CASE ~loop
    <2> DEFINE k == IF m.mic = p THEN None ELSE m.mic
               g == [m.promise EXCEPT ![p] = IF m.promise[p] = "pending" THEN "failed"
                                             ELSE m.promise[p]]
    <2>1. g \in [Publications -> {"none", "pending", "ok", "failed"}]
      BY Fields
    <2>2. /\ g[p] = IF m.promise[p] = "pending" THEN "failed" ELSE m.promise[p]
          /\ \A q \in Publications : q # p => g[q] = m.promise[q]
      BY Fields
    <2>3. k \in Publications \cup {None}
      BY Fields
    <2>4. n = [m EXCEPT !.mic = k, !.promise = g]
      BY <1>2 DEF ProduceFailed
    <2>5. k = IF m.mic = p THEN None ELSE m.mic
      OBVIOUS
    <2> HIDE DEF g, k
    <2>6. /\ SameSession(m, n) /\ n.pubs = m.pubs /\ n.mic = k
          /\ n.line = m.line /\ n.sent = m.sent /\ n.closes = m.closes /\ n.promise = g
      BY <2>4 DEF Connections, SameSession
    <2>7. n \in Connections
      BY ONLY <2>1, <2>3, <2>4, m \in Connections DEF Connections
    <2> QED  BY <1>2, <2>2, <2>5, <2>6, <2>7
  <1> QED  BY <1>1, <1>2

LEMMA Producing ==
    ASSUME NEW m \in Connections, NEW p \in Publications, NEW loop \in BOOLEAN,
           Producible(m, p, loop),
           NEW n, n = ProduceFor(m, p, loop)
    PROVE  Follows(m, n)
  <1> USE NoneApart
  <1>1. p # None /\ Len(m.line) \in Nat
    BY LineFields
  <1>2. \A i \in 1..Len(m.line) : m.line[i].pub \in Publications /\ m.line[i].pub # p
    BY LineFields DEF Producible, Waiting
  <1>3. CASE m.send = None \/ m.pubs[p].track \notin m.live
    <2>1. n = ProduceFailed(m, p, loop)
      BY <1>3 DEF ProduceFor
    <2>2. /\ n \in Connections /\ SameSession(m, n)
          /\ n.line = m.line /\ n.sent = m.sent /\ n.closes = m.closes
          /\ \A q \in Publications : n.pubs[q].producer = m.pubs[q].producer
          /\ \A q \in Publications : q # p => n.pubs[q] = m.pubs[q] /\ n.promise[q] = m.promise[q]
          /\ loop => n.mic = p /\ n.pubs[p].loop = "resting" /\ n.promise[p] = m.promise[p]
          /\ ~loop => /\ n.mic = None
                      /\ n.promise[p] = IF m.promise[p] = "pending" THEN "failed"
                                        ELSE m.promise[p]
      BY <2>1, GivingUp DEF Producible
    <2>3. ~Carried(n)
      BY <1>1, <2>2 DEF Carried, Producible
    <2>4. LineIsSound(n)
      BY <1>1, <1>2, <2>2, <2>3 DEF LineIsSound, Producible, SameSession
    <2>5. SentIsCarried(n)
      <3>1. \A y \in Producers : n.sent[y] = None
        BY <1>1, <2>2 DEF Producible, SentIsCarried
      <3>2. n.mic # None => n.pubs[n.mic].producer = None
        BY <2>2 DEF Producible
      <3> QED  BY <2>2, <2>3, <3>1, <3>2 DEF SentIsCarried, Producible
    <2>6. SessionIsSound(n)
      BY <1>1, <2>2, <2>3 DEF SessionIsSound, Producible, SameSession
    <2>7. Waits(n)
      BY <2>2 DEF Waits, Producible
    <2>8. Kept(n)
      <3> SUFFICES ASSUME NEW q \in Publications, n.promise[q] = "pending"
                   PROVE  Answering(n, q)
        BY DEF Kept
      <3>1. q # p
        BY <2>2 DEF Producible
      <3> QED  BY <2>2, <3>1 DEF Producible, Answering
    <2>9. ASSUME NEW s, Agrees(m, s)  PROVE Agrees(n, s)
      BY <1>2, <2>2, <2>3, <2>9 DEF Agrees, SameSession
    <2>10. \A q \in Publications : m.promise[q] # "none" => n.promise[q] # "none"
      BY <2>2
    <2> QED  BY <2>2, <2>4, <2>5, <2>6, <2>7, <2>8, <2>9, <2>10 DEF Follows, Sound
  <1>4. CASE m.send # None /\ m.pubs[p].track \in m.live
    <2> DEFINE e == [pub |-> p, track |-> m.pubs[p].track, stage |-> "queued",
                     producer |-> None, loop |-> loop]
               k == Append(m.line, e)
    <2>1. m.pubs[p].track \in Captures
      BY <1>4, Fields
    <2>2. /\ e \in Productions
          /\ e.pub = p /\ e.stage = "queued" /\ e.producer = None /\ e.loop = loop
      BY <2>1 DEF Productions
    <2>3. n = [m EXCEPT !.line = k]
      BY <1>4 DEF ProduceFor
    <2>4. k = Append(m.line, e)
      OBVIOUS
    <2> HIDE DEF e, k
    <2>5. /\ k \in Seq(Productions)
          /\ Len(k) = Len(m.line) + 1
          /\ \A i \in 1..Len(m.line) : k[i] = m.line[i]
          /\ k[Len(m.line) + 1] = e
      BY <2>2, <2>4, Fields, AppendProperties
    <2>6. /\ n \in Connections /\ SameSession(m, n) /\ n.mic = m.mic /\ n.pubs = m.pubs
          /\ n.line = k /\ n.sent = m.sent /\ n.closes = m.closes /\ n.promise = m.promise
      <3>1. n \in Connections
        BY ONLY <2>3, <2>5, m \in Connections DEF Connections
      <3>2. /\ SameSession(m, n) /\ n.mic = m.mic /\ n.pubs = m.pubs
            /\ n.line = k /\ n.sent = m.sent /\ n.closes = m.closes /\ n.promise = m.promise
        BY ONLY <2>3, m \in Connections DEF Connections, SameSession
      <3> QED  BY <3>1, <3>2
    <2>7. \A i \in 1..Len(k) : i \in 1..Len(m.line) \/ i = Len(m.line) + 1
      BY <1>1, <2>5
    <2>8. ~Carried(n)
      BY <2>6 DEF Carried, Producible
    <2>9. LineIsSound(n)
      <3>1. \A i, j \in 1..Len(k) : k[i].pub = k[j].pub => i = j
        BY <1>1, <1>2, <2>2, <2>5, <2>7 DEF LineIsSound, Producible
      <3>2. ASSUME NEW i \in 1..Len(m.line)
            PROVE  /\ k[i].pub # n.mic
                   /\ i > 1 \/ m.channel # "ready" => k[i].stage = "queued"
                   /\ k[i].stage = "made" <=> k[i].producer # None
                   /\ n.pubs[k[i].pub].loop # "resting"
        BY <1>2, <2>5, <2>6 DEF LineIsSound, Producible
      <3> QED  BY <2>2, <2>5, <2>6, <2>7, <2>8, <3>1, <3>2 DEF LineIsSound, SameSession, Producible
    <2>10. SentIsCarried(n)
      <3>1. \A y \in Producers : n.sent[y] = None
        BY <1>1, <2>6 DEF Producible, SentIsCarried
      <3>2. n.pubs[n.mic].producer = None
        BY <2>6 DEF Producible
      <3>3. \A y \in Producers : n.closes[y] # "no" => \A i \in 1..Len(k) : k[i].producer # y
        BY <2>2, <2>5, <2>6, <2>7 DEF SentIsCarried, Producible
      <3> QED  BY <2>6, <2>8, <3>1, <3>2, <3>3 DEF SentIsCarried, Producible
    <2>11. SessionIsSound(n)
      BY <1>4, <2>6, <2>8 DEF SessionIsSound, Producible, SameSession
    <2>12. Waits(n)
      <3>1. Waiting(n, p)
        BY <1>1, <2>2, <2>5, <2>6 DEF Waiting
      <3> QED  BY <2>6, <3>1 DEF Waits, Producible
    <2>13. Kept(n)
      <3> SUFFICES ASSUME NEW q \in Publications, n.promise[q] = "pending"
                   PROVE  Answering(n, q)
        BY DEF Kept
      <3>1. CASE q = p
        BY <1>1, <2>2, <2>5, <2>6, <3>1 DEF Answering, Producible
      <3>2. CASE q # p
        <4>1. PICK i \in 1..Len(m.line) : m.line[i].pub = q /\ ~m.line[i].loop
          BY <2>6, <3>2 DEF Answering, Producible
        <4> QED  BY <1>1, <2>5, <2>6, <4>1 DEF Answering
      <3> QED  BY <3>1, <3>2
    <2>14. ASSUME NEW s, Agrees(m, s)  PROVE Agrees(n, s)
      BY <1>1, <1>2, <2>2, <2>5, <2>6, <2>7, <2>8, <2>14 DEF Agrees, SameSession, Producible
    <2> QED  BY <2>6, <2>9, <2>10, <2>11, <2>12, <2>13, <2>14 DEF Follows, Sound
  <1> QED  BY <1>3, <1>4

\* publish, of a publication that nothing knows yet.
LEMMA Publishing ==
    ASSUME NEW m \in Connections, Sound(m), NEW p \in Publications, NEW c \in Captures,
           m.send # None, m.mic # p, ~Waiting(m, p), m.promise[p] = "none",
           NEW n, n = Publish(m, p, c)
    PROVE  Follows(m, n) /\ n.promise[p] # "none"
  <1> USE NoneApart
  <1> DEFINE x == m.pubs[m.mic].producer
             a == IF m.mic = None THEN m ELSE Retire(m, m.mic, m.pubs[m.mic].track # c)
             g == [a.pubs EXCEPT ![p] = NewPublication(c)]
             h == [a.promise EXCEPT ![p] = "pending"]
             b == [a EXCEPT !.mic = p, !.pubs = g, !.promise = h]
  <1>1. n = ProduceFor(b, p, FALSE)
    BY DEF Publish
  <1>2. /\ a \in Connections /\ SameSession(m, a)
        /\ a.line = m.line /\ a.promise = m.promise
        /\ \A q \in Publications : a.pubs[q].loop = m.pubs[q].loop
        /\ \A y \in Producers : a.sent[y] = None
        /\ \A y \in Producers : a.closes[y] = m.closes[y] \/ (Carried(m) /\ y = x)
    <2>1. CASE m.mic = None
      BY <2>1 DEF Sound, SentIsCarried, SameSession
    <2>2. CASE m.mic # None
      <3>1. PICK r \in Publications : r = m.mic
        BY <2>2, Fields
      <3>2. PICK stop \in BOOLEAN : a = Retire(m, r, stop)
        BY <2>2, <3>1, Zenon
      <3> HIDE DEF a, x
      <3>3. /\ a \in Connections /\ SameSession(m, a)
            /\ a.line = m.line /\ a.promise = m.promise
            /\ a.pubs[r].loop = m.pubs[r].loop
            /\ \A q \in Publications : q # r => a.pubs[q] = m.pubs[q]
            /\ \A y \in Producers : y # m.pubs[r].producer =>
                   a.sent[y] = m.sent[y] /\ a.closes[y] = m.closes[y]
            /\ \A y \in Producers : y = m.pubs[r].producer => a.sent[y] = None
        BY <3>2, Retiring
      <3>4. /\ \A q \in Publications : a.pubs[q].loop = m.pubs[q].loop
            /\ \A y \in Producers : y # x => a.sent[y] = m.sent[y] /\ a.closes[y] = m.closes[y]
            /\ \A y \in Producers : y = x => a.sent[y] = None
        BY <3>1, <3>3 DEF x
      <3>5. \A y \in Producers : a.sent[y] = None
        BY <3>4 DEF Sound, SentIsCarried, x
      <3>6. \A y \in Producers : y = x => Carried(m)
        BY <2>2 DEF Carried, x
      <3> QED  BY <3>3, <3>4, <3>5, <3>6
    <2> QED  BY <2>1, <2>2
  <1> HIDE DEF a
  <1>3. /\ g \in [Publications -> PublicationRecords]
        /\ g[p].producer = None /\ g[p].loop = "none"
        /\ \A q \in Publications : q # p => g[q] = a.pubs[q]
    <2>1. NewPublication(c) \in PublicationRecords
      BY DEF NewPublication, PublicationRecords
    <2>2. a.pubs \in [Publications -> PublicationRecords]
      BY <1>2, Fields
    <2>3. NewPublication(c).producer = None /\ NewPublication(c).loop = "none"
      BY DEF NewPublication
    <2> QED  BY <2>1, <2>2, <2>3
  <1>4. /\ h \in [Publications -> {"none", "pending", "ok", "failed"}]
        /\ h[p] = "pending"
        /\ \A q \in Publications : q # p => h[q] = m.promise[q]
    BY <1>2, Fields
  <1> HIDE DEF g, h
  <1>5. /\ SameSession(a, b)
        /\ b.mic = p /\ b.pubs = g /\ b.line = a.line /\ b.sent = a.sent
        /\ b.closes = a.closes /\ b.promise = h
    BY <1>2 DEF Connections, SameSession
  <1>6. b \in Connections
    BY <1>2, <1>3, <1>4 DEF Connections
  <1> HIDE DEF b
  <1>7. /\ SameSession(m, b) /\ b.line = m.line
        /\ \A y \in Producers : b.sent[y] = None
        /\ \A y \in Producers : b.closes[y] = m.closes[y] \/ (Carried(m) /\ y = x)
    BY <1>2, <1>5 DEF SameSession
  <1>8. p # None /\ ~Carried(b)
    BY <1>3, <1>5 DEF Carried
  <1>9. \A i \in 1..Len(m.line) : m.line[i].pub \in Publications /\ m.line[i].pub # p
    BY LineFields DEF Waiting
  <1>10. \A i \in 1..Len(m.line) : b.pubs[m.line[i].pub].loop = m.pubs[m.line[i].pub].loop
    BY <1>2, <1>3, <1>5, <1>9
  <1>11. LineIsSound(b)
    BY <1>5, <1>7, <1>8, <1>9, <1>10 DEF LineIsSound, Sound, SameSession
  <1>12. SentIsCarried(b)
    <2>1. ASSUME NEW y \in Producers, b.closes[y] # "no", NEW i \in 1..Len(b.line)
          PROVE  b.line[i].producer # y
      <3>1. CASE b.closes[y] = m.closes[y]
        BY <1>7, <2>1, <3>1 DEF Sound, SentIsCarried
      <3>2. CASE Carried(m)
        BY <1>7, <2>1, <3>2, LineFields DEF Sound, LineIsSound
      <3> QED  BY <1>7, <3>1, <3>2
    <2> QED  BY <1>3, <1>5, <1>7, <1>8, <2>1 DEF SentIsCarried
  <1>13. SessionIsSound(b)
    BY <1>7 DEF SessionIsSound, Sound, SameSession
  <1>14. Producible(b, p, FALSE)
    <2>1. ~Waiting(b, p)
      BY <1>7, <1>9 DEF Waiting
    <2>2. \A q \in Publications \ {p} : b.promise[q] = "pending" => Answering(b, q)
      BY <1>4, <1>5, <1>7 DEF Sound, Kept, Answering
    <2> QED  BY <1>3, <1>5, <1>11, <1>12, <1>13, <2>1, <2>2 DEF Producible
  <1>15. Follows(b, n)
    <2>1. PICK loop \in BOOLEAN : loop = FALSE
      OBVIOUS
    <2> QED  BY <1>1, <1>6, <1>14, <2>1, Producing, Zenon
  <1>16. ASSUME NEW s, Agrees(m, s)  PROVE Agrees(b, s)
    BY <1>5, <1>7, <1>8, <1>9, <1>16 DEF Agrees, SameSession
  <1>17. \A q \in Publications : m.promise[q] # "none" => b.promise[q] # "none"
    BY <1>4, <1>5
  <1> QED  BY <1>4, <1>5, <1>15, <1>16, <1>17 DEF Follows

LEMMA Taking ==
    ASSUME NEW m \in Connections, Len(m.line) # 0
    PROVE  /\ Tail(m.line) \in Seq(Productions)
           /\ Len(Tail(m.line)) \in Nat
           /\ Len(m.line) = Len(Tail(m.line)) + 1
           /\ \A i \in 1..Len(Tail(m.line)) :
                  i + 1 \in 2..Len(m.line) /\ Tail(m.line)[i] = m.line[i + 1]
           /\ Head(m.line) = m.line[1]
           /\ 1 \in 1..Len(m.line)
  <1>1. m.line \in Seq(Productions) /\ m.line # <<>> /\ Len(m.line) \in Nat
    BY Fields, LineFields
  <1>2. /\ Head(m.line) = m.line[1]
        /\ Tail(m.line) \in Seq(Productions)
        /\ Len(Tail(m.line)) = Len(m.line) - 1
        /\ \A i \in 1..Len(Tail(m.line)) : Tail(m.line)[i] = m.line[i + 1]
    BY <1>1, HeadTailProperties
  <1> QED  BY <1>1, <1>2

\* What k is when it is what the line has behind its head: nothing of it has
\* left the page.
IsBehind(m, k) ==
    /\ Len(k) \in Nat /\ Len(m.line) = Len(k) + 1 /\ 1 \in 1..Len(m.line)
    /\ \A i \in 1..Len(m.line) : i # 1 => i - 1 \in 1..Len(k) /\ k[i - 1] = m.line[i]
    /\ \A i, j \in 1..Len(k) : k[i].pub = k[j].pub => i = j
    /\ \A i \in 1..Len(k) :
           /\ k[i].pub \in Publications /\ k[i].pub # m.line[1].pub
           /\ k[i].pub = m.mic => i = Len(k)
           /\ k[i].stage = "queued" /\ k[i].producer = None
           /\ m.pubs[k[i].pub].loop # "resting"

LEMMA Behind ==
    ASSUME NEW m \in Connections, LineIsSound(m), Len(m.line) # 0,
           NEW k, k = Tail(m.line)
    PROVE  IsBehind(m, k)
  <1>1. /\ Len(k) \in Nat /\ Len(m.line) = Len(k) + 1 /\ 1 \in 1..Len(m.line)
        /\ \A i \in 1..Len(k) : k[i] = m.line[i + 1]
    BY Taking
  <1>2. \A i \in 1..Len(k) : i + 1 \in 1..Len(m.line) /\ i + 1 # 1 /\ i + 1 > 1
    BY ONLY <1>1
  <1>3. ASSUME NEW i \in 1..Len(m.line), i # 1
        PROVE  i - 1 \in 1..Len(k) /\ k[i - 1] = m.line[i]
    <2>1. i - 1 \in 1..Len(k) /\ (i - 1) + 1 = i
      BY ONLY <1>1, <1>3, i \in 1..Len(m.line)
    <2> QED  BY <1>1, <2>1
  <1>4. ASSUME NEW i \in 1..Len(k), NEW j \in 1..Len(k), k[i].pub = k[j].pub
        PROVE  i = j
    <2>1. m.line[i + 1].pub = m.line[j + 1].pub
      BY <1>1, <1>4
    <2>2. i + 1 = j + 1
      BY <1>2, <2>1 DEF LineIsSound
    <2> QED  BY ONLY <1>1, <2>2, i \in 1..Len(k), j \in 1..Len(k)
  <1>5. ASSUME NEW i \in 1..Len(k)
        PROVE  /\ k[i].pub \in Publications /\ k[i].pub # m.line[1].pub
               /\ k[i].pub = m.mic => i = Len(k)
               /\ k[i].stage = "queued" /\ k[i].producer = None
               /\ m.pubs[k[i].pub].loop # "resting"
    <2>1. k[i] = m.line[i + 1]
      BY <1>1
    <2>2. m.line[i + 1].pub \in Publications /\ m.pubs[m.line[i + 1].pub].loop # "resting"
      BY <1>2, LineFields DEF LineIsSound
    <2>3. m.line[i + 1].pub # m.line[1].pub
      BY <1>1, <1>2 DEF LineIsSound
    <2>4. m.line[i + 1].stage = "queued" /\ m.line[i + 1].producer = None
      BY <1>2 DEF LineIsSound
    <2>5. m.line[i + 1].pub = m.mic => i + 1 = Len(m.line)
      BY <1>2 DEF LineIsSound
    <2>6. i + 1 = Len(m.line) => i = Len(k)
      BY ONLY <1>1, i \in 1..Len(k)
    <2> QED  BY <2>1, <2>2, <2>3, <2>4, <2>5, <2>6
  <1> QED  BY <1>1, <1>3, <1>4, <1>5 DEF IsBehind

\* The head of the line gives up; of the requests to close, only one for its
\* producer is new.
LEMMA HeadGivesUp ==
    ASSUME NEW m \in Connections, Sound(m), Len(m.line) # 0,
           NEW t \in Connections, SameSession(m, t),
           t.mic = m.mic, t.pubs = m.pubs, t.line = Tail(m.line),
           t.sent = m.sent, t.promise = m.promise,
           \A y \in Producers :
               t.closes[y] # "no" => m.closes[y] # "no" \/ m.line[1].producer = y,
           NEW n, n = ProduceFailed(t, m.line[1].pub, m.line[1].loop)
    PROVE  /\ Follows(m, n)
           /\ SameSession(m, n)
           /\ n.line = Tail(m.line) /\ n.sent = m.sent /\ n.closes = t.closes
  <1> USE NoneApart
  <1> DEFINE L == Len(n.line)
  <1>1. PICK p \in Publications, loop \in BOOLEAN :
            p = m.line[1].pub /\ loop = m.line[1].loop
    BY Taking, LineFields
  <1>2. /\ n \in Connections /\ SameSession(t, n)
        /\ n.line = t.line /\ n.sent = t.sent /\ n.closes = t.closes
        /\ \A q \in Publications : n.pubs[q].producer = t.pubs[q].producer
        /\ \A q \in Publications : q # p => n.pubs[q] = t.pubs[q] /\ n.promise[q] = t.promise[q]
        /\ loop => n.mic = t.mic /\ n.pubs[p].loop = "resting" /\ n.promise[p] = t.promise[p]
        /\ ~loop => /\ n.mic = IF t.mic = p THEN None ELSE t.mic
                    /\ n.pubs[p] = t.pubs[p]
                    /\ n.promise[p] = IF t.promise[p] = "pending" THEN "failed"
                                      ELSE t.promise[p]
    <2>1. n = ProduceFailed(t, p, loop)
      BY <1>1
    <2> QED  BY ONLY <2>1, t \in Connections, p \in Publications, loop \in BOOLEAN, GivingUp
  <1>3. /\ SameSession(m, n)
        /\ n.line = Tail(m.line) /\ n.sent = m.sent /\ n.closes = t.closes
        /\ \A q \in Publications : n.pubs[q].producer = m.pubs[q].producer
        /\ \A q \in Publications : q # p => n.pubs[q] = m.pubs[q] /\ n.promise[q] = m.promise[q]
    <2>1. SameSession(m, n)
      BY <1>2 DEF SameSession
    <2>2. n.line = Tail(m.line) /\ n.sent = m.sent /\ n.closes = t.closes
      BY <1>2
    <2>3. \A q \in Publications : n.pubs[q].producer = m.pubs[q].producer
      BY <1>2
    <2>4. \A q \in Publications : q # p => n.pubs[q] = m.pubs[q] /\ n.promise[q] = m.promise[q]
      BY <1>2
    <2> QED  BY <2>1, <2>2, <2>3, <2>4
  <1>4. /\ loop => n.mic = m.mic /\ n.pubs[p].loop = "resting"
        /\ m.mic = p => loop \/ n.mic = None
        /\ m.mic # p => n.mic = m.mic
    BY <1>2
  <1>5. /\ n.promise[p] = "pending" => loop /\ m.promise[p] = "pending"
        /\ m.promise[p] # "none" => n.promise[p] # "none"
    BY <1>2
  <1>6. /\ L \in Nat /\ Len(m.line) = L + 1 /\ 1 \in 1..Len(m.line)
        /\ \A i \in 1..Len(m.line) : i # 1 => i - 1 \in 1..L /\ n.line[i - 1] = m.line[i]
        /\ \A i, j \in 1..L : n.line[i].pub = n.line[j].pub => i = j
        /\ \A i \in 1..L : /\ n.line[i].pub \in Publications /\ n.line[i].pub # p
                           /\ n.line[i].pub = m.mic => i = L
                           /\ n.line[i].stage = "queued" /\ n.line[i].producer = None
                           /\ m.pubs[n.line[i].pub].loop # "resting"
    <2>1. LineIsSound(m) /\ n.line = Tail(m.line)
      BY <1>3 DEF Sound
    <2>2. IsBehind(m, n.line)
      BY <2>1, Behind
    <2> QED  BY <1>1, <2>2 DEF IsBehind
  <1> HIDE DEF L
  <1>7. \A i \in 1..L : n.line[i].pub \in Publications /\ n.line[i].pub # p
    BY <1>6
  <1>8. ~Carried(m) /\ m.send # None
    BY <1>6 DEF Sound, LineIsSound, SessionIsSound
  <1>9. n.mic = m.mic \/ n.mic = None
    BY <1>4
  <1>10. ~Carried(n) /\ (n.mic # None => n.pubs[n.mic].producer = None)
    <2>1. n.mic # None => n.mic \in Publications
      BY <1>2, Fields
    <2>2. n.mic # None => n.pubs[n.mic].producer = m.pubs[m.mic].producer
      BY <1>3, <1>9, <2>1
    <2> QED  BY <1>8, <1>9, <2>2 DEF Carried
  <1>11. \A i \in 1..L : n.line[i].stage = "queued" /\ n.line[i].producer = None
    BY <1>6
  <1>12. LineIsSound(n)
    <2>1. \A i, j \in 1..L : n.line[i].pub = n.line[j].pub => i = j
      BY <1>6
    <2>2. \A i \in 1..L : n.line[i].pub = m.mic => i = L
      BY <1>6
    <2>3. ASSUME NEW i \in 1..L, n.line[i].pub = n.mic
          PROVE  i = L
      <3>1. n.mic \in Publications
        BY <1>7, <2>3
      <3>2. n.mic = m.mic
        BY <1>9, <3>1
      <3> QED  BY <2>2, <2>3, <3>2
    <2>4. \A i \in 1..L : n.pubs[n.line[i].pub].loop # "resting"
      BY ONLY <1>3, <1>6, <1>7
    <2>5. \A i \in 1..L : n.line[i].stage = "made" <=> n.line[i].producer # None
      BY <1>11
    <2>6. \A i \in 1..L : /\ n.line[i].pub = n.mic => i = L
                          /\ i > 1 \/ n.channel # "ready" => n.line[i].stage = "queued"
                          /\ n.line[i].stage = "made" <=> n.line[i].producer # None
                          /\ n.pubs[n.line[i].pub].loop # "resting"
      BY ONLY <1>11, <2>3, <2>4, <2>5
    <2>7. Carried(n) => Len(n.line) = 0
      BY ONLY <1>10
    <2> QED  BY ONLY <2>1, <2>6, <2>7, Zenon DEF LineIsSound, L
  <1>13. SentIsCarried(n)
    <2>1. \A y \in Producers : n.sent[y] = None
      BY <1>3, <1>8 DEF Sound, SentIsCarried, Carried
    <2>2. \A i \in 1..L, y \in Producers : n.line[i].producer # y
      BY <1>11
    <2> QED  BY <1>10, <2>1, <2>2 DEF SentIsCarried, L
  <1>14. SessionIsSound(n)
    BY <1>3, <1>8, <1>10 DEF Sound, SessionIsSound, SameSession
  <1>15. Waits(n)
    <2> SUFFICES ASSUME n.mic # None  PROVE Waiting(n, n.mic) \/ n.pubs[n.mic].loop = "resting"
      BY <1>10 DEF Waits
    <2>1. n.mic = m.mic /\ m.mic \in Publications
      BY <1>9, Fields
    <2>2. CASE m.mic = p
      BY <1>4, <2>1, <2>2
    <2>3. CASE m.mic # p
      <3>1. n.pubs[n.mic] = m.pubs[m.mic]
        BY <1>3, <2>1, <2>3
      <3>2. Waiting(m, m.mic) \/ m.pubs[m.mic].loop = "resting"
        BY <1>8, <2>1 DEF Sound, Waits, Carried
      <3>3. ASSUME NEW i \in 1..Len(m.line), m.line[i].pub = m.mic
            PROVE  Waiting(n, n.mic)
        <4>1. i # 1
          BY <1>1, <2>3, <3>3
        <4>2. i - 1 \in 1..L /\ n.line[i - 1] = m.line[i]
          BY <1>6, <4>1
        <4> QED  BY <2>1, <3>3, <4>2 DEF Waiting, L
      <3> QED  BY <3>1, <3>2, <3>3 DEF Waiting
    <2> QED  BY <2>2, <2>3
  <1>16. Kept(n)
    <2> SUFFICES ASSUME NEW q \in Publications, n.promise[q] = "pending"
                 PROVE  Answering(n, q)
      BY DEF Kept
    <2>1. m.promise[q] = "pending" /\ (q = p => loop)
      BY <1>3, <1>5
    <2>2. PICK i \in 1..Len(m.line) : m.line[i].pub = q /\ ~m.line[i].loop
      BY <2>1 DEF Sound, Kept, Answering
    <2>3. i # 1
      <3>1. CASE q = p
        BY <1>1, <2>1, <2>2, <3>1
      <3>2. CASE q # p
        BY <1>1, <2>2, <3>2
      <3> QED  BY <3>1, <3>2
    <2>4. i - 1 \in 1..L /\ n.line[i - 1] = m.line[i]
      BY <1>6, <2>3
    <2> QED  BY <2>2, <2>4 DEF Answering, L
  <1>17. ASSUME NEW s, Agrees(m, s)  PROVE Agrees(n, s)
    BY <1>3, <1>10, <1>11, <1>17 DEF Agrees, SameSession, L
  <1>18. \A q \in Publications : m.promise[q] # "none" => n.promise[q] # "none"
    BY <1>3, <1>5
  <1> QED  BY <1>2, <1>3, <1>12, <1>13, <1>14, <1>15, <1>16, <1>17, <1>18 DEF Follows, Sound

\* A production fails.
LEMMA Failing ==
    ASSUME NEW m \in Connections, Sound(m), m.line # <<>>,
           NEW n, n = ProduceFailed([m EXCEPT !.line = Tail(@)], Head(m.line).pub,
                                    Head(m.line).loop)
    PROVE  /\ Follows(m, n)
           /\ SameSession(m, n)
           /\ n.line = Tail(m.line) /\ n.sent = m.sent /\ n.closes = m.closes
  <1> DEFINE t == [m EXCEPT !.line = Tail(m.line)]
  <1>1. Len(m.line) # 0
    BY LineFields
  <1>2. Tail(m.line) \in Seq(Productions) /\ Head(m.line) = m.line[1]
    BY <1>1, Taking
  <1>3. n = ProduceFailed(t, m.line[1].pub, m.line[1].loop)
    BY <1>2
  <1>4. /\ t \in Connections /\ SameSession(m, t)
        /\ t.mic = m.mic /\ t.pubs = m.pubs /\ t.line = Tail(m.line)
        /\ t.sent = m.sent /\ t.closes = m.closes /\ t.promise = m.promise
    BY <1>2 DEF Connections, SameSession
  <1> HIDE DEF t
  <1> QED  BY <1>1, <1>3, <1>4, HeadGivesUp

\* A connection after a production came to its end.
Produced(m, k, g, st, h) == [m EXCEPT !.line = k, !.pubs = g, !.sent = st, !.promise = h]

LEMMA Carrying ==
    ASSUME NEW m \in Connections, NEW k \in Seq(Productions),
           NEW g \in [Publications -> PublicationRecords],
           NEW st \in [Producers -> Captures \cup {None}],
           NEW h \in [Publications -> {"none", "pending", "ok", "failed"}],
           NEW n, n = Produced(m, k, g, st, h)
    PROVE  /\ n \in Connections /\ SameSession(m, n)
           /\ n.mic = m.mic /\ n.line = k /\ n.pubs = g
           /\ n.sent = st /\ n.closes = m.closes /\ n.promise = h
  BY DEF Produced, Connections, SameSession

\* The answer of a production: its publication has the producer, or has gone
\* meanwhile and the producer is closed.
LEMMA Answered ==
    ASSUME NEW m \in Connections, Sound(m), Len(m.line) # 0, m.line[1].stage = "made",
           NEW n, n = ProduceAnswered(m)
    PROVE  Follows(m, n)
  <1> USE NoneApart
  <1>1. Len(m.line) # 0 /\ Len(m.line) \in Nat
    BY LineFields
  <1>2. Head(m.line) = m.line[1] /\ 1 \in 1..Len(m.line) /\ Tail(m.line) \in Seq(Productions)
    BY <1>1, Taking
  <1>3. PICK p \in Publications, x \in Producers, c \in Captures :
            p = m.line[1].pub /\ x = m.line[1].producer /\ c = m.line[1].track
    <2>1. m.line[1].producer # None
      BY <1>2 DEF Sound, LineIsSound
    <2> QED  BY <1>2, <2>1, LineFields
  <1> DEFINE a == [m EXCEPT !.line = Tail(m.line)]
  <1>4. /\ a \in Connections /\ SameSession(m, a)
        /\ a.mic = m.mic /\ a.pubs = m.pubs /\ a.line = Tail(m.line)
        /\ a.sent = m.sent /\ a.closes = m.closes /\ a.promise = m.promise
    BY <1>2 DEF Connections, SameSession
  <1>5. CASE m.mic # p
    <2> DEFINE t == CloseServerProducer(a, x)
    <2>1. n = ProduceFailed(t, m.line[1].pub, m.line[1].loop)
      BY <1>2, <1>3, <1>5 DEF ProduceAnswered
    <2> HIDE DEF a
    <2>2. /\ t \in Connections /\ SameSession(a, t)
          /\ t.mic = a.mic /\ t.pubs = a.pubs /\ t.line = a.line /\ t.sent = a.sent
          /\ t.promise = a.promise
          /\ \A y \in Producers : y # x => t.closes[y] = a.closes[y]
      BY <1>4, Closing
    <2> HIDE DEF t
    <2>3. SameSession(m, t)
      BY <1>4, <2>2 DEF SameSession
    <2>4. \A y \in Producers :
              t.closes[y] # "no" => m.closes[y] # "no" \/ m.line[1].producer = y
      BY <1>3, <1>4, <2>2
    <2>5. /\ t.mic = m.mic /\ t.pubs = m.pubs /\ t.line = Tail(m.line)
          /\ t.sent = m.sent /\ t.promise = m.promise
      BY <1>4, <2>2
    <2> QED  BY <1>1, <2>1, <2>2, <2>3, <2>4, <2>5, HeadGivesUp
  <1>6. CASE m.mic = p
    <2>1. Len(m.line) = 1 /\ p # None
      BY <1>2, <1>3, <1>6 DEF Sound, LineIsSound
    <2>2. Len(Tail(m.line)) = 0
      BY <2>1, Taking
    <2>3. ~Carried(m) /\ m.send # None
      BY <2>1 DEF Sound, LineIsSound, SessionIsSound
    <2> DEFINE r == [m.pubs[p] EXCEPT !.producer = x, !.handle = x, !.loop = "none"]
               g == [m.pubs EXCEPT ![p] = r]
               st == [m.sent EXCEPT ![x] = c]
               h == [m.promise EXCEPT ![p] = IF m.promise[p] = "pending" THEN "ok"
                                             ELSE m.promise[p]]
               k == Tail(m.line)
    <2>4. /\ g \in [Publications -> PublicationRecords]
          /\ g[p].producer = x /\ g[p].loop = "none"
      <3>1. m.pubs \in [Publications -> PublicationRecords]
        BY Fields
      <3>2. r \in PublicationRecords /\ r.producer = x /\ r.loop = "none"
        BY <3>1 DEF PublicationRecords
      <3> HIDE DEF r
      <3> QED  BY <3>1, <3>2
    <2>5. /\ st \in [Producers -> Captures \cup {None}]
          /\ st[x] = c /\ \A y \in Producers : y # x => st[y] = m.sent[y]
      BY Fields
    <2>6. h \in [Publications -> {"none", "pending", "ok", "failed"}]
      BY Fields
    <2>7. /\ h[p] # "pending" /\ (m.promise[p] # "none" => h[p] # "none")
          /\ \A q \in Publications : q # p => h[q] = m.promise[q]
      BY Fields
    <2>8. n = Produced(m, k, g, st, h)
      BY <1>2, <1>3, <1>6 DEF ProduceAnswered, Produced
    <2>9. k \in Seq(Productions) /\ Len(k) = 0
      BY <1>2, <2>2
    <2> HIDE DEF g, st, h, k, a, r
    <2>10. /\ SameSession(m, n) /\ n.mic = m.mic /\ n.line = k /\ n.pubs = g
           /\ n.sent = st /\ n.closes = m.closes /\ n.promise = h /\ n \in Connections
      <3>1. /\ k \in Seq(Productions) /\ g \in [Publications -> PublicationRecords]
            /\ st \in [Producers -> Captures \cup {None}]
        BY <2>4, <2>5, <2>9
      <3>2. h \in [Publications -> {"none", "pending", "ok", "failed"}]
        BY <2>6
      <3> QED  BY ONLY <2>8, <3>1, <3>2, m \in Connections, Carrying
    <2>11. n \in Connections
      BY <2>10
    <2>12. Carried(n) /\ n.mic = p /\ n.pubs[p].producer = x /\ Len(n.line) = 0
      BY <1>6, <2>1, <2>4, <2>9, <2>10 DEF Carried
    <2>13. LineIsSound(n)
      BY <2>12 DEF LineIsSound
    <2>14. SentIsCarried(n)
      <3>1. \A y \in Producers : m.sent[y] = None
        BY <2>3 DEF Sound, SentIsCarried, Carried
      <3>2. \A y \in Producers : n.closes[y] # "no" => x # y
        BY <1>2, <1>3, <2>10 DEF Sound, SentIsCarried
      <3> QED  BY <2>5, <2>10, <2>12, <3>1, <3>2 DEF SentIsCarried
    <2>15. SessionIsSound(n)
      BY <2>3, <2>10 DEF Sound, SessionIsSound, SameSession
    <2>16. Waits(n)
      BY <2>4, <2>10, <2>12 DEF Waits
    <2>17. Kept(n)
      <3> SUFFICES ASSUME NEW q \in Publications, n.promise[q] = "pending"
                   PROVE  FALSE
        BY DEF Kept
      <3>1. q # p /\ m.promise[q] = "pending"
        BY <2>7, <2>10
      <3>2. PICK i \in 1..Len(m.line) : m.line[i].pub = q
        BY <3>1 DEF Sound, Kept, Answering
      <3>3. i = 1
        BY <2>1
      <3> QED  BY <1>3, <3>1, <3>2, <3>3
    <2>18. ASSUME NEW s, Agrees(m, s)  PROVE Agrees(n, s)
      <3>1. m.sid => s.onAir = x
        BY <1>2, <1>3, <1>6, <2>18 DEF Agrees
      <3> QED  BY <2>10, <2>12, <2>18, <3>1 DEF Agrees, SameSession
    <2>19. \A q \in Publications : m.promise[q] # "none" => n.promise[q] # "none"
      BY <2>7, <2>10
    <2> QED  BY <2>11, <2>13, <2>14, <2>15, <2>16, <2>17, <2>18, <2>19 DEF Follows, Sound
  <1> QED  BY <1>5, <1>6

\* p is published, and neither carried nor in line.
Idle(m, p) ==
    /\ m.mic = p
    /\ m.pubs[p].producer = None
    /\ ~Waiting(m, p)
    /\ LineIsSound(m) /\ SentIsCarried(m) /\ SessionIsSound(m) /\ Kept(m)

\* The loop of republish, which asks again.
LEMMA Trying ==
    ASSUME NEW m \in Connections, NEW p \in Publications, Idle(m, p),
           NEW k \in 0..2,
           NEW n, n = ProduceFor([m EXCEPT !.pubs[p].loop = "trying", !.pubs[p].tries = k],
                                 p, TRUE)
    PROVE  Follows(m, n)
  <1> DEFINE g == [m.pubs EXCEPT ![p].loop = "trying", ![p].tries = k]
             b == [m EXCEPT !.pubs = g]
  <1>1. n = ProduceFor(b, p, TRUE)
    OBVIOUS
  <1>2. /\ g \in [Publications -> PublicationRecords]
        /\ g[p].loop = "trying" /\ g[p].producer = m.pubs[p].producer
        /\ \A q \in Publications : q # p => g[q] = m.pubs[q]
    <2>1. m.pubs \in [Publications -> PublicationRecords]
      BY Fields
    <2> QED  BY <2>1 DEF PublicationRecords
  <1> HIDE DEF g
  <1>3. b \in Connections
    BY <1>2 DEF Connections
  <1>4. /\ SameSession(m, b) /\ b.mic = m.mic /\ b.pubs = g /\ b.line = m.line
        /\ b.sent = m.sent /\ b.closes = m.closes /\ b.promise = m.promise
    BY DEF Connections, SameSession
  <1> HIDE DEF b
  <1>5. ~Carried(b) /\ ~Carried(m) /\ p # None
    BY <1>2, <1>4, NoneApart DEF Carried, Idle
  <1>6. LineIsSound(b)
    <2>1. \A i \in 1..Len(m.line) : m.line[i].pub \in Publications /\ m.line[i].pub # p
      BY LineFields DEF Idle, Waiting
    <2>2. \A i \in 1..Len(m.line) : b.pubs[m.line[i].pub] = m.pubs[m.line[i].pub]
      BY <1>2, <1>4, <2>1
    <2> QED  BY <1>4, <1>5, <2>2 DEF Idle, LineIsSound, SameSession
  <1>7. SentIsCarried(b)
    BY <1>2, <1>4, <1>5 DEF Idle, SentIsCarried
  <1>8. SessionIsSound(b)
    BY <1>4, <1>5 DEF Idle, SessionIsSound, SameSession
  <1>9. \A q \in Publications : b.promise[q] = "pending" => q # p /\ Answering(b, q)
    BY <1>4 DEF Idle, Kept, Answering, Waiting
  <1>10. Producible(b, p, TRUE)
    <2>1. ~Waiting(b, p)
      BY <1>4 DEF Idle, Waiting
    <2> QED  BY <1>2, <1>4, <1>6, <1>7, <1>8, <1>9, <2>1 DEF Idle, Producible
  <1>11. Follows(b, n)
    <2>1. PICK loop \in BOOLEAN : loop = TRUE
      OBVIOUS
    <2> QED  BY <1>1, <1>3, <1>10, <2>1, Producing, Zenon
  <1>12. ASSUME NEW s, Agrees(m, s)  PROVE Agrees(b, s)
    BY <1>4, <1>5, <1>12 DEF Agrees, SameSession
  <1> QED  BY <1>4, <1>11, <1>12 DEF Follows

\* republish gives up for good.
LEMMA Undoing ==
    ASSUME NEW m \in Connections, NEW p \in Publications, Idle(m, p),
           NEW n, n = Undo(m, p)
    PROVE  Follows(m, n)
  <1> USE NoneApart
  <1> DEFINE g == [m.pubs EXCEPT ![p].loop = "none"]
             l == m.live \ {m.pubs[p].track}
  <1>1. n = [m EXCEPT !.mic = None, !.pubs = g, !.live = l]
    BY DEF Undo
  <1>2. g \in [Publications -> PublicationRecords] /\ l \in SUBSET Captures
    BY Fields, PubsTyped
  <1>3. \A q \in Publications : q # p => g[q] = m.pubs[q]
    BY Fields
  <1> HIDE DEF g, l
  <1>4. n \in Connections
    BY ONLY <1>1, <1>2, m \in Connections DEF Connections
  <1>5. /\ SameSession(m, n) /\ n.mic = None /\ n.pubs = g /\ n.line = m.line
        /\ n.sent = m.sent /\ n.closes = m.closes /\ n.promise = m.promise
    BY <1>1 DEF Connections, SameSession
  <1>6. ~Carried(n) /\ ~Carried(m)
    BY <1>5 DEF Carried, Idle
  <1>7. \A i \in 1..Len(m.line) : m.line[i].pub \in Publications /\ m.line[i].pub # p
    BY LineFields DEF Idle, Waiting
  <1>8. LineIsSound(n)
    <2>1. \A i \in 1..Len(m.line) : n.pubs[m.line[i].pub] = m.pubs[m.line[i].pub]
      BY <1>3, <1>5, <1>7
    <2> QED  BY <1>5, <1>6, <1>7, <2>1 DEF Idle, LineIsSound, SameSession
  <1>9. SentIsCarried(n)
    BY <1>5, <1>6 DEF Idle, SentIsCarried, Carried
  <1>10. SessionIsSound(n)
    BY <1>5, <1>6 DEF Idle, SessionIsSound, SameSession
  <1>11. Waits(n) /\ Kept(n)
    BY <1>5 DEF Idle, Waits, Kept, Answering
  <1>12. ASSUME NEW s, Agrees(m, s)  PROVE Agrees(n, s)
    BY <1>5, <1>6, <1>7, <1>12 DEF Agrees, SameSession
  <1> QED  BY <1>4, <1>5, <1>8, <1>9, <1>10, <1>11, <1>12 DEF Follows, Sound

LEMMA Republishing ==
    ASSUME NEW m \in Connections, NEW p \in Publications, Idle(m, p),
           NEW n, n = Republish(m, p)
    PROVE  Follows(m, n)
  <1>1. CASE m.pubs[p].track \in m.live
    <2>1. n = ProduceFor([m EXCEPT !.pubs[p].loop = "trying", !.pubs[p].tries = 1], p, TRUE)
      BY <1>1 DEF Republish
    <2>2. 1 \in 0..2
      OBVIOUS
    <2> QED  BY <2>1, <2>2, Trying
  <1>2. CASE m.pubs[p].track \notin m.live
    BY <1>2, Undoing DEF Republish
  <1> QED  BY <1>1, <1>2

\* The half second between two attempts of republish is over.
LEMMA Resting ==
    ASSUME NEW m \in Connections, NEW p \in Publications, Sound(m),
           m.pubs[p].loop = "resting",
           NEW n, n = Rested(m, p)
    PROVE  Follows(m, n)
  <1> USE NoneApart
  <1>1. \A i \in 1..Len(m.line) : m.line[i].pub \in Publications /\ m.line[i].pub # p
    BY LineFields DEF Sound, LineIsSound
  <1>2. ~Waiting(m, p)
    BY <1>1 DEF Waiting
  <1>3. CASE m.mic # p
    <2> DEFINE g == [m.pubs EXCEPT ![p].loop = "none"]
    <2>1. n = [m EXCEPT !.pubs = g]
      BY <1>3 DEF Rested
    <2>2. g \in [Publications -> PublicationRecords]
      BY Fields, PubsTyped
    <2>3. \A q \in Publications : q # p => g[q] = m.pubs[q]
      BY Fields
    <2> HIDE DEF g
    <2>4. n \in Connections
      BY <2>1, <2>2 DEF Connections
    <2>5. /\ SameSession(m, n) /\ n.mic = m.mic /\ n.pubs = g /\ n.line = m.line
          /\ n.sent = m.sent /\ n.closes = m.closes /\ n.promise = m.promise
      BY <2>1 DEF Connections, SameSession
    <2>6. n.mic # None => n.pubs[n.mic] = m.pubs[m.mic]
      BY <1>3, <2>3, <2>5, Fields
    <2>7. Carried(n) <=> Carried(m)
      BY <2>5, <2>6 DEF Carried
    <2>8. LineIsSound(n)
      <3>1. \A i \in 1..Len(m.line) : n.pubs[m.line[i].pub] = m.pubs[m.line[i].pub]
        BY <1>1, <2>3, <2>5
      <3> QED  BY <2>5, <2>7, <3>1 DEF Sound, LineIsSound, SameSession
    <2>9. SentIsCarried(n)
      BY <2>5, <2>6, <2>7 DEF Sound, SentIsCarried, Carried
    <2>10. SessionIsSound(n)
      BY <2>5, <2>7 DEF Sound, SessionIsSound, SameSession
    <2>11. Waits(n) /\ Kept(n)
      BY <2>5, <2>6 DEF Sound, Waits, Kept, Answering, Waiting, SameSession
    <2>12. ASSUME NEW s, Agrees(m, s)  PROVE Agrees(n, s)
      BY <2>5, <2>6, <2>7, <2>12 DEF Agrees, SameSession, Carried
    <2> QED  BY <2>4, <2>5, <2>8, <2>9, <2>10, <2>11, <2>12 DEF Follows, Sound
  <1>4. CASE m.mic = p
    <2>1. Idle(m, p)
      BY <1>2, <1>4 DEF Sound, Waits, Idle
    <2>2. CASE m.pubs[p].tries < 2
      <3>1. PICK k \in 0..2 : k = m.pubs[p].tries + 1
        BY <2>2, PubFields
      <3>2. n = ProduceFor([m EXCEPT !.pubs[p].loop = "trying", !.pubs[p].tries = k], p, TRUE)
        <4>1. m.pubs \in [Publications -> PublicationRecords]
          BY Fields
        <4> QED  BY <1>4, <2>2, <3>1, <4>1 DEF Rested, PublicationRecords, Connections
      <3> QED  BY <2>1, <3>2, Trying
    <2>3. CASE ~(m.pubs[p].tries < 2)
      BY <1>4, <2>1, <2>3, Undoing DEF Rested
    <2> QED  BY <2>2, <2>3
  <1> QED  BY <1>3, <1>4

-----------------------------------------------------------------------------
(* The session.                                                            *)

\* A connection without transport, production or producer.
Blank(m) ==
    /\ m.send = None /\ Len(m.line) = 0
    /\ \A y \in Producers : m.sent[y] = None
    /\ m.mic # None => m.pubs[m.mic].producer = None /\ m.pubs[m.mic].loop # "resting"
    /\ \A p \in Publications : m.promise[p] # "pending"

LEMMA BlankIsSound ==
    ASSUME NEW m \in Connections, Blank(m)
    PROVE  /\ LineIsSound(m) /\ SentIsCarried(m) /\ Waits(m) /\ Kept(m)
           /\ ~Carried(m)
           /\ m.build # "made" => \A s : Agrees(m, s)
  <1>1. ~Carried(m)
    BY DEF Blank, Carried
  <1>2. LineIsSound(m)
    BY <1>1 DEF Blank, LineIsSound
  <1>3. SentIsCarried(m)
    BY <1>1, NoneApart DEF Blank, SentIsCarried
  <1>4. Waits(m) /\ Kept(m)
    BY DEF Blank, Waits, Kept
  <1>5. m.build # "made" => \A s : Agrees(m, s)
    BY <1>1 DEF Blank, Agrees
  <1> QED  BY <1>1, <1>2, <1>3, <1>4, <1>5

\* What releaseMedia leaves, before it stops the tracks.
Emptied(m, k, st, c, h, g) ==
    [m EXCEPT !.send = None, !.line = k, !.sent = st, !.mic = c, !.promise = h, !.pubs = g]

LEMMA Emptying ==
    ASSUME NEW m \in Connections, NEW k \in Seq(Productions),
           NEW st \in [Producers -> Captures \cup {None}],
           NEW c \in Publications \cup {None},
           NEW h \in [Publications -> {"none", "pending", "ok", "failed"}],
           NEW g \in [Publications -> PublicationRecords],
           NEW n, n = Emptied(m, k, st, c, h, g)
    PROVE  n \in Connections
  <1>1. None \in Transports \cup {None}
    OBVIOUS
  <1> QED  BY <1>1 DEF Emptied, Connections

\* Stopping the tracks takes what is published with it.
Stopped(m, l) == [m EXCEPT !.mic = None, !.live = l]

LEMMA Stopping ==
    ASSUME NEW m \in Connections, NEW l \in SUBSET Captures, NEW n, n = Stopped(m, l)
    PROVE  /\ n \in Connections
           /\ n.alive = m.alive /\ n.channel = m.channel /\ n.sid = m.sid
           /\ n.build = m.build /\ n.first = m.first /\ n.timers = m.timers
           /\ n.send = m.send /\ n.line = m.line /\ n.sent = m.sent /\ n.mic = None
           /\ n.promise = m.promise /\ n.pubs = m.pubs /\ n.closes = m.closes
  BY DEF Stopped, Connections

LEMMA Releasing ==
    ASSUME NEW m \in Connections, SentIsCarried(m), Kept(m), NEW stop \in BOOLEAN,
           NEW n, n = ReleaseMedia(m, stop)
    PROVE  /\ n \in Connections /\ Blank(n)
           /\ n.alive = m.alive /\ n.channel = m.channel /\ n.sid = m.sid
           /\ n.build = m.build /\ n.first = m.first /\ n.timers = m.timers
           /\ n.closes = m.closes
           /\ stop => n.mic = None
           /\ \A p \in Publications : m.promise[p] # "none" => n.promise[p] # "none"
  <1> USE NoneApart
  <1> DEFINE p == m.mic
             x == IF p = None THEN None ELSE m.pubs[p].producer
             Asked(q) == \E i \in DOMAIN m.line : m.line[i].pub = q /\ ~m.line[i].loop
             k == <<>>
             st == IF x = None THEN m.sent ELSE [m.sent EXCEPT ![x] = None]
             c == IF Asked(m.mic) THEN None ELSE m.mic
             h == [q \in Publications |->
                      IF Asked(q) /\ m.promise[q] = "pending" THEN "failed" ELSE m.promise[q]]
             g == [q \in Publications |->
                      [m.pubs[q] EXCEPT !.loop = "none",
                          !.producer = IF q = p THEN None ELSE m.pubs[q].producer]]
             l == m.live \ {m.pubs[p].track}
             a == Emptied(m, k, st, c, h, g)
  <1>1. n = IF stop /\ p # None THEN Stopped(a, l) ELSE a
    BY DEF ReleaseMedia, Emptied, Stopped
  <1>2. k \in Seq(Productions) /\ Len(k) = 0
    BY EmptySeq
  <1>3. st \in [Producers -> Captures \cup {None}] /\ \A y \in Producers : st[y] = None
    <2>1. m.sent \in [Producers -> Captures \cup {None}]
      BY Fields
    <2>2. CASE x = None
      <3>1. \A y \in Producers : m.sent[y] = None
        BY <2>2 DEF SentIsCarried
      <3> QED  BY <2>1, <2>2, <3>1
    <2>3. CASE x # None
      <3>1. \A y \in Producers : y # x => m.sent[y] = None
        BY <2>3 DEF SentIsCarried
      <3> HIDE DEF x
      <3> QED  BY <2>1, <2>3, <3>1
    <2> QED  BY <2>2, <2>3
  <1>4. c \in Publications \cup {None} /\ (c = None \/ c = m.mic)
    BY Fields
  <1>5. \A q \in Publications : m.promise[q] = "pending" => Asked(q)
    BY LineFields DEF Kept, Answering
  <1> HIDE DEF Asked
  <1>6. h \in [Publications -> {"none", "pending", "ok", "failed"}]
    BY Fields
  <1>7. \A q \in Publications :
            h[q] # "pending" /\ (m.promise[q] # "none" => h[q] # "none")
    BY <1>5, Fields
  <1>8. /\ g \in [Publications -> PublicationRecords]
        /\ \A q \in Publications : g[q].loop = "none" /\ (q = p => g[q].producer = None)
    <2> DEFINE G(q) == [m.pubs[q] EXCEPT !.loop = "none",
                           !.producer = IF q = p THEN None ELSE m.pubs[q].producer]
    <2>1. ASSUME NEW q \in Publications
          PROVE  /\ G(q) \in PublicationRecords
                 /\ G(q).loop = "none" /\ (q = p => G(q).producer = None)
      <3>1. m.pubs[q] \in PublicationRecords
        BY PubFields
      <3> QED  BY <3>1 DEF PublicationRecords
    <2>2. g = [q \in Publications |-> G(q)]
      OBVIOUS
    <2> HIDE DEF G, g
    <2> QED  BY <2>1, <2>2
  <1>9. l \in SUBSET Captures
    BY Fields
  <1>10. a = Emptied(m, k, st, c, h, g)
    OBVIOUS
  <1> HIDE DEF k, st, c, h, g, l, a
  <1>11. /\ a \in Connections
         /\ a.alive = m.alive /\ a.channel = m.channel /\ a.sid = m.sid
         /\ a.build = m.build /\ a.first = m.first /\ a.timers = m.timers
         /\ a.send = None /\ a.line = k /\ a.sent = st /\ a.mic = c /\ a.promise = h
         /\ a.pubs = g /\ a.closes = m.closes /\ a.live = m.live
    <2>1. /\ k \in Seq(Productions) /\ st \in [Producers -> Captures \cup {None}]
          /\ c \in Publications \cup {None}
          /\ h \in [Publications -> {"none", "pending", "ok", "failed"}]
          /\ g \in [Publications -> PublicationRecords]
      BY <1>2, <1>3, <1>4, <1>6, <1>8
    <2>2. a \in Connections
      BY ONLY <1>10, <2>1, m \in Connections, Emptying
    <2>3. /\ a.alive = m.alive /\ a.channel = m.channel /\ a.sid = m.sid
          /\ a.build = m.build /\ a.first = m.first /\ a.timers = m.timers
      BY ONLY <1>10, m \in Connections DEF Emptied, Connections
    <2>4. a.send = None /\ a.line = k /\ a.sent = st /\ a.mic = c /\ a.promise = h
      BY ONLY <1>10, m \in Connections DEF Emptied, Connections
    <2>5. a.pubs = g /\ a.closes = m.closes /\ a.live = m.live
      BY ONLY <1>10, m \in Connections DEF Emptied, Connections
    <2> QED  BY <2>2, <2>3, <2>4, <2>5
  <1>12. Blank(a)
    BY <1>2, <1>3, <1>4, <1>7, <1>8, <1>11, Fields DEF Blank
  <1>13. CASE stop /\ p # None
    <2>1. n = Stopped(a, l)
      BY <1>1, <1>13
    <2>2. /\ n \in Connections
          /\ n.alive = a.alive /\ n.channel = a.channel /\ n.sid = a.sid
          /\ n.build = a.build /\ n.first = a.first /\ n.timers = a.timers
          /\ n.send = a.send /\ n.line = a.line /\ n.sent = a.sent /\ n.mic = None
          /\ n.promise = a.promise /\ n.pubs = a.pubs /\ n.closes = a.closes
      BY <1>9, <1>11, <2>1, Stopping
    <2>3. Blank(n)
      BY <1>12, <2>2 DEF Blank
    <2> QED  BY <1>7, <1>11, <2>2, <2>3
  <1>14. CASE ~(stop /\ p # None)
    <2>1. n = a
      BY <1>1, <1>14
    <2>2. stop => n.mic = None
      BY <1>4, <1>11, <1>14, <2>1
    <2> QED  BY <1>7, <1>11, <1>12, <2>1, <2>2
  <1> QED  BY <1>13, <1>14

\* startSession, of a connection that has nothing.
LEMMA Starting ==
    ASSUME NEW m \in Connections, Blank(m), m.channel = "ready", m.alive,
           NEW first \in BOOLEAN, first => m.mic = None,
           NEW n, n = StartSession(m, first)
    PROVE  /\ n \in Connections /\ Sound(n) /\ \A s : Agrees(n, s)
           /\ n.promise = m.promise /\ n.closes = m.closes
  <1>1. /\ n \in Connections
        /\ n.alive = m.alive /\ n.channel = m.channel /\ n.sid = TRUE
        /\ n.build = "caps" /\ n.first = first
        /\ n.send = m.send /\ n.line = m.line /\ n.sent = m.sent /\ n.mic = m.mic
        /\ n.promise = m.promise /\ n.pubs = m.pubs /\ n.closes = m.closes
    BY DEF StartSession, Connections
  <1>2. Blank(n)
    BY <1>1 DEF Blank
  <1>3. /\ LineIsSound(n) /\ SentIsCarried(n) /\ Waits(n) /\ Kept(n) /\ ~Carried(n)
        /\ \A s : Agrees(n, s)
    BY <1>1, <1>2, BlankIsSound
  <1>4. SessionIsSound(n)
    BY <1>1, <1>2, <1>3 DEF Blank, SessionIsSound
  <1> QED  BY <1>1, <1>3, <1>4 DEF Sound

\* startSession threw, while the channel is up.
LEMMA Breaking ==
    ASSUME NEW m \in Connections, NEW n, n = Broken(m)
    PROVE  /\ n \in Connections
           /\ n.alive = m.alive /\ n.channel = m.channel /\ n.sid = m.sid /\ n.send = m.send
           /\ n.build = "none" /\ n.first = m.first /\ (m.first \/ n.timers # 0)
           /\ n.mic = m.mic /\ n.pubs = m.pubs /\ n.line = m.line /\ n.sent = m.sent
           /\ n.closes = m.closes /\ n.promise = m.promise
  <1> DEFINE k == IF m.first \/ m.timers = MaxTimers THEN m.timers ELSE m.timers + 1
  <1>1. n = [m EXCEPT !.build = "none", !.timers = k]
    BY DEF Broken
  <1>2. k \in 0..MaxTimers /\ (m.first \/ k # 0)
    BY Fields, PublishingAssumption DEF PublishingAssumption
  <1> HIDE DEF k
  <1>3. n \in Connections
    BY <1>1, <1>2 DEF Connections
  <1> QED  BY <1>1, <1>2, <1>3 DEF Connections

LEMMA SessionBroken ==
    ASSUME NEW m \in Connections, Sound(m), m.build # "none",
           NEW n, n = Broken(m)
    PROVE  Follows(m, n)
  <1>1. /\ n \in Connections
        /\ n.alive = m.alive /\ n.channel = m.channel /\ n.sid = m.sid /\ n.send = m.send
        /\ n.build = "none" /\ n.first = m.first /\ (m.first \/ n.timers # 0)
        /\ n.mic = m.mic /\ n.pubs = m.pubs /\ n.line = m.line /\ n.sent = m.sent
        /\ n.closes = m.closes /\ n.promise = m.promise
    BY Breaking
  <1>2. Carried(n) <=> Carried(m)
    BY <1>1 DEF Carried
  <1>3. LineIsSound(n) /\ SentIsCarried(n)
    BY <1>1, <1>2 DEF Sound, LineIsSound, SentIsCarried
  <1>4. SessionIsSound(n)
    BY <1>1, <1>2 DEF Sound, SessionIsSound
  <1>5. Waits(n) /\ Kept(n)
    BY <1>1 DEF Sound, Waits, Waiting, Kept, Answering
  <1>6. ASSUME NEW s, Agrees(m, s)  PROVE Agrees(n, s)
    BY <1>1, <1>2, <1>6 DEF Agrees
  <1> QED  BY <1>1, <1>3, <1>4, <1>5, <1>6 DEF Follows, Sound

\* The channel is down: what was under way failed, and the rest waits.
LEMMA Dropped ==
    ASSUME NEW d \in Connections, Sound(d), d.channel = "ready",
           NEW n \in Connections,
           n.alive = d.alive, n.send = d.send, n.first = d.first, n.mic = d.mic,
           n.pubs = d.pubs, n.line = d.line, n.sent = d.sent, n.promise = d.promise,
           n.channel = "reconnecting", n.build = "none", n.sid => d.sid,
           \A y \in Producers : n.closes[y] # "no" => d.closes[y] # "no",
           \A i \in 1..Len(n.line) : n.line[i].stage = "queued"
    PROVE  Follows(d, n)
  <1>1. Carried(n) <=> Carried(d)
    BY DEF Carried
  <1>2. LineIsSound(n)
    BY <1>1 DEF Sound, LineIsSound
  <1>3. SentIsCarried(n)
    BY <1>1 DEF Sound, SentIsCarried
  <1>4. SessionIsSound(n)
    BY <1>1 DEF Sound, SessionIsSound
  <1>5. Waits(n) /\ Kept(n)
    BY DEF Sound, Waits, Waiting, Kept, Answering
  <1>6. ASSUME NEW s, Agrees(d, s)  PROVE Agrees(n, s)
    BY <1>1, <1>6 DEF Agrees
  <1> QED  BY <1>2, <1>3, <1>4, <1>5, <1>6 DEF Follows, Sound

\* Giving up depends on what the page publishes alone.
LEMMA GivingUpAlike ==
    ASSUME NEW a \in Connections, NEW b \in Connections,
           a.mic = b.mic, a.pubs = b.pubs, a.promise = b.promise,
           NEW p, NEW loop,
           NEW c, c = ProduceFailed(a, p, loop), NEW d, d = ProduceFailed(b, p, loop)
    PROVE  c.mic = d.mic /\ c.pubs = d.pubs /\ c.promise = d.promise
  <1>1. CASE loop
    BY <1>1 DEF ProduceFailed, Connections
  <1>2. CASE ~loop
    BY <1>2 DEF ProduceFailed, Connections
  <1> QED  BY <1>1, <1>2

\* The line without its head, if the request of the head went out.
Spared(m) ==
    IF m.line = <<>> \/ Head(m.line).stage = "queued" THEN m
    ELSE ProduceFailed([m EXCEPT !.line = Tail(@)], Head(m.line).pub, Head(m.line).loop)

Unasked(closes) == [y \in Producers |-> IF closes[y] = "asked" THEN "no" ELSE closes[y]]

LEMMA FallenFields ==
    ASSUME NEW m \in Connections, NEW n, n = Fallen(m)
    PROVE  /\ n \in Connections
           /\ n.alive = m.alive /\ n.channel = "reconnecting" /\ n.sid = m.sid
           /\ n.send = m.send /\ n.build = "none" /\ n.first = m.first
           /\ n.sent = m.sent /\ n.closes = Unasked(m.closes)
           /\ n.line = Spared(m).line /\ n.mic = Spared(m).mic
           /\ n.pubs = Spared(m).pubs /\ n.promise = Spared(m).promise
  <1> DEFINE cl == Unasked(m.closes)
             down == [m EXCEPT !.channel = "reconnecting", !.closes = cl]
             a == IF m.build = "none" THEN down ELSE Broken(down)
  <1>1. cl \in [Producers -> {"no", "waiting", "asked"}]
    BY Fields DEF Unasked
  <1>2. n = IF a.line = <<>> \/ Head(a.line).stage = "queued" THEN a
            ELSE ProduceFailed([a EXCEPT !.line = Tail(@)], Head(a.line).pub, Head(a.line).loop)
    BY DEF Fallen, Unasked
  <1> HIDE DEF cl
  <1>3. /\ down \in Connections
        /\ down.alive = m.alive /\ down.channel = "reconnecting" /\ down.sid = m.sid
        /\ down.send = m.send /\ down.build = m.build /\ down.first = m.first
        /\ down.mic = m.mic /\ down.pubs = m.pubs /\ down.line = m.line /\ down.sent = m.sent
        /\ down.closes = cl /\ down.promise = m.promise
    BY <1>1 DEF Connections
  <1> HIDE DEF down
  <1>4. /\ a \in Connections
        /\ a.alive = m.alive /\ a.channel = "reconnecting" /\ a.sid = m.sid
        /\ a.send = m.send /\ a.build = "none" /\ a.first = m.first
        /\ a.mic = m.mic /\ a.pubs = m.pubs /\ a.line = m.line /\ a.sent = m.sent
        /\ a.closes = cl /\ a.promise = m.promise
    <2>1. CASE m.build = "none"
      BY <1>3, <2>1
    <2>2. CASE m.build # "none"
      <3>1. a = Broken(down)
        BY <2>2
      <3> HIDE DEF a
      <3>2. /\ a \in Connections
            /\ a.alive = down.alive /\ a.channel = down.channel /\ a.sid = down.sid
            /\ a.send = down.send /\ a.build = "none" /\ a.first = down.first
            /\ a.mic = down.mic /\ a.pubs = down.pubs /\ a.line = down.line
            /\ a.sent = down.sent /\ a.closes = down.closes /\ a.promise = down.promise
        BY <1>3, <3>1, Breaking
      <3> QED  BY <1>3, <3>2
    <2> QED  BY <2>1, <2>2
  <1> HIDE DEF a
  <1>5. CASE m.line = <<>> \/ Head(m.line).stage = "queued"
    BY <1>2, <1>4, <1>5 DEF Spared, cl
  <1>6. CASE ~(m.line = <<>> \/ Head(m.line).stage = "queued")
    <2> DEFINE pub == Head(m.line).pub
               loop == Head(m.line).loop
               t == [m EXCEPT !.line = Tail(m.line)]
               u == [a EXCEPT !.line = Tail(m.line)]
    <2>1. n = ProduceFailed(u, pub, loop)
      BY <1>2, <1>4, <1>6
    <2>2. Spared(m) = ProduceFailed(t, pub, loop)
      BY <1>6 DEF Spared
    <2>3. Len(m.line) # 0
      BY <1>6, LineFields
    <2>4. Tail(m.line) \in Seq(Productions)
      BY <2>3, Taking
    <2>5. PICK p \in Publications, lo \in BOOLEAN : p = pub /\ lo = loop
      BY <2>3, Taking, LineFields
    <2>6. /\ t \in Connections /\ t.mic = m.mic /\ t.pubs = m.pubs
          /\ t.line = Tail(m.line) /\ t.promise = m.promise
      BY <2>4 DEF Connections
    <2>7. /\ u \in Connections
          /\ u.alive = m.alive /\ u.channel = "reconnecting" /\ u.sid = m.sid
          /\ u.send = m.send /\ u.build = "none" /\ u.first = m.first
          /\ u.mic = m.mic /\ u.pubs = m.pubs /\ u.line = Tail(m.line) /\ u.sent = m.sent
          /\ u.closes = cl /\ u.promise = m.promise
      BY <1>4, <2>4 DEF Connections
    <2> HIDE DEF t, u
    <2>8. /\ n.mic = Spared(m).mic /\ n.pubs = Spared(m).pubs
          /\ n.promise = Spared(m).promise
      BY <2>1, <2>2, <2>6, <2>7, GivingUpAlike
    <2> HIDE DEF pub, loop
    <2>9. /\ n \in Connections /\ SameSession(u, n)
          /\ n.line = u.line /\ n.sent = u.sent /\ n.closes = u.closes
      BY <2>1, <2>5, <2>7, GivingUp
    <2>10. Spared(m).line = t.line
      BY <2>2, <2>5, <2>6, GivingUp
    <2> QED  BY <2>6, <2>7, <2>8, <2>9, <2>10 DEF SameSession, cl
  <1> QED  BY <1>5, <1>6

LEMMA Sparing ==
    ASSUME NEW m \in Connections, Sound(m),
           NEW d, d = Spared(m)
    PROVE  /\ Follows(m, d) /\ SameSession(m, d)
           /\ d.sent = m.sent /\ d.closes = m.closes
           /\ \A i \in 1..Len(d.line) : d.line[i].stage = "queued"
  <1>1. CASE m.line = <<>> \/ Head(m.line).stage = "queued"
    <2>1. d = m
      BY <1>1 DEF Spared
    <2>2. \A i \in 1..Len(m.line) : m.line[i].stage = "queued"
      <3>1. CASE m.line = <<>>
        BY <3>1, LineFields
      <3>2. CASE m.line # <<>>
        <4>1. Len(m.line) # 0
          BY <3>2, LineFields
        <4>2. m.line[1].stage = "queued"
          BY <1>1, <3>2, <4>1, Taking
        <4> QED  BY <4>2 DEF Sound, LineIsSound
      <3> QED  BY <3>1, <3>2
    <2> QED  BY <2>1, <2>2 DEF Follows, SameSession
  <1>2. CASE ~(m.line = <<>> \/ Head(m.line).stage = "queued")
    <2>1. m.line # <<>>
      BY <1>2
    <2>2. /\ Follows(m, d) /\ SameSession(m, d)
          /\ d.line = Tail(m.line) /\ d.sent = m.sent /\ d.closes = m.closes
      BY <1>2, <2>1, Failing DEF Spared
    <2>3. Len(m.line) # 0
      BY <2>1, LineFields
    <2>4. \A i \in 1..Len(Tail(m.line)) : Tail(m.line)[i].stage = "queued"
      <3> SUFFICES ASSUME NEW i \in 1..Len(Tail(m.line))
                   PROVE  Tail(m.line)[i].stage = "queued"
        OBVIOUS
      <3>1. i + 1 \in 1..Len(m.line) /\ i + 1 > 1 /\ Tail(m.line)[i] = m.line[i + 1]
        BY <2>3, Taking
      <3> QED  BY <3>1 DEF Sound, LineIsSound
    <2> QED  BY <2>2, <2>4
  <1> QED  BY <1>1, <1>2

LEMMA Falling ==
    ASSUME NEW m \in Connections, Sound(m), m.channel = "ready",
           NEW n, n = Fallen(m)
    PROVE  Follows(m, n) /\ n.channel = "reconnecting"
  <1>1. /\ n \in Connections
        /\ n.alive = m.alive /\ n.channel = "reconnecting" /\ n.sid = m.sid
        /\ n.send = m.send /\ n.build = "none" /\ n.first = m.first
        /\ n.sent = m.sent /\ n.closes = Unasked(m.closes)
        /\ n.line = Spared(m).line /\ n.mic = Spared(m).mic
        /\ n.pubs = Spared(m).pubs /\ n.promise = Spared(m).promise
    BY FallenFields
  <1>2. PICK d : d = Spared(m)
    OBVIOUS
  <1>3. /\ Follows(m, d) /\ SameSession(m, d)
        /\ d.sent = m.sent /\ d.closes = m.closes
        /\ \A i \in 1..Len(d.line) : d.line[i].stage = "queued"
    BY <1>2, Sparing
  <1>4. \A y \in Producers : n.closes[y] # "no" => d.closes[y] # "no"
    BY <1>1, <1>3 DEF Unasked
  <1>5. /\ n.alive = d.alive /\ n.send = d.send /\ n.first = d.first /\ n.mic = d.mic
        /\ n.pubs = d.pubs /\ n.line = d.line /\ n.sent = d.sent /\ n.promise = d.promise
        /\ n.sid = d.sid /\ d.channel = "ready" /\ d \in Connections /\ Sound(d)
        /\ \A i \in 1..Len(n.line) : n.line[i].stage = "queued"
    BY <1>1, <1>2, <1>3 DEF Follows, SameSession
  <1>6. Follows(d, n)
    BY <1>1, <1>4, <1>5, Dropped
  <1> QED  BY <1>1, <1>3, <1>6, FollowsTransitive

\* Down, a connection may forget its session and its timeouts.
LEMMA OffChannel ==
    ASSUME NEW d \in Connections, Sound(d), d.channel # "ready", NEW n \in Connections,
           n.alive = d.alive, n.channel = d.channel, n.send = d.send, n.build = d.build,
           n.first = d.first, n.mic = d.mic, n.pubs = d.pubs, n.line = d.line,
           n.sent = d.sent, n.closes = d.closes, n.promise = d.promise,
           n.sid => d.sid
    PROVE  Follows(d, n)
  <1>1. Carried(n) <=> Carried(d)
    BY DEF Carried
  <1>2. LineIsSound(n) /\ SentIsCarried(n)
    BY <1>1 DEF Sound, LineIsSound, SentIsCarried
  <1>3. SessionIsSound(n)
    BY <1>1 DEF Sound, SessionIsSound
  <1>4. Waits(n) /\ Kept(n)
    BY DEF Sound, Waits, Waiting, Kept, Answering
  <1>5. ASSUME NEW s, Agrees(d, s)  PROVE Agrees(n, s)
    BY <1>1, <1>5 DEF Agrees
  <1> QED  BY <1>2, <1>3, <1>4, <1>5 DEF Follows, Sound

\* What falls does not depend on the timeouts.
LEMMA FallenAlike ==
    ASSUME NEW m \in Connections, NEW k \in 0..MaxTimers,
           NEW a, a = Fallen([m EXCEPT !.timers = k]), NEW b, b = Fallen(m)
    PROVE  /\ a \in Connections
           /\ a.alive = b.alive /\ a.channel = b.channel /\ a.sid = b.sid
           /\ a.send = b.send /\ a.build = b.build /\ a.first = b.first
           /\ a.mic = b.mic /\ a.pubs = b.pubs /\ a.line = b.line /\ a.sent = b.sent
           /\ a.closes = b.closes /\ a.promise = b.promise
  <1> DEFINE n == [m EXCEPT !.timers = k]
  <1>1. /\ n \in Connections
        /\ n.alive = m.alive /\ n.sid = m.sid /\ n.send = m.send /\ n.first = m.first
        /\ n.mic = m.mic /\ n.pubs = m.pubs /\ n.line = m.line /\ n.sent = m.sent
        /\ n.closes = m.closes /\ n.promise = m.promise
    BY DEF Connections
  <1>2. a = Fallen(n)
    OBVIOUS
  <1> HIDE DEF n
  <1>3. /\ a \in Connections
        /\ a.alive = n.alive /\ a.channel = "reconnecting" /\ a.sid = n.sid
        /\ a.send = n.send /\ a.build = "none" /\ a.first = n.first
        /\ a.sent = n.sent /\ a.closes = Unasked(n.closes)
        /\ a.line = Spared(n).line /\ a.mic = Spared(n).mic
        /\ a.pubs = Spared(n).pubs /\ a.promise = Spared(n).promise
    BY <1>1, <1>2, FallenFields
  <1>4. /\ b.alive = m.alive /\ b.channel = "reconnecting" /\ b.sid = m.sid
        /\ b.send = m.send /\ b.build = "none" /\ b.first = m.first
        /\ b.sent = m.sent /\ b.closes = Unasked(m.closes)
        /\ b.line = Spared(m).line /\ b.mic = Spared(m).mic
        /\ b.pubs = Spared(m).pubs /\ b.promise = Spared(m).promise
    BY FallenFields
  <1>5. /\ Spared(n).line = Spared(m).line /\ Spared(n).mic = Spared(m).mic
        /\ Spared(n).pubs = Spared(m).pubs /\ Spared(n).promise = Spared(m).promise
    <2>1. CASE m.line = <<>> \/ Head(m.line).stage = "queued"
      BY <1>1, <2>1 DEF Spared
    <2>2. CASE ~(m.line = <<>> \/ Head(m.line).stage = "queued")
      <3> DEFINE pub == Head(m.line).pub
                 loop == Head(m.line).loop
                 t == [m EXCEPT !.line = Tail(m.line)]
                 u == [n EXCEPT !.line = Tail(m.line)]
      <3>1. Spared(m) = ProduceFailed(t, pub, loop) /\ Spared(n) = ProduceFailed(u, pub, loop)
        BY <1>1, <2>2 DEF Spared
      <3>2. Len(m.line) # 0
        BY <2>2, LineFields
      <3>3. Tail(m.line) \in Seq(Productions)
        BY <3>2, Taking
      <3>4. PICK p \in Publications, lo \in BOOLEAN : p = pub /\ lo = loop
        BY <3>2, Taking, LineFields
      <3>5. /\ t \in Connections /\ t.mic = m.mic /\ t.pubs = m.pubs
            /\ t.line = Tail(m.line) /\ t.promise = m.promise
        BY <3>3 DEF Connections
      <3>6. /\ u \in Connections /\ u.mic = n.mic /\ u.pubs = n.pubs
            /\ u.line = Tail(m.line) /\ u.promise = n.promise
        BY <1>1, <3>3 DEF Connections
      <3> HIDE DEF t, u
      <3>7. /\ Spared(n).mic = Spared(m).mic /\ Spared(n).pubs = Spared(m).pubs
            /\ Spared(n).promise = Spared(m).promise
        BY <1>1, <3>1, <3>5, <3>6, GivingUpAlike
      <3> HIDE DEF pub, loop
      <3>8. Spared(m).line = t.line
        BY <3>1, <3>4, <3>5, GivingUp
      <3>9. Spared(n).line = u.line
        BY <3>1, <3>4, <3>6, GivingUp
      <3> QED  BY <3>5, <3>6, <3>7, <3>8, <3>9
    <2> QED  BY <2>1, <2>2
  <1> QED  BY <1>1, <1>3, <1>4, <1>5

\* Only the requests to close change, and none is new.
LEMMA Reclosing ==
    ASSUME NEW m \in Connections, Sound(m),
           NEW cl \in [Producers -> {"no", "waiting", "asked"}],
           \A y \in Producers : cl[y] # "no" => m.closes[y] # "no",
           NEW n, n = [m EXCEPT !.closes = cl]
    PROVE  Follows(m, n)
  <1>1. /\ n \in Connections /\ SameSession(m, n)
        /\ n.mic = m.mic /\ n.pubs = m.pubs /\ n.line = m.line /\ n.sent = m.sent
        /\ n.closes = cl /\ n.promise = m.promise
    BY DEF Connections, SameSession
  <1>2. Carried(n) <=> Carried(m)
    BY <1>1 DEF Carried
  <1>3. LineIsSound(n) /\ SentIsCarried(n)
    BY <1>1, <1>2 DEF Sound, LineIsSound, SentIsCarried, SameSession
  <1>4. SessionIsSound(n)
    BY <1>1, <1>2 DEF Sound, SessionIsSound, SameSession
  <1>5. Waits(n) /\ Kept(n)
    BY <1>1 DEF Sound, Waits, Waiting, Kept, Answering, SameSession
  <1>6. ASSUME NEW s, Agrees(m, s)  PROVE Agrees(n, s)
    BY <1>1, <1>2, <1>6 DEF Agrees, SameSession
  <1> QED  BY <1>1, <1>3, <1>4, <1>5, <1>6 DEF Follows, Sound

\* The channel is back: the session goes on where it was, or starts anew.
LEMMA BackingUp ==
    ASSUME NEW m \in Connections, Sound(m), m.channel = "reconnecting", Agrees(m, srv),
           NEW intact \in BOOLEAN, intact => m.sid /\ m.send # None,
           NEW n, n = BackUp(m, intact)
    PROVE  Follows(m, n) /\ (~intact => \A s : Agrees(n, s))
  <1> DEFINE up == [m EXCEPT !.channel = "ready"]
             r == ReleaseMedia(up, FALSE)
             a == IF intact THEN Reconcile(up) ELSE StartSession(r, FALSE)
             cl == [y \in Producers |-> IF a.closes[y] = "waiting" THEN "asked" ELSE a.closes[y]]
  <1>1. n = [a EXCEPT !.closes = cl]
    BY DEF BackUp
  <1>2. /\ up \in Connections
        /\ up.alive = m.alive /\ up.channel = "ready" /\ up.sid = m.sid /\ up.send = m.send
        /\ up.build = m.build /\ up.first = m.first /\ up.timers = m.timers
        /\ up.mic = m.mic /\ up.pubs = m.pubs /\ up.line = m.line /\ up.sent = m.sent
        /\ up.closes = m.closes /\ up.promise = m.promise
    BY DEF Connections
  <1>3. m.alive
    BY DEF Sound, SessionIsSound
  <1> HIDE DEF up
  <1>4. /\ Follows(m, a) /\ (~intact => \A s : Agrees(a, s))
    <2>1. CASE intact
      <3>1. Reconcile(up) = up
        <4>1. up.mic = None \/ up.pubs[up.mic].producer \in {None, srv.onAir}
          BY <1>2, <2>1 DEF Agrees, Carried
        <4> QED  BY <4>1 DEF Reconcile
      <3>2. a = up
        BY <2>1, <3>1
      <3>3. Carried(up) <=> Carried(m)
        BY <1>2 DEF Carried
      <3>4. LineIsSound(up) /\ SentIsCarried(up)
        BY <1>2, <3>3 DEF Sound, LineIsSound, SentIsCarried
      <3>5. SessionIsSound(up)
        BY <1>2, <1>3, <2>1, <3>3 DEF Sound, SessionIsSound
      <3>6. Waits(up) /\ Kept(up)
        BY <1>2 DEF Sound, Waits, Waiting, Kept, Answering
      <3>7. ASSUME NEW s, Agrees(m, s)  PROVE Agrees(up, s)
        BY <1>2, <3>3, <3>7 DEF Agrees
      <3> QED  BY <1>2, <2>1, <3>2, <3>4, <3>5, <3>6, <3>7 DEF Follows, Sound
    <2>2. CASE ~intact
      <3>1. a = StartSession(r, FALSE)
        BY <2>2
      <3>2. SentIsCarried(up) /\ Kept(up)
        BY <1>2 DEF Sound, SentIsCarried, Carried, Kept, Answering
      <3>3. PICK no \in BOOLEAN : no = FALSE
        OBVIOUS
      <3>4. r = ReleaseMedia(up, no) /\ a = StartSession(r, no)
        BY <3>1, <3>3, Zenon
      <3> HIDE DEF r, a
      <3>5. /\ r \in Connections /\ Blank(r)
            /\ r.alive = up.alive /\ r.channel = up.channel
            /\ \A p \in Publications : up.promise[p] # "none" => r.promise[p] # "none"
        BY <1>2, <3>2, <3>4, Releasing
      <3>6. r.alive /\ r.channel = "ready"
        BY <1>2, <1>3, <3>5
      <3>7. /\ a \in Connections /\ Sound(a) /\ \A s : Agrees(a, s)
            /\ a.promise = r.promise
        BY <3>3, <3>4, <3>5, <3>6, Starting
      <3> QED  BY <1>2, <3>5, <3>7 DEF Follows
    <2> QED  BY <2>1, <2>2
  <1> HIDE DEF a
  <1>5. a \in Connections /\ Sound(a)
    BY <1>4 DEF Follows
  <1>6. /\ cl \in [Producers -> {"no", "waiting", "asked"}]
        /\ \A y \in Producers : cl[y] # "no" => a.closes[y] # "no"
    BY <1>5, Fields
  <1> HIDE DEF cl
  <1>7. Follows(a, n)
    BY <1>1, <1>5, <1>6, Reclosing
  <1>8. ~intact => \A s : Agrees(n, s)
    BY <1>4, <1>7 DEF Follows
  <1> QED  BY <1>4, <1>7, <1>8, FollowsTransitive

\* The connection ends for good.
LEMMA Ending ==
    ASSUME NEW m \in Connections, Sound(m),
           NEW n, n = Ended(m)
    PROVE  Follows(m, n)
  <1> DEFINE r == ReleaseMedia(m, TRUE)
             cl == [x \in Producers |-> "no"]
  <1>1. n = [r EXCEPT !.alive = FALSE, !.channel = "closed", !.build = "none", !.closes = cl]
    BY DEF Ended
  <1>2. PICK yes \in BOOLEAN : yes = TRUE
    OBVIOUS
  <1>3. r = ReleaseMedia(m, yes)
    BY <1>2, Zenon
  <1> HIDE DEF r
  <1>4. /\ r \in Connections /\ Blank(r) /\ r.mic = None
        /\ \A p \in Publications : m.promise[p] # "none" => r.promise[p] # "none"
    <2>1. SentIsCarried(m) /\ Kept(m)
      BY DEF Sound
    <2>2. /\ r \in Connections /\ Blank(r) /\ (yes => r.mic = None)
          /\ \A p \in Publications : m.promise[p] # "none" => r.promise[p] # "none"
      BY <1>3, <2>1, Releasing
    <2>3. yes
      BY <1>2
    <2> QED  BY <2>2, <2>3
  <1>5. cl \in [Producers -> {"no", "waiting", "asked"}]
    OBVIOUS
  <1> HIDE DEF cl
  <1>6. n \in Connections
    <2>1. r \in Connections
      BY <1>4
    <2> QED  BY ONLY <1>1, <1>5, <2>1 DEF Connections
  <1>7. /\ n.alive = FALSE /\ n.channel = "closed" /\ n.build = "none" /\ n.send = r.send
        /\ n.mic = r.mic /\ n.pubs = r.pubs /\ n.line = r.line /\ n.sent = r.sent
        /\ n.promise = r.promise
    BY <1>1, <1>4 DEF Connections
  <1>8. Blank(n)
    BY <1>4, <1>7 DEF Blank
  <1>9. /\ LineIsSound(n) /\ SentIsCarried(n) /\ Waits(n) /\ Kept(n)
        /\ ~Carried(n) /\ \A s : Agrees(n, s)
    BY <1>6, <1>7, <1>8, BlankIsSound
  <1>10. SessionIsSound(n)
    BY <1>4, <1>7, <1>8, <1>9 DEF SessionIsSound, Blank
  <1> QED  BY <1>4, <1>6, <1>7, <1>9, <1>10 DEF Follows, Sound

-----------------------------------------------------------------------------
(* The channel, the server and the timeouts, step by step.                 *)

\* What a step of the connection or of the server leaves.
Preserved ==
    /\ conn' \in Connections /\ Sound(conn')
    /\ srv' \in Servers /\ Agrees(conn', srv')
    /\ \A p \in Publications : conn.promise[p] # "none" => conn'.promise[p] # "none"

LEMMA StepFollows ==
    ASSUME MicInv, Follows(conn, conn'), srv' = srv
    PROVE  Preserved
  BY DEF MicInv, TypeOK, Follows, Preserved

LEMMA ServerFields ==
    ASSUME NEW s \in Servers
    PROVE  s.transport \in Transports \cup {None} /\ s.onAir \in Producers \cup {None}
  BY DEF Servers

LEMMA NewServerTyped ==
    NewServer \in Servers /\ NewServer.transport = None /\ NewServer.onAir = None
  BY DEF NewServer, Servers

LEMMA ChannelOpensKeeps ==
    ASSUME MicInv, ChannelOpens
    PROVE  Preserved
  <1> DEFINE a == [conn EXCEPT !.channel = "ready"]
  <1>1. conn \in Connections /\ Sound(conn) /\ conn.channel = "opening"
    BY DEF MicInv, TypeOK, ChannelOpens
  <1>2. PICK yes \in BOOLEAN : yes = TRUE
    OBVIOUS
  <1>3. conn' = StartSession(a, yes)
    BY <1>2, Zenon DEF ChannelOpens
  <1>4. /\ a \in Connections
        /\ a.channel = "ready" /\ a.alive = conn.alive /\ a.send = conn.send
        /\ a.mic = conn.mic /\ a.pubs = conn.pubs /\ a.line = conn.line
        /\ a.sent = conn.sent /\ a.promise = conn.promise
    BY <1>1 DEF Connections
  <1> HIDE DEF a
  <1>5. a.alive /\ a.mic = None /\ a.send = None /\ Len(a.line) = 0
    BY <1>1, <1>4 DEF Sound, SessionIsSound
  <1>6. Blank(a)
    <2>1. \A y \in Producers : a.sent[y] = None
      BY <1>1, <1>4, <1>5 DEF Sound, SentIsCarried
    <2>2. \A p \in Publications : a.promise[p] # "pending"
      <3> SUFFICES ASSUME NEW p \in Publications, a.promise[p] = "pending"
                   PROVE  FALSE
        OBVIOUS
      <3>1. PICK i \in 1..Len(conn.line) : TRUE
        BY <1>1, <1>4 DEF Sound, Kept, Answering
      <3> QED  BY <1>4, <1>5, <3>1
    <2> QED  BY <1>5, <2>1, <2>2 DEF Blank
  <1>7. /\ conn' \in Connections /\ Sound(conn') /\ \A s : Agrees(conn', s)
        /\ conn'.promise = a.promise
    BY <1>3, <1>4, <1>5, <1>6, Starting
  <1> QED  BY <1>4, <1>7 DEF Preserved, MicInv, TypeOK, ChannelOpens

LEMMA ChannelFallsKeeps ==
    ASSUME MicInv, ChannelFalls
    PROVE  Preserved
  <1>1. conn \in Connections /\ Sound(conn) /\ conn.channel = "ready"
    BY DEF MicInv, TypeOK, ChannelFalls, Ready
  <1>2. conn' = Fallen(conn) /\ srv' = srv
    BY DEF ChannelFalls
  <1>3. Follows(conn, conn')
    BY <1>1, <1>2, Falling
  <1> QED  BY <1>2, <1>3, StepFollows

LEMMA ServerForgetsKeeps ==
    ASSUME MicInv, ServerForgets
    PROVE  Preserved
  <1>1. conn \in Connections /\ Sound(conn) /\ conn.channel # "ready"
    BY DEF MicInv, TypeOK, ServerForgets, Ready
  <1>2. conn' = [conn EXCEPT !.sid = FALSE] /\ srv' = NewServer
    BY DEF ServerForgets
  <1>3. /\ conn' \in Connections
        /\ conn'.alive = conn.alive /\ conn'.channel = conn.channel /\ conn'.sid = FALSE
        /\ conn'.send = conn.send /\ conn'.build = conn.build /\ conn'.first = conn.first
        /\ conn'.timers = conn.timers /\ conn'.mic = conn.mic /\ conn'.pubs = conn.pubs
        /\ conn'.line = conn.line /\ conn'.sent = conn.sent
        /\ conn'.closes = conn.closes /\ conn'.promise = conn.promise
    BY <1>1, <1>2 DEF Connections
  <1>4. Follows(conn, conn')
    BY <1>1, <1>3, OffChannel
  <1>5. Agrees(conn', srv')
    BY <1>3 DEF Agrees
  <1> QED  BY <1>2, <1>4, <1>5, NewServerTyped DEF Preserved, Follows

LEMMA ChannelReturnsKeeps ==
    ASSUME MicInv, ChannelReturns
    PROVE  Preserved
  <1> DEFINE intact == conn.sid /\ conn.send # None /\ conn.send = srv.transport
  <1>1. conn \in Connections /\ Sound(conn) /\ Agrees(conn, srv) /\ srv \in Servers
    BY DEF MicInv, TypeOK
  <1>2. conn.channel = "reconnecting" /\ (srv' = srv \/ (~conn.sid /\ srv' = NewServer))
    BY DEF ChannelReturns
  <1>3. conn' = BackUp(conn, intact)
    BY DEF ChannelReturns
  <1>4. PICK b \in BOOLEAN : b = intact
    OBVIOUS
  <1>5. conn' = BackUp(conn, b) /\ (b => conn.sid /\ conn.send # None)
    BY <1>3, <1>4, Zenon
  <1>6. Follows(conn, conn') /\ (~b => \A s : Agrees(conn', s))
    BY <1>1, <1>2, <1>5, BackingUp
  <1>7. Agrees(conn', srv')
    BY <1>1, <1>2, <1>5, <1>6 DEF Follows
  <1> QED  BY <1>1, <1>2, <1>6, <1>7, NewServerTyped DEF Preserved, Follows

\* Only what startSession waits for changes.
LEMMA BuildMoves ==
    ASSUME MicInv, conn.build # "none", NEW k \in {"asking", "made"},
           conn' = [conn EXCEPT !.build = k]
    PROVE  /\ conn' \in Connections /\ Sound(conn')
           /\ \A s : k = "made" /\ s.transport # None => Agrees(conn', s)
           /\ k # "made" => \A s : Agrees(conn', s)
           /\ conn'.promise = conn.promise
  <1>1. conn \in Connections /\ Sound(conn)
    BY DEF MicInv, TypeOK
  <1>2. /\ conn' \in Connections
        /\ conn'.alive = conn.alive /\ conn'.channel = conn.channel /\ conn'.sid = conn.sid
        /\ conn'.send = conn.send /\ conn'.build = k /\ conn'.first = conn.first
        /\ conn'.timers = conn.timers /\ conn'.mic = conn.mic /\ conn'.pubs = conn.pubs
        /\ conn'.line = conn.line /\ conn'.sent = conn.sent
        /\ conn'.closes = conn.closes /\ conn'.promise = conn.promise
    BY <1>1 DEF Connections
  <1>3. Carried(conn') <=> Carried(conn)
    BY <1>2 DEF Carried
  <1>4. conn.send = None /\ ~Carried(conn) /\ Len(conn.line) = 0
    BY <1>1 DEF Sound, SessionIsSound
  <1>5. LineIsSound(conn') /\ SentIsCarried(conn')
    BY <1>1, <1>2, <1>3 DEF Sound, LineIsSound, SentIsCarried
  <1>6. SessionIsSound(conn')
    BY <1>1, <1>2, <1>3 DEF Sound, SessionIsSound
  <1>7. Waits(conn') /\ Kept(conn')
    BY <1>1, <1>2 DEF Sound, Waits, Waiting, Kept, Answering
  <1>8. ASSUME NEW s, k = "made" => s.transport # None
        PROVE  Agrees(conn', s)
    BY <1>2, <1>3, <1>4, <1>8 DEF Agrees
  <1> QED  BY <1>2, <1>5, <1>6, <1>7, <1>8 DEF Sound

LEMMA CapabilitiesSetKeeps ==
    ASSUME MicInv, CapabilitiesSet
    PROVE  Preserved
  <1>1. conn.build # "none" /\ conn' = [conn EXCEPT !.build = "asking"] /\ srv' = srv
    BY DEF CapabilitiesSet
  <1>2. PICK k \in {"asking", "made"} : k = "asking"
    OBVIOUS
  <1>3. conn' = [conn EXCEPT !.build = k]
    BY <1>1, <1>2
  <1>4. /\ conn' \in Connections /\ Sound(conn') /\ Agrees(conn', srv')
        /\ conn'.promise = conn.promise
    BY <1>1, <1>2, <1>3, BuildMoves
  <1> QED  BY <1>1, <1>4 DEF Preserved, MicInv, TypeOK

LEMMA ServerMakesTransportKeeps ==
    ASSUME MicInv, NEW t \in Transports, ServerMakesTransport(t)
    PROVE  Preserved
  <1>1. conn.build # "none" /\ conn' = [conn EXCEPT !.build = "made"]
    BY DEF ServerMakesTransport
  <1>2. srv' = [transport |-> t, onAir |-> None]
    BY DEF ServerMakesTransport
  <1>3. srv' \in Servers /\ srv'.transport # None
    BY <1>2, NoneApart DEF Servers
  <1>4. PICK k \in {"asking", "made"} : k = "made"
    OBVIOUS
  <1>5. conn' = [conn EXCEPT !.build = k]
    BY <1>1, <1>4
  <1>6. /\ conn' \in Connections /\ Sound(conn') /\ Agrees(conn', srv')
        /\ conn'.promise = conn.promise
    BY <1>1, <1>3, <1>4, <1>5, BuildMoves
  <1> QED  BY <1>3, <1>6 DEF Preserved

LEMMA SessionRefusedKeeps ==
    ASSUME MicInv, SessionRefused
    PROVE  Preserved
  <1>1. conn \in Connections /\ Sound(conn) /\ conn.build # "none"
    BY DEF MicInv, TypeOK, SessionRefused
  <1>2. conn' = Broken(conn) /\ srv' = srv
    BY DEF SessionRefused
  <1>3. Follows(conn, conn')
    BY <1>1, <1>2, SessionBroken
  <1> QED  BY <1>2, <1>3, StepFollows

LEMMA ConnectionEndsKeeps ==
    ASSUME MicInv, ConnectionEnds
    PROVE  Preserved
  <1>1. conn \in Connections /\ Sound(conn)
    BY DEF MicInv, TypeOK
  <1>2. conn' = Ended(conn) /\ srv' = srv
    BY DEF ConnectionEnds
  <1>3. Follows(conn, conn')
    BY <1>1, <1>2, Ending
  <1> QED  BY <1>2, <1>3, StepFollows

LEMMA TransportsCreatedKeeps ==
    ASSUME MicInv, TransportsCreated
    PROVE  Preserved
  <1> USE NoneApart
  <1> DEFINE t == srv.transport
             n == [conn EXCEPT !.build = "none", !.send = t]
  <1>1. /\ conn \in Connections /\ Sound(conn) /\ srv \in Servers /\ Agrees(conn, srv)
        /\ conn.channel = "ready" /\ conn.build = "made" /\ srv' = srv
    BY DEF MicInv, TypeOK, TransportsCreated, Ready
  <1>2. conn' = IF n.mic = None THEN n ELSE Republish(n, n.mic)
    BY DEF TransportsCreated
  <1>3. conn.sid /\ conn.send = None /\ ~Carried(conn) /\ Len(conn.line) = 0 /\ conn.alive
    BY <1>1 DEF Sound, SessionIsSound
  <1>4. t # None /\ t \in Transports \cup {None}
    BY <1>1, <1>3, ServerFields DEF Agrees
  <1>5. /\ n \in Connections
        /\ n.alive = conn.alive /\ n.channel = conn.channel /\ n.sid = conn.sid
        /\ n.send = t /\ n.build = "none" /\ n.first = conn.first
        /\ n.timers = conn.timers /\ n.mic = conn.mic /\ n.pubs = conn.pubs
        /\ n.line = conn.line /\ n.sent = conn.sent
        /\ n.closes = conn.closes /\ n.promise = conn.promise
    BY <1>1, <1>4 DEF Connections
  <1> HIDE DEF n
  <1>6. ~Carried(n)
    BY <1>3, <1>5 DEF Carried
  <1>7. LineIsSound(n) /\ SentIsCarried(n)
    BY <1>1, <1>3, <1>5, <1>6 DEF Sound, LineIsSound, SentIsCarried, Carried
  <1>8. SessionIsSound(n)
    BY <1>1, <1>3, <1>4, <1>5, <1>6 DEF Sound, SessionIsSound
  <1>9. Kept(n)
    BY <1>1, <1>5 DEF Sound, Kept, Answering
  <1>10. Agrees(n, srv)
    BY <1>3, <1>5, <1>6 DEF Agrees
  <1>11. CASE n.mic = None
    <2>1. Waits(n)
      BY <1>11 DEF Waits
    <2> QED  BY <1>1, <1>2, <1>5, <1>7, <1>8, <1>9, <1>10, <1>11, <2>1 DEF Preserved, Sound
  <1>12. CASE n.mic # None
    <2>1. PICK p \in Publications : p = n.mic
      BY <1>5, <1>12, Fields
    <2>2. conn' = Republish(n, p)
      BY <1>2, <1>12, <2>1
    <2>3. Idle(n, p)
      BY <1>3, <1>5, <1>6, <1>7, <1>8, <1>9, <1>12, <2>1 DEF Idle, Carried, Waiting
    <2>4. Follows(n, conn')
      BY <1>5, <2>2, <2>3, Republishing
    <2> QED  BY <1>1, <1>5, <1>10, <2>4 DEF Follows, Preserved
  <1> QED  BY <1>11, <1>12

LEMMA RebuildTimeoutKeeps ==
    ASSUME MicInv, RebuildTimeout
    PROVE  Preserved
  <1> DEFINE k == conn.timers - 1
             n == [conn EXCEPT !.timers = k]
  <1>1. /\ conn \in Connections /\ Sound(conn) /\ srv' = srv
        /\ conn.timers > 0
    BY DEF MicInv, TypeOK, RebuildTimeout
  <1>2. k \in 0..MaxTimers
    BY <1>1, Fields, PublishingAssumption DEF PublishingAssumption
  <1>3. conn' = IF ~conn.alive THEN n
                ELSE IF Ready THEN [Fallen(n) EXCEPT !.sid = FALSE]
                ELSE [n EXCEPT !.sid = FALSE]
    BY DEF RebuildTimeout
  <1> HIDE DEF k
  <1>4. CASE ~conn.alive \/ ~Ready
    <2>1. conn.channel # "ready"
      BY <1>1, <1>4 DEF Sound, SessionIsSound, Ready
    <2>2. n \in Connections
      BY <1>1, <1>2 DEF Connections
    <2>3. conn' = n \/ conn' = [n EXCEPT !.sid = FALSE]
      BY <1>3, <1>4
    <2>4. conn' \in Connections
      <3>1. [n EXCEPT !.sid = FALSE] \in Connections
        BY ONLY <2>2 DEF Connections
      <3> QED  BY <2>2, <2>3, <3>1
    <2>5. /\ conn'.alive = conn.alive /\ conn'.channel = conn.channel
          /\ conn'.send = conn.send /\ conn'.build = conn.build /\ conn'.first = conn.first
          /\ conn'.mic = conn.mic /\ conn'.pubs = conn.pubs /\ conn'.line = conn.line
          /\ conn'.sent = conn.sent /\ conn'.closes = conn.closes
          /\ conn'.promise = conn.promise
      BY <1>1, <2>3 DEF Connections
    <2>6. conn'.sid => conn.sid
      BY <1>1, <2>3 DEF Connections
    <2>7. Follows(conn, conn')
      BY <1>1, <2>1, <2>4, <2>5, <2>6, OffChannel
    <2> QED  BY <1>1, <2>7, StepFollows
  <1>5. CASE conn.alive /\ Ready
    <2> DEFINE a == Fallen(n)
               b == Fallen(conn)
    <2>1. conn' = [a EXCEPT !.sid = FALSE]
      BY <1>3, <1>5
    <2>2. /\ a \in Connections
          /\ a.alive = b.alive /\ a.channel = b.channel /\ a.sid = b.sid
          /\ a.send = b.send /\ a.build = b.build /\ a.first = b.first
          /\ a.mic = b.mic /\ a.pubs = b.pubs /\ a.line = b.line /\ a.sent = b.sent
          /\ a.closes = b.closes /\ a.promise = b.promise
      BY <1>1, <1>2, FallenAlike
    <2>3. Follows(conn, b) /\ b.channel = "reconnecting"
      BY <1>1, <1>5, Falling DEF Ready
    <2> HIDE DEF a, b
    <2>4. b \in Connections /\ Sound(b)
      BY <2>3 DEF Follows
    <2>5. conn' \in Connections
      BY <2>1, <2>2 DEF Connections
    <2>6. /\ conn'.alive = a.alive /\ conn'.channel = a.channel /\ conn'.sid = FALSE
          /\ conn'.send = a.send /\ conn'.build = a.build /\ conn'.first = a.first
          /\ conn'.mic = a.mic /\ conn'.pubs = a.pubs /\ conn'.line = a.line
          /\ conn'.sent = a.sent /\ conn'.closes = a.closes /\ conn'.promise = a.promise
      BY <2>1, <2>2 DEF Connections
    <2>7. Follows(b, conn')
      BY <2>2, <2>3, <2>4, <2>5, <2>6, OffChannel
    <2>8. Follows(conn, conn')
      BY <2>3, <2>7, FollowsTransitive
    <2> QED  BY <1>1, <2>8, StepFollows
  <1> QED  BY <1>4, <1>5

\* The fields of the line after its head moved on.
LEMMA Advancing ==
    ASSUME MicInv, Len(conn.line) # 0,
           NEW stage \in {"queued", "asked", "made"}, NEW x \in Producers \cup {None},
           NEW n, n = Advance(stage, x)
    PROVE  /\ n \in Connections /\ SameSession(conn, n)
           /\ n.mic = conn.mic /\ n.pubs = conn.pubs /\ n.sent = conn.sent
           /\ n.closes = conn.closes /\ n.promise = conn.promise
           /\ Len(n.line) = Len(conn.line)
           /\ \A i \in 1..Len(conn.line) :
                  /\ n.line[i].pub = conn.line[i].pub /\ n.line[i].loop = conn.line[i].loop
                  /\ i # 1 => n.line[i] = conn.line[i]
                  /\ i = 1 => n.line[i].stage = stage /\ n.line[i].producer = x
  <1> DEFINE e == conn.line[1]
             f == [e EXCEPT !.stage = stage, !.producer = x]
             k == [conn.line EXCEPT ![1] = f]
  <1>1. conn \in Connections /\ conn.line \in Seq(Productions) /\ Len(conn.line) \in Nat
    BY Fields, LineFields DEF MicInv, TypeOK
  <1>2. 1 \in 1..Len(conn.line)
    BY <1>1
  <1>3. e \in Productions
    BY <1>1, <1>2, LineFields
  <1>4. /\ f \in Productions
        /\ f.pub = e.pub /\ f.loop = e.loop /\ f.stage = stage /\ f.producer = x
    BY <1>3 DEF Productions
  <1>5. n = [conn EXCEPT !.line = k]
    BY DEF Advance
  <1> HIDE DEF f
  <1>6. k \in Seq(Productions) /\ Len(k) = Len(conn.line)
    BY <1>1, <1>2, <1>4, ExceptSeq
  <1>7. k[1] = f /\ \A i \in 1..Len(conn.line) : i # 1 => k[i] = conn.line[i]
    BY <1>1, <1>2
  <1> HIDE DEF k
  <1>8. n \in Connections
    BY <1>1, <1>5, <1>6 DEF Connections
  <1>9. /\ SameSession(conn, n) /\ n.mic = conn.mic /\ n.pubs = conn.pubs
        /\ n.sent = conn.sent /\ n.closes = conn.closes /\ n.promise = conn.promise
        /\ n.line = k
    BY <1>1, <1>5 DEF Connections, SameSession
  <1> QED  BY <1>4, <1>6, <1>7, <1>8, <1>9

\* The head of the line moves on while the channel is up.
LEMMA Advanced ==
    ASSUME MicInv, Len(conn.line) # 0, conn.channel = "ready",
           NEW stage \in {"asked", "made"}, NEW x \in Producers \cup {None},
           stage = "made" <=> x # None,
           \A y \in Producers : conn.closes[y] # "no" => x # y,
           NEW n, n = Advance(stage, x)
    PROVE  /\ n \in Connections /\ Sound(n)
           /\ \A s : (/\ conn.sid /\ conn.send # None => conn.send = s.transport
                      /\ conn.sid /\ conn.build = "made" => s.transport # None
                      /\ stage = "made" => s.onAir = x)
                     => Agrees(n, s)
           /\ n.promise = conn.promise
  <1>1. conn \in Connections /\ Sound(conn)
    BY DEF MicInv, TypeOK
  <1>2. /\ n \in Connections /\ SameSession(conn, n)
        /\ n.mic = conn.mic /\ n.pubs = conn.pubs /\ n.sent = conn.sent
        /\ n.closes = conn.closes /\ n.promise = conn.promise
        /\ Len(n.line) = Len(conn.line)
        /\ \A i \in 1..Len(conn.line) :
               /\ n.line[i].pub = conn.line[i].pub /\ n.line[i].loop = conn.line[i].loop
               /\ i # 1 => n.line[i] = conn.line[i]
               /\ i = 1 => n.line[i].stage = stage /\ n.line[i].producer = x
    BY Advancing
  <1>3. ~Carried(conn) /\ ~Carried(n) /\ conn.send # None
    BY <1>1, <1>2 DEF Sound, LineIsSound, SessionIsSound, Carried
  <1>4. Len(conn.line) \in Nat
    BY <1>1, LineFields
  <1>5. \A i \in 1..Len(conn.line) :
            /\ i > 1 => n.line[i].stage = "queued"
            /\ n.line[i].stage = "made" <=> n.line[i].producer # None
    <2> SUFFICES ASSUME NEW i \in 1..Len(conn.line)
                 PROVE  /\ i > 1 => n.line[i].stage = "queued"
                        /\ n.line[i].stage = "made" <=> n.line[i].producer # None
      OBVIOUS
    <2>1. CASE i = 1
      BY <1>2, <2>1
    <2>2. CASE i # 1
      BY <1>1, <1>2, <2>2 DEF Sound, LineIsSound
    <2> QED  BY <2>1, <2>2
  <1>6. LineIsSound(n)
    <2>1. \A i, j \in 1..Len(n.line) : n.line[i].pub = n.line[j].pub => i = j
      BY <1>1, <1>2 DEF Sound, LineIsSound
    <2>2. \A i \in 1..Len(n.line) : /\ n.line[i].pub = n.mic => i = Len(n.line)
                                    /\ n.pubs[n.line[i].pub].loop # "resting"
      BY <1>1, <1>2 DEF Sound, LineIsSound
    <2>3. n.channel = "ready"
      BY <1>2 DEF SameSession
    <2> QED  BY <1>2, <1>3, <1>5, <2>1, <2>2, <2>3 DEF LineIsSound
  <1>7. SentIsCarried(n)
    <2>1. \A y \in Producers : n.closes[y] # "no" =>
              \A i \in 1..Len(n.line) : n.line[i].producer # y
      <3> SUFFICES ASSUME NEW y \in Producers, n.closes[y] # "no", NEW i \in 1..Len(n.line)
                   PROVE  n.line[i].producer # y
        OBVIOUS
      <3>1. CASE i = 1
        BY <1>2, <3>1
      <3>2. CASE i # 1
        BY <1>1, <1>2, <3>2 DEF Sound, SentIsCarried
      <3> QED  BY <3>1, <3>2
    <2>2. \A y \in Producers : n.closes[y] # "no" /\ n.mic # None => n.pubs[n.mic].producer # y
      BY <1>1, <1>2 DEF Sound, SentIsCarried
    <2> QED  BY <1>1, <1>2, <1>3, <2>1, <2>2 DEF Sound, SentIsCarried
  <1>8. SessionIsSound(n)
    BY <1>1, <1>2, <1>3 DEF Sound, SessionIsSound, SameSession
  <1>9. Waits(n) /\ Kept(n)
    BY <1>1, <1>2 DEF Sound, Waits, Waiting, Kept, Answering, SameSession
  <1>10. ASSUME NEW s, conn.sid /\ conn.send # None => conn.send = s.transport,
                conn.sid /\ conn.build = "made" => s.transport # None,
                stage = "made" => s.onAir = x
         PROVE  Agrees(n, s)
    <2>1. \A i \in 1..Len(n.line) : n.line[i].stage = "made" => s.onAir = n.line[i].producer
      BY <1>2, <1>4, <1>5, <1>10
    <2> QED  BY <1>2, <1>3, <1>10, <2>1 DEF Agrees, SameSession
  <1> QED  BY <1>2, <1>6, <1>7, <1>8, <1>9, <1>10 DEF Sound

\* The line has a head.
LEMMA HeadOfLine ==
    ASSUME MicInv, conn.line # <<>>
    PROVE  Len(conn.line) # 0 /\ Head(conn.line) = conn.line[1]
  <1>1. conn \in Connections
    BY DEF MicInv, TypeOK
  <1>2. Len(conn.line) # 0
    BY <1>1, LineFields
  <1> QED  BY <1>1, <1>2, Taking

LEMMA ProduceAskedKeeps ==
    ASSUME MicInv, ProduceAsked
    PROVE  Preserved
  <1>1. /\ conn \in Connections /\ Agrees(conn, srv) /\ srv \in Servers
        /\ conn.channel = "ready" /\ Len(conn.line) # 0
        /\ conn' = Advance("asked", None) /\ srv' = srv
    BY HeadOfLine DEF MicInv, TypeOK, ProduceAsked, First, Ready
  <1>2. \A y \in Producers : None # y
    BY NoneApart
  <1>3. /\ conn' \in Connections /\ Sound(conn') /\ conn'.promise = conn.promise
        /\ (/\ conn.sid /\ conn.send # None => conn.send = srv.transport
            /\ conn.sid /\ conn.build = "made" => srv.transport # None)
           => Agrees(conn', srv)
    BY <1>1, <1>2, Advanced
  <1> QED  BY <1>1, <1>3 DEF Preserved, Agrees

LEMMA ServerProducesKeeps ==
    ASSUME MicInv, NEW x \in Producers, ServerProduces(x)
    PROVE  Preserved
  <1>1. /\ conn \in Connections /\ Agrees(conn, srv) /\ srv \in Servers
        /\ conn.channel = "ready" /\ Len(conn.line) # 0
        /\ conn' = Advance("made", x) /\ srv' = [srv EXCEPT !.onAir = x]
        /\ conn.closes[x] = "no"
    BY HeadOfLine DEF MicInv, TypeOK, ServerProduces, Forgotten, First, Ready
  <1>2. srv' \in Servers /\ srv'.onAir = x /\ srv'.transport = srv.transport
    BY <1>1 DEF Servers
  <1>3. \A y \in Producers : conn.closes[y] # "no" => x # y
    BY <1>1
  <1>4. x # None
    BY NoneApart
  <1>5. /\ conn' \in Connections /\ Sound(conn') /\ conn'.promise = conn.promise
        /\ (/\ conn.sid /\ conn.send # None => conn.send = srv'.transport
            /\ conn.sid /\ conn.build = "made" => srv'.transport # None
            /\ srv'.onAir = x)
           => Agrees(conn', srv')
    BY <1>1, <1>3, <1>4, Advanced
  <1> QED  BY <1>1, <1>2, <1>5 DEF Preserved, Agrees

LEMMA ProduceReturnsKeeps ==
    ASSUME MicInv, ProduceReturns
    PROVE  Preserved
  <1>1. /\ conn \in Connections /\ Sound(conn)
        /\ Len(conn.line) # 0 /\ conn.line[1].stage = "made"
        /\ conn' = ProduceAnswered(conn) /\ srv' = srv
    BY HeadOfLine DEF MicInv, TypeOK, ProduceReturns, First
  <1>2. Follows(conn, conn')
    BY <1>1, Answered
  <1> QED  BY <1>1, <1>2, StepFollows

LEMMA ProduceFailsKeeps ==
    ASSUME MicInv, ProduceFails
    PROVE  Preserved
  <1>1. /\ conn \in Connections /\ Sound(conn) /\ conn.line # <<>> /\ srv' = srv
    BY DEF MicInv, TypeOK, ProduceFails
  <1>2. conn' = ProduceFailed([conn EXCEPT !.line = Tail(@)], Head(conn.line).pub,
                              Head(conn.line).loop)
    BY DEF ProduceFails
  <1>3. Follows(conn, conn')
    BY <1>1, <1>2, Failing
  <1> QED  BY <1>1, <1>3, StepFollows

LEMMA RestEndsKeeps ==
    ASSUME MicInv, NEW p \in Publications, RestEnds(p)
    PROVE  Preserved
  <1>1. /\ conn \in Connections /\ Sound(conn) /\ conn.pubs[p].loop = "resting"
        /\ conn' = Rested(conn, p) /\ srv' = srv
    BY DEF MicInv, TypeOK, RestEnds
  <1>2. Follows(conn, conn')
    BY <1>1, Resting
  <1> QED  BY <1>1, <1>2, StepFollows

\* A request to close is over.
LEMMA CloseEnds ==
    ASSUME MicInv, NEW x \in Producers, conn' = [conn EXCEPT !.closes[x] = "no"]
    PROVE  Follows(conn, conn')
  <1> DEFINE cl == [conn.closes EXCEPT ![x] = "no"]
  <1>1. conn \in Connections /\ Sound(conn)
    BY DEF MicInv, TypeOK
  <1>2. /\ cl \in [Producers -> {"no", "waiting", "asked"}]
        /\ \A y \in Producers : cl[y] # "no" => conn.closes[y] # "no"
    BY <1>1, Fields
  <1>3. conn' = [conn EXCEPT !.closes = cl]
    OBVIOUS
  <1> HIDE DEF cl
  <1> QED  BY <1>1, <1>2, <1>3, Reclosing

LEMMA CloseWaitsInVainKeeps ==
    ASSUME MicInv, NEW x \in Producers, CloseWaitsInVain(x)
    PROVE  Preserved
  BY CloseEnds, StepFollows DEF CloseWaitsInVain

LEMMA ServerClosesProducerKeeps ==
    ASSUME MicInv, NEW x \in Producers, ServerClosesProducer(x)
    PROVE  Preserved
  <1>1. /\ conn \in Connections /\ Sound(conn) /\ Agrees(conn, srv) /\ srv \in Servers
        /\ conn.closes[x] # "no"
        /\ conn' = [conn EXCEPT !.closes[x] = "no"]
        /\ srv' = [srv EXCEPT !.onAir = IF srv.onAir = x THEN None ELSE srv.onAir]
    BY DEF MicInv, TypeOK, ServerClosesProducer
  <1>2. /\ srv' \in Servers /\ srv'.transport = srv.transport
        /\ srv.onAir # x => srv'.onAir = srv.onAir
    BY <1>1 DEF Servers
  <1>3. Follows(conn, conn')
    BY <1>1, CloseEnds
  <1>4. Agrees(conn, srv')
    <2>1. Carried(conn) => conn.pubs[conn.mic].producer # x
      BY <1>1 DEF Sound, SentIsCarried, Carried
    <2>2. \A i \in 1..Len(conn.line) : conn.line[i].producer # x
      BY <1>1 DEF Sound, SentIsCarried
    <2> QED  BY <1>1, <1>2, <2>1, <2>2 DEF Agrees
  <1> QED  BY <1>2, <1>3, <1>4 DEF Preserved, Follows

-----------------------------------------------------------------------------
(* The button.                                                             *)

Pages == [m : Connections, u : Buttons]

\* t is what the page may be after s, whatever the button does next.
Leads(s, t) ==
    /\ t \in Pages
    /\ Follows(s.m, t.m)
    /\ t.u.recapture = s.u.recapture /\ t.u.replacing = s.u.replacing

LEMMA ButtonFields ==
    ASSUME NEW u \in Buttons
    PROVE  /\ u.desired \in BOOLEAN /\ u.busy \in {"no", "capturing", "publishing"}
           /\ u.stream \in Captures \cup {None} /\ u.awaited \in Publications \cup {None}
           /\ u.recapture \in {"no", "capturing", "replacing"}
           /\ u.replacing.producer \in Producers \cup {None}
           /\ u.replacing.track \in Captures \cup {None}
  BY DEF Buttons

LEMMA FollowsItself ==
    ASSUME NEW m \in Connections, Sound(m)
    PROVE  Follows(m, m)
  BY DEF Follows

LEMMA LeadsTransitive ==
    ASSUME NEW a, NEW b, NEW c, Leads(a, b), Leads(b, c)
    PROVE  Leads(a, c)
  BY FollowsTransitive DEF Leads

\* Nothing but tracks changes.
LEMMA OtherTracks ==
    ASSUME NEW m \in Connections, Sound(m), NEW n \in Connections, SameSession(m, n),
           n.mic = m.mic, n.line = m.line, n.closes = m.closes, n.promise = m.promise,
           \A q \in Publications :
               n.pubs[q].producer = m.pubs[q].producer /\ n.pubs[q].loop = m.pubs[q].loop,
           \A y \in Producers : n.sent[y] = None <=> m.sent[y] = None
    PROVE  Follows(m, n)
  <1>1. n.mic # None =>
            /\ n.mic \in Publications
            /\ n.pubs[n.mic].producer = m.pubs[m.mic].producer
            /\ n.pubs[n.mic].loop = m.pubs[m.mic].loop
            /\ n.pubs[n.mic].producer \in Producers \cup {None}
    BY Fields, PubFields
  <1>2. Carried(n) <=> Carried(m)
    BY <1>1 DEF Carried
  <1>3. \A i \in 1..Len(m.line) : n.pubs[m.line[i].pub].loop = m.pubs[m.line[i].pub].loop
    BY LineFields
  <1>4. LineIsSound(n)
    BY <1>2, <1>3 DEF Sound, LineIsSound, SameSession
  <1>5. SentIsCarried(n)
    <2>1. \A y \in Producers : n.sent[y] # None => n.mic # None /\ n.pubs[n.mic].producer = y
      BY <1>1 DEF Sound, SentIsCarried
    <2>2. Carried(n) => n.sent[n.pubs[n.mic].producer] # None
      BY <1>1, <1>2 DEF Sound, SentIsCarried, Carried
    <2>3. \A y \in Producers : n.closes[y] # "no" =>
              /\ n.mic # None => n.pubs[n.mic].producer # y
              /\ \A i \in 1..Len(n.line) : n.line[i].producer # y
      BY <1>1 DEF Sound, SentIsCarried
    <2> QED  BY <2>1, <2>2, <2>3 DEF SentIsCarried
  <1>6. SessionIsSound(n)
    BY <1>2 DEF Sound, SessionIsSound, SameSession
  <1>7. Waits(n) /\ Kept(n)
    BY <1>1 DEF Sound, Waits, Waiting, Kept, Answering, SameSession
  <1>8. ASSUME NEW s, Agrees(m, s)  PROVE Agrees(n, s)
    BY <1>1, <1>2, <1>8 DEF Agrees, SameSession, Carried
  <1> QED  BY <1>4, <1>5, <1>6, <1>7, <1>8 DEF Follows, Sound

LEMMA StreamStops ==
    ASSUME NEW s \in Pages, Sound(s.m), NEW t, t = StopStream(s)
    PROVE  /\ Leads(s, t)
           /\ t.u.busy = s.u.busy /\ t.u.awaited = s.u.awaited /\ t.u.desired = s.u.desired
  <1> DEFINE l == s.m.live \ {s.u.stream}
             n == [s.m EXCEPT !.live = l]
             v == [s.u EXCEPT !.stream = None]
  <1>1. s.m \in Connections /\ s.u \in Buttons
    BY DEF Pages
  <1>2. t = [s EXCEPT !.m = n, !.u = v]
    BY DEF StopStream
  <1>3. l \in SUBSET Captures
    BY <1>1, Fields
  <1> HIDE DEF l
  <1>4. /\ n \in Connections /\ SameSession(s.m, n)
        /\ n.mic = s.m.mic /\ n.pubs = s.m.pubs /\ n.line = s.m.line /\ n.sent = s.m.sent
        /\ n.closes = s.m.closes /\ n.promise = s.m.promise
    BY <1>1, <1>3 DEF Connections, SameSession
  <1>5. /\ v \in Buttons
        /\ v.busy = s.u.busy /\ v.awaited = s.u.awaited /\ v.desired = s.u.desired
        /\ v.recapture = s.u.recapture /\ v.replacing = s.u.replacing
    BY <1>1 DEF Buttons
  <1> HIDE DEF n, v
  <1>6. Follows(s.m, n)
    BY <1>1, <1>4, OtherTracks
  <1>7. t \in Pages /\ t.m = n /\ t.u = v
    BY <1>2, <1>4, <1>5 DEF Pages
  <1> QED  BY <1>5, <1>6, <1>7 DEF Leads

\* apply either has nothing to do, asks for the microphone or closes it.
LEMMA Applying ==
    ASSUME NEW s \in Pages, Sound(s.m), NEW t, t = Apply(s)
    PROVE  /\ Leads(s, t)
           /\ t.u.busy \in {s.u.busy, "capturing"}
  <1>1. s.m \in Connections /\ s.u \in Buttons
    BY DEF Pages
  <1>2. CASE Enabled(s.m) = s.u.desired
    BY <1>1, <1>2, FollowsItself DEF Apply, Leads
  <1>3. CASE Enabled(s.m) # s.u.desired /\ s.u.desired
    <2> DEFINE v == [s.u EXCEPT !.busy = "capturing"]
    <2>1. t = [s EXCEPT !.u = v]
      BY <1>3 DEF Apply
    <2>2. /\ v \in Buttons /\ v.busy = "capturing"
          /\ v.recapture = s.u.recapture /\ v.replacing = s.u.replacing
      BY <1>1 DEF Buttons
    <2> HIDE DEF v
    <2>3. t \in Pages /\ t.m = s.m /\ t.u = v
      BY <2>1, <2>2 DEF Pages
    <2> QED  BY <1>1, <2>2, <2>3, FollowsItself DEF Leads
  <1>4. CASE Enabled(s.m) # s.u.desired /\ ~s.u.desired
    <2> DEFINE n == Unpublish(s.m)
               r == [s EXCEPT !.m = n]
    <2>1. t = StopStream(r)
      BY <1>4 DEF Apply
    <2>2. s.m.mic # None
      BY <1>1, <1>4, ButtonFields DEF Enabled
    <2>3. Follows(s.m, n)
      BY <1>1, <2>2, Unpublishing
    <2> HIDE DEF n
    <2>4. n \in Connections /\ Sound(n)
      BY <2>3 DEF Follows
    <2>5. r \in Pages /\ r.m = n /\ r.u = s.u
      BY <2>4 DEF Pages
    <2> HIDE DEF r
    <2>6. Leads(s, r)
      BY <2>3, <2>5 DEF Leads
    <2>7. Leads(r, t) /\ t.u.busy = r.u.busy
      BY <2>1, <2>4, <2>5, StreamStops
    <2> QED  BY <2>5, <2>6, <2>7, LeadsTransitive
  <1> QED  BY <1>2, <1>3, <1>4

LEMMA Finishing ==
    ASSUME NEW s \in Pages, Sound(s.m), NEW t, t = Finish(s)
    PROVE  Leads(s, t) /\ t.u.busy # "publishing"
  <1> DEFINE v == [s.u EXCEPT !.busy = "no", !.awaited = None]
             r == [s EXCEPT !.u = v]
  <1>1. s.m \in Connections /\ s.u \in Buttons
    BY DEF Pages
  <1>2. t = Apply(r)
    BY DEF Finish
  <1>3. /\ v \in Buttons /\ v.busy = "no"
        /\ v.recapture = s.u.recapture /\ v.replacing = s.u.replacing
    BY <1>1 DEF Buttons
  <1> HIDE DEF v
  <1>4. r \in Pages /\ r.m = s.m /\ r.u = v
    BY <1>3 DEF Pages
  <1> HIDE DEF r
  <1>5. Leads(s, r)
    BY <1>1, <1>3, <1>4, FollowsItself DEF Leads
  <1>6. Leads(r, t) /\ t.u.busy \in {r.u.busy, "capturing"}
    BY <1>2, <1>4, Applying
  <1> QED  BY <1>3, <1>4, <1>5, <1>6, LeadsTransitive

LEMMA GivingBack ==
    ASSUME NEW s \in Pages, Sound(s.m), NEW t, t = Failed(s)
    PROVE  Leads(s, t) /\ t.u.busy # "publishing"
  <1> DEFINE v == [s.u EXCEPT !.desired = FALSE]
             r == [s EXCEPT !.u = v]
             q == StopStream(r)
  <1>1. s.m \in Connections /\ s.u \in Buttons
    BY DEF Pages
  <1>2. t = Finish(q)
    BY DEF Failed
  <1>3. v \in Buttons /\ v.recapture = s.u.recapture /\ v.replacing = s.u.replacing
    BY <1>1 DEF Buttons
  <1> HIDE DEF v
  <1>4. r \in Pages /\ r.m = s.m /\ r.u = v
    BY <1>3 DEF Pages
  <1> HIDE DEF r
  <1>5. Leads(s, r)
    BY <1>1, <1>3, <1>4, FollowsItself DEF Leads
  <1>6. Leads(r, q)
    BY <1>4, StreamStops
  <1> HIDE DEF q
  <1>7. q \in Pages /\ Sound(q.m)
    BY <1>6 DEF Leads, Follows
  <1>8. Leads(q, t) /\ t.u.busy # "publishing"
    BY <1>2, <1>7, Finishing
  <1> QED  BY <1>5, <1>6, <1>8, LeadsTransitive

\* The page as it is.
LEMMA PageIsSound ==
    ASSUME MicInv
    PROVE  /\ Page \in Pages /\ Page.m = conn /\ Page.u = ui
           /\ conn \in Connections /\ ui \in Buttons /\ srv \in Servers
           /\ Sound(conn) /\ Agrees(conn, srv) /\ ButtonWaits(ui, conn)
  BY DEF MicInv, TypeOK, Page, Pages

LEMMA Becoming ==
    ASSUME MicInv, NEW t \in Pages, Becomes(t), Sound(t.m), Agrees(t.m, srv),
           ButtonWaits(t.u, t.m)
    PROVE  MicInv'
  <1>1. conn' = t.m /\ ui' = t.u /\ srv' = srv
    BY DEF Becomes
  <1>2. t.m \in Connections /\ t.u \in Buttons
    BY DEF Pages
  <1> QED  BY <1>1, <1>2 DEF MicInv, TypeOK

\* After a step of the button that leaves nothing to wait for.
LEMMA BecomingFree ==
    ASSUME MicInv, NEW s \in Pages, Sound(s.m), Agrees(s.m, srv),
           s.u.recapture = ui.recapture, s.u.replacing = ui.replacing,
           NEW t, Leads(s, t), t.u.busy # "publishing", Becomes(t)
    PROVE  MicInv'
  <1>1. t \in Pages /\ Sound(t.m) /\ Agrees(t.m, srv)
    BY DEF Leads, Follows
  <1>2. ButtonWaits(t.u, t.m)
    BY DEF Leads, MicInv, ButtonWaits
  <1> QED  BY <1>1, <1>2, Becoming

\* The refs of the hook change alone.
LEMMA OnlyButton ==
    ASSUME MicInv, NEW v \in Buttons, ButtonWaits(v, conn),
           conn' = conn, ui' = v, srv' = srv
    PROVE  MicInv'
  BY DEF MicInv, TypeOK

LEMMA WantKeeps ==
    ASSUME MicInv, NEW next \in BOOLEAN, Want(next)
    PROVE  MicInv'
  <1> DEFINE v == [ui EXCEPT !.desired = next]
             s == [Page EXCEPT !.u = v]
  <1>1. /\ Page \in Pages /\ Page.m = conn /\ Page.u = ui
        /\ conn \in Connections /\ ui \in Buttons /\ Sound(conn) /\ Agrees(conn, srv)
        /\ ButtonWaits(ui, conn)
    BY PageIsSound
  <1>2. Becomes(IF ui.busy = "no" THEN Apply(s) ELSE s)
    BY <1>1 DEF Want
  <1>3. /\ v \in Buttons /\ v.busy = ui.busy /\ v.awaited = ui.awaited
        /\ v.recapture = ui.recapture /\ v.replacing = ui.replacing
    BY <1>1 DEF Buttons
  <1> HIDE DEF v
  <1>4. s \in Pages /\ s.m = conn /\ s.u = v
    BY <1>1, <1>3 DEF Pages
  <1> HIDE DEF s
  <1>5. CASE ui.busy = "no"
    <2>1. PICK t : t = Apply(s)
      OBVIOUS
    <2>2. Leads(s, t) /\ t.u.busy \in {s.u.busy, "capturing"}
      BY <1>1, <1>4, <2>1, Applying
    <2>3. Becomes(t) /\ t.u.busy # "publishing"
      BY <1>2, <1>3, <1>4, <1>5, <2>1, <2>2
    <2> QED  BY <1>1, <1>3, <1>4, <2>2, <2>3, BecomingFree
  <1>6. CASE ui.busy # "no"
    <2>1. Becomes(s)
      BY <1>2, <1>6
    <2>2. ButtonWaits(v, conn)
      BY <1>1, <1>3 DEF ButtonWaits
    <2> QED  BY <1>1, <1>4, <2>1, <2>2, Becoming
  <1> QED  BY <1>5, <1>6

LEMMA GivingBackKeeps ==
    ASSUME MicInv, Becomes(Failed(Page))
    PROVE  MicInv'
  <1>1. PICK t : t = Failed(Page)
    OBVIOUS
  <1>2. Leads(Page, t) /\ t.u.busy # "publishing" /\ Becomes(t)
    BY <1>1, PageIsSound, GivingBack
  <1> QED  BY <1>2, PageIsSound, BecomingFree

LEMMA CapturedKeeps ==
    ASSUME MicInv, NEW c \in Captures, NEW p \in Publications, Captured(c, p)
    PROVE  MicInv'
  <1> DEFINE l == conn.live \cup {c}
             m == [conn EXCEPT !.live = l]
             v == [ui EXCEPT !.stream = c]
             s == [Page EXCEPT !.m = m, !.u = v]
  <1>1. /\ Page \in Pages /\ Page.m = conn /\ Page.u = ui
        /\ conn \in Connections /\ ui \in Buttons /\ Sound(conn) /\ Agrees(conn, srv)
        /\ ButtonWaits(ui, conn)
    BY PageIsSound
  <1>2. s = [Page EXCEPT !.m.live = @ \cup {c}, !.u.stream = c]
    BY <1>1
  <1>3. Becomes(IF conn.send = None THEN Failed(s)
                ELSE [s EXCEPT !.m = Publish(@, p, c),
                               !.u.busy = "publishing", !.u.awaited = p])
    BY <1>2 DEF Captured
  <1>4. l \in SUBSET Captures
    BY <1>1, Fields
  <1> HIDE DEF l
  <1>5. /\ m \in Connections /\ SameSession(conn, m)
        /\ m.mic = conn.mic /\ m.pubs = conn.pubs /\ m.line = conn.line
        /\ m.sent = conn.sent /\ m.closes = conn.closes /\ m.promise = conn.promise
    BY <1>1, <1>4 DEF Connections, SameSession
  <1> HIDE DEF m
  <1>6. Follows(conn, m)
    BY <1>1, <1>5, OtherTracks
  <1>7. Sound(m) /\ Agrees(m, srv)
    BY <1>1, <1>6 DEF Follows
  <1>8. /\ v \in Buttons /\ v.recapture = ui.recapture /\ v.replacing = ui.replacing
    BY <1>1 DEF Buttons
  <1> HIDE DEF v
  <1>9. s \in Pages /\ s.m = m /\ s.u = v
    BY <1>1, <1>5, <1>8 DEF Pages
  <1> HIDE DEF s
  <1>10. CASE conn.send = None
    <2>1. PICK t : t = Failed(s)
      OBVIOUS
    <2>2. Leads(s, t) /\ t.u.busy # "publishing"
      BY <1>7, <1>9, <2>1, GivingBack
    <2>3. Becomes(t)
      BY <1>3, <1>10, <2>1
    <2> QED  BY <1>7, <1>8, <1>9, <2>2, <2>3, BecomingFree
  <1>11. CASE conn.send # None
    <2> DEFINE n == Publish(m, p, c)
               w == [v EXCEPT !.busy = "publishing", !.awaited = p]
               t == [s EXCEPT !.m = n, !.u = w]
    <2>1. Becomes(t)
      BY <1>3, <1>9, <1>11
    <2>2. /\ m.send # None /\ m.mic # p /\ ~Waiting(m, p) /\ m.promise[p] = "none"
      BY <1>1, <1>5, <1>11, LineFields
         DEF Captured, FreshPublication, Waiting, SameSession
    <2>3. Follows(m, n) /\ n.promise[p] # "none"
      BY <1>5, <1>7, <2>2, Publishing
    <2> HIDE DEF n
    <2>4. n \in Connections /\ Sound(n) /\ Agrees(n, srv)
      BY <1>7, <2>3 DEF Follows
    <2>5. /\ w \in Buttons /\ w.awaited = p
          /\ w.recapture = v.recapture /\ w.replacing = v.replacing
      BY <1>8 DEF Buttons
    <2> HIDE DEF w
    <2>6. t \in Pages /\ t.m = n /\ t.u = w
      BY <1>9, <2>4, <2>5 DEF Pages
    <2> HIDE DEF t
    <2>7. ButtonWaits(w, n)
      BY <1>1, <1>8, <2>3, <2>5, NoneApart DEF ButtonWaits
    <2> QED  BY <2>1, <2>4, <2>6, <2>7, Becoming
  <1> QED  BY <1>10, <1>11

LEMMA PublishSettlesKeeps ==
    ASSUME MicInv, NEW p \in Publications, PublishSettles(p)
    PROVE  MicInv'
  <1> DEFINE h == [conn.promise EXCEPT ![p] = "none"]
             m == [conn EXCEPT !.promise = h]
             s == [Page EXCEPT !.m = m]
  <1>1. /\ Page \in Pages /\ Page.m = conn /\ Page.u = ui
        /\ conn \in Connections /\ ui \in Buttons /\ Sound(conn) /\ Agrees(conn, srv)
        /\ ButtonWaits(ui, conn)
    BY PageIsSound
  <1>2. s = [Page EXCEPT !.m.promise[p] = "none"]
    BY <1>1
  <1>3. Becomes(IF ui.awaited # p THEN s
                ELSE IF conn.promise[p] = "ok" THEN Finish(s) ELSE Failed(s))
    BY <1>2 DEF PublishSettles
  <1>4. /\ h \in [Publications -> {"none", "pending", "ok", "failed"}]
        /\ h[p] = "none" /\ \A q \in Publications : q # p => h[q] = conn.promise[q]
    BY <1>1, Fields
  <1> HIDE DEF h
  <1>5. /\ m \in Connections /\ SameSession(conn, m)
        /\ m.mic = conn.mic /\ m.pubs = conn.pubs /\ m.line = conn.line
        /\ m.sent = conn.sent /\ m.closes = conn.closes /\ m.promise = h
    BY <1>1, <1>4 DEF Connections, SameSession
  <1> HIDE DEF m
  <1>6. Sound(m)
    <2>1. Carried(m) <=> Carried(conn)
      BY <1>5 DEF Carried
    <2>2. LineIsSound(m) /\ SentIsCarried(m)
      BY <1>1, <1>5, <2>1 DEF Sound, LineIsSound, SentIsCarried, SameSession
    <2>3. SessionIsSound(m)
      BY <1>1, <1>5, <2>1 DEF Sound, SessionIsSound, SameSession
    <2>4. Waits(m)
      BY <1>1, <1>5 DEF Sound, Waits, Waiting, SameSession
    <2>5. Kept(m)
      BY <1>1, <1>4, <1>5 DEF Sound, Kept, Answering
    <2> QED  BY <2>2, <2>3, <2>4, <2>5 DEF Sound
  <1>7. Agrees(m, srv)
    BY <1>1, <1>5 DEF Agrees, Carried, SameSession
  <1>8. s \in Pages /\ s.m = m /\ s.u = ui
    BY <1>1, <1>5 DEF Pages
  <1> HIDE DEF s
  <1>9. CASE ui.awaited # p
    <2>1. Becomes(s)
      BY <1>3, <1>9
    <2>2. ButtonWaits(ui, m)
      BY <1>1, <1>4, <1>5, <1>9, ButtonFields DEF ButtonWaits
    <2> QED  BY <1>6, <1>7, <1>8, <2>1, <2>2, Becoming
  <1>10. CASE ui.awaited = p
    <2>1. PICK t : (t = Finish(s) \/ t = Failed(s)) /\ Becomes(t)
      BY <1>3, <1>10
    <2>2. Leads(s, t) /\ t.u.busy # "publishing"
      BY <1>6, <1>8, <2>1, Finishing, GivingBack
    <2> QED  BY <1>6, <1>7, <1>8, <2>1, <2>2, BecomingFree
  <1> QED  BY <1>9, <1>10

LEMMA RecaptureStartsKeeps ==
    ASSUME MicInv, RecaptureStarts
    PROVE  MicInv'
  <1> DEFINE v == [ui EXCEPT !.recapture = "capturing"]
  <1>1. v \in Buttons /\ v.busy = ui.busy /\ v.awaited = ui.awaited /\ v.recapture = "capturing"
    BY PageIsSound DEF Buttons
  <1>2. conn' = conn /\ ui' = v /\ srv' = srv
    BY PageIsSound DEF RecaptureStarts, Becomes, Page
  <1> HIDE DEF v
  <1>3. ButtonWaits(v, conn)
    BY <1>1, PageIsSound DEF ButtonWaits
  <1> QED  BY <1>1, <1>2, <1>3, OnlyButton

LEMMA RecaptureRefusedKeeps ==
    ASSUME MicInv, Becomes([Page EXCEPT !.u.recapture = "no"])
    PROVE  MicInv'
  <1> DEFINE v == [ui EXCEPT !.recapture = "no"]
  <1>1. v \in Buttons /\ v.busy = ui.busy /\ v.awaited = ui.awaited /\ v.recapture = "no"
    BY PageIsSound DEF Buttons
  <1>2. conn' = conn /\ ui' = v /\ srv' = srv
    BY PageIsSound DEF Becomes, Page
  <1> HIDE DEF v
  <1>3. ButtonWaits(v, conn)
    BY <1>1, PageIsSound DEF ButtonWaits
  <1> QED  BY <1>1, <1>2, <1>3, OnlyButton

\* The old capture stops, and the new one is the button's.
LEMMA ReplacedKeeps ==
    ASSUME MicInv, NEW s \in Pages, Follows(conn, s.m),
           s.u.busy = ui.busy, s.u.awaited = ui.awaited,
           NEW c \in Captures, Becomes(Replaced(s, c))
    PROVE  MicInv'
  <1> DEFINE t == StopStream(s)
             v == [t.u EXCEPT !.stream = c, !.recapture = "no",
                              !.replacing = [producer |-> None, track |-> None]]
             r == [t EXCEPT !.u = v]
  <1>1. Becomes(r)
    BY DEF Replaced
  <1>2. Sound(s.m)
    BY DEF Follows
  <1>3. Leads(s, t) /\ t.u.busy = s.u.busy /\ t.u.awaited = s.u.awaited
    BY <1>2, StreamStops
  <1> HIDE DEF t
  <1>4. t \in Pages /\ Follows(conn, t.m)
    BY <1>3, FollowsTransitive DEF Leads
  <1>5. t.m \in Connections /\ t.u \in Buttons
    BY <1>4 DEF Pages
  <1>6. v \in Buttons /\ v.busy = ui.busy /\ v.awaited = ui.awaited /\ v.recapture = "no"
    BY <1>3, <1>5 DEF Buttons
  <1> HIDE DEF v
  <1>7. r \in Pages /\ r.m = t.m /\ r.u = v
    BY <1>4, <1>5, <1>6 DEF Pages
  <1> HIDE DEF r
  <1>8. Sound(t.m) /\ Agrees(t.m, srv)
    BY <1>4, PageIsSound DEF Follows
  <1>9. ButtonWaits(v, t.m)
    BY <1>4, <1>6, PageIsSound, ButtonFields, NoneApart DEF ButtonWaits, Follows
  <1> QED  BY <1>1, <1>7, <1>8, <1>9, Becoming

LEMMA RecapturedKeeps ==
    ASSUME MicInv, NEW c \in Captures, Recaptured(c)
    PROVE  MicInv'
  <1> DEFINE p == conn.mic
             x == conn.pubs[p].producer
             l == conn.live \cup {c}
             g == [conn.pubs EXCEPT ![p].track = c]
             m == [conn EXCEPT !.live = l, !.pubs = g]
             s == [Page EXCEPT !.m = m]
  <1>1. /\ Page \in Pages /\ Page.m = conn /\ Page.u = ui
        /\ conn \in Connections /\ ui \in Buttons /\ Sound(conn) /\ Agrees(conn, srv)
        /\ ButtonWaits(ui, conn)
    BY PageIsSound
  <1>2. CASE ~Enabled(conn)
    BY <1>2, RecaptureRefusedKeeps DEF Recaptured
  <1>3. CASE Enabled(conn)
    <2>1. s = [Page EXCEPT !.m.live = @ \cup {c}, !.m.pubs[p].track = c]
      BY <1>1
    <2>2. Becomes(IF x = None THEN Replaced(s, c)
                  ELSE [s EXCEPT !.u.recapture = "replacing",
                                 !.u.replacing = [producer |-> x, track |-> c]])
      BY <1>3, <2>1 DEF Recaptured
    <2>3. p \in Publications
      BY <1>1, <1>3, Fields DEF Enabled
    <2>4. x \in Producers \cup {None}
      BY <1>1, <2>3, PubFields
    <2>5. l \in SUBSET Captures
      BY <1>1, Fields
    <2>6. /\ g \in [Publications -> PublicationRecords]
          /\ \A q \in Publications : /\ g[q].producer = conn.pubs[q].producer
                                     /\ g[q].loop = conn.pubs[q].loop
      <3>1. conn.pubs \in [Publications -> PublicationRecords]
        BY <1>1, Fields
      <3>2. g \in [Publications -> PublicationRecords]
        BY <2>3, <3>1, PubsTyped
      <3> QED  BY <3>1, <3>2 DEF PublicationRecords
    <2> HIDE DEF l, g, x, p
    <2>7. /\ m \in Connections /\ SameSession(conn, m) /\ m.pubs = g
          /\ m.mic = conn.mic /\ m.line = conn.line /\ m.sent = conn.sent
          /\ m.closes = conn.closes /\ m.promise = conn.promise
      BY <1>1, <2>5, <2>6 DEF Connections, SameSession
    <2> HIDE DEF m
    <2>8. Follows(conn, m)
      BY <1>1, <2>6, <2>7, OtherTracks
    <2>9. s \in Pages /\ s.m = m /\ s.u = ui
      BY <1>1, <2>7 DEF Pages
    <2> HIDE DEF s
    <2>10. CASE x = None
      BY <2>2, <2>8, <2>9, <2>10, ReplacedKeeps
    <2>11. CASE x # None
      <3> DEFINE v == [ui EXCEPT !.recapture = "replacing",
                                 !.replacing = [producer |-> x, track |-> c]]
                 t == [s EXCEPT !.u = v]
      <3>1. Becomes(t)
        BY <2>2, <2>9, <2>11
      <3>2. /\ v \in Buttons /\ v.busy = ui.busy /\ v.awaited = ui.awaited
            /\ v.replacing.producer # None /\ v.replacing.track # None
        BY <1>1, <2>4, <2>11, NoneApart DEF Buttons
      <3> HIDE DEF v
      <3>3. t \in Pages /\ t.m = m /\ t.u = v
        BY <2>9, <3>2 DEF Pages
      <3> HIDE DEF t
      <3>4. Sound(m) /\ Agrees(m, srv)
        BY <1>1, <2>8 DEF Follows
      <3>5. ButtonWaits(v, m)
        BY <1>1, <2>7, <3>2 DEF ButtonWaits
      <3> QED  BY <3>1, <3>3, <3>4, <3>5, Becoming
    <2> QED  BY <2>10, <2>11
  <1> QED  BY <1>2, <1>3

LEMMA ReplaceEndsKeeps ==
    ASSUME MicInv, ReplaceEnds
    PROVE  MicInv'
  <1> DEFINE x == ui.replacing.producer
             c == ui.replacing.track
             none == [producer |-> None, track |-> None]
             o == [conn.sent EXCEPT ![x] = c]
             m == [conn EXCEPT !.sent = o]
             s == [Page EXCEPT !.m = m]
  <1>1. /\ Page \in Pages /\ Page.m = conn /\ Page.u = ui
        /\ conn \in Connections /\ ui \in Buttons /\ Sound(conn) /\ Agrees(conn, srv)
        /\ ButtonWaits(ui, conn)
    BY PageIsSound
  <1>2. x \in Producers /\ c \in Captures
    BY <1>1, ButtonFields DEF ReplaceEnds, ButtonWaits
  <1>3. CASE conn.sent[x] # None
    <2>1. s = [Page EXCEPT !.m.sent[x] = c]
      BY <1>1
    <2>2. Becomes(Replaced(s, c))
      BY <1>3, <2>1 DEF ReplaceEnds
    <2>3. /\ o \in [Producers -> Captures \cup {None}]
          /\ \A y \in Producers : o[y] = None <=> conn.sent[y] = None
      BY <1>1, <1>2, <1>3, Fields, NoneApart
    <2> HIDE DEF o, x, c
    <2>4. /\ m \in Connections /\ SameSession(conn, m) /\ m.sent = o
          /\ m.mic = conn.mic /\ m.line = conn.line /\ m.pubs = conn.pubs
          /\ m.closes = conn.closes /\ m.promise = conn.promise
      BY <1>1, <2>3 DEF Connections, SameSession
    <2> HIDE DEF m
    <2>5. Follows(conn, m)
      BY <1>1, <2>3, <2>4, OtherTracks
    <2>6. s \in Pages /\ s.m = m /\ s.u = ui
      BY <1>1, <2>4 DEF Pages
    <2> HIDE DEF s
    <2> QED  BY <1>2, <2>2, <2>5, <2>6, ReplacedKeeps
  <1>4. CASE conn.sent[x] = None
    <2> DEFINE v == [ui EXCEPT !.recapture = "no", !.replacing = none]
    <2>1. conn' = conn /\ ui' = v /\ srv' = srv
      BY <1>1, <1>4 DEF ReplaceEnds, Becomes, Page
    <2>2. v \in Buttons /\ v.busy = ui.busy /\ v.awaited = ui.awaited /\ v.recapture = "no"
      BY <1>1 DEF Buttons
    <2> HIDE DEF v
    <2>3. ButtonWaits(v, conn)
      BY <1>1, <2>2 DEF ButtonWaits
    <2> QED  BY <2>1, <2>2, <2>3, OnlyButton
  <1> QED  BY <1>3, <1>4

-----------------------------------------------------------------------------
(* The specification.                                                      *)

LEMMA InitIsSound == Init => MicInv
  <1> SUFFICES ASSUME Init
               PROVE  MicInv
    OBVIOUS
  <1> DEFINE g == [p \in Publications |-> NewPublication(None)]
             o == [x \in Producers |-> None]
             k == [x \in Producers |-> "no"]
             h == [p \in Publications |-> "none"]
             l == <<>>
  <1>1. /\ conn = [alive |-> TRUE, channel |-> "opening", sid |-> FALSE, send |-> None,
                   build |-> "none", first |-> TRUE, timers |-> 0, mic |-> None,
                   pubs |-> g, line |-> l, sent |-> o, closes |-> k, promise |-> h,
                   live |-> {}]
        /\ srv = [transport |-> None, onAir |-> None]
        /\ ui = NewControls
    BY DEF Init, NewConnection, NewServer
  <1>2. g \in [Publications -> PublicationRecords]
    BY DEF NewPublication, PublicationRecords
  <1>3. /\ o \in [Producers -> Captures \cup {None}] /\ \A x \in Producers : o[x] = None
        /\ k \in [Producers -> {"no", "waiting", "asked"}] /\ \A x \in Producers : k[x] = "no"
        /\ h \in [Publications -> {"none", "pending", "ok", "failed"}]
        /\ \A p \in Publications : h[p] = "none"
    OBVIOUS
  <1>4. l \in Seq(Productions) /\ Len(l) = 0
    OBVIOUS
  <1>5. 0 \in 0..MaxTimers
    BY PublishingAssumption DEF PublishingAssumption
  <1> HIDE DEF g, o, k, h, l
  <1>6. conn \in Connections
    BY <1>1, <1>2, <1>3, <1>4, <1>5 DEF Connections
  <1>7. srv \in Servers
    BY <1>1 DEF Servers
  <1>8. ui \in Buttons /\ ui.busy = "no" /\ ui.recapture = "no"
    BY <1>1 DEF NewControls, Buttons
  <1>9. /\ conn.alive /\ conn.channel = "opening" /\ ~conn.sid /\ conn.send = None
        /\ conn.build = "none" /\ conn.first /\ conn.mic = None /\ Len(conn.line) = 0
        /\ \A x \in Producers : conn.sent[x] = None /\ conn.closes[x] = "no"
        /\ \A p \in Publications : conn.promise[p] = "none"
    BY <1>1, <1>3, <1>4
  <1>10. ~Carried(conn)
    BY <1>9 DEF Carried
  <1>11. LineIsSound(conn) /\ SentIsCarried(conn)
    BY <1>9, <1>10 DEF LineIsSound, SentIsCarried
  <1>12. SessionIsSound(conn) /\ Waits(conn) /\ Kept(conn)
    BY <1>9, <1>10 DEF SessionIsSound, Waits, Kept
  <1>13. Agrees(conn, srv) /\ ButtonWaits(ui, conn)
    BY <1>8, <1>9 DEF Agrees, ButtonWaits
  <1> QED  BY <1>6, <1>7, <1>8, <1>11, <1>12, <1>13 DEF MicInv, TypeOK, Sound

\* What the channel and the productions do leaves the button as it was.
LEMMA PreservedKeeps ==
    ASSUME MicInv, Preserved, ui' = ui
    PROVE  MicInv'
  <1>1. ButtonWaits(ui, conn')
    BY PageIsSound, ButtonFields DEF ButtonWaits, Preserved
  <1> QED  BY <1>1, PageIsSound DEF MicInv, TypeOK, Preserved

LEMMA ChannelKeeps ==
    ASSUME MicInv, Channel
    PROVE  Preserved
  <1>1. CASE ChannelOpens
    BY <1>1, ChannelOpensKeeps
  <1>2. CASE ChannelFalls
    BY <1>2, ChannelFallsKeeps
  <1>3. CASE ServerForgets
    BY <1>3, ServerForgetsKeeps
  <1>4. CASE ChannelReturns
    BY <1>4, ChannelReturnsKeeps
  <1>5. CASE CapabilitiesSet
    BY <1>5, CapabilitiesSetKeeps
  <1>6. CASE TransportsCreated
    BY <1>6, TransportsCreatedKeeps
  <1>7. CASE SessionRefused
    BY <1>7, SessionRefusedKeeps
  <1>8. CASE RebuildTimeout
    BY <1>8, RebuildTimeoutKeeps
  <1>9. ASSUME NEW t \in Transports, ServerMakesTransport(t)
        PROVE  Preserved
    BY <1>9, ServerMakesTransportKeeps
  <1>10. CASE ConnectionEnds
    BY <1>10, ConnectionEndsKeeps
  <1> QED  BY <1>1, <1>2, <1>3, <1>4, <1>5, <1>6, <1>7, <1>8, <1>9, <1>10 DEF Channel

LEMMA ProductionKeeps ==
    ASSUME MicInv, Production
    PROVE  Preserved
  <1>1. CASE ProduceAsked
    BY <1>1, ProduceAskedKeeps
  <1>2. CASE ProduceReturns
    BY <1>2, ProduceReturnsKeeps
  <1>3. CASE ProduceFails
    BY <1>3, ProduceFailsKeeps
  <1>4. ASSUME NEW x \in Producers, ServerProduces(x)
        PROVE  Preserved
    BY <1>4, ServerProducesKeeps
  <1>5. ASSUME NEW x \in Producers, ServerClosesProducer(x)
        PROVE  Preserved
    BY <1>5, ServerClosesProducerKeeps
  <1>6. ASSUME NEW x \in Producers, CloseWaitsInVain(x)
        PROVE  Preserved
    BY <1>6, CloseWaitsInVainKeeps
  <1>7. ASSUME NEW p \in Publications, RestEnds(p)
        PROVE  Preserved
    BY <1>7, RestEndsKeeps
  <1> QED  BY <1>1, <1>2, <1>3, <1>4, <1>5, <1>6, <1>7 DEF Production

LEMMA ControlsKeep ==
    ASSUME MicInv, Controls
    PROVE  MicInv'
  <1>1. ASSUME NEW next \in BOOLEAN, Want(next)
        PROVE  MicInv'
    BY <1>1, WantKeeps
  <1>2. CASE CaptureRefused
    BY <1>2, GivingBackKeeps DEF CaptureRefused
  <1>3. CASE PublishTimeout
    BY <1>3, GivingBackKeeps DEF PublishTimeout
  <1>4. ASSUME NEW c \in Captures, NEW p \in Publications, Captured(c, p)
        PROVE  MicInv'
    BY <1>4, CapturedKeeps
  <1>5. CASE RecaptureStarts
    BY <1>5, RecaptureStartsKeeps
  <1>6. CASE RecaptureRefused
    BY <1>6, RecaptureRefusedKeeps DEF RecaptureRefused
  <1>7. CASE ReplaceEnds
    BY <1>7, ReplaceEndsKeeps
  <1>8. ASSUME NEW c \in Captures, Recaptured(c)
        PROVE  MicInv'
    BY <1>8, RecapturedKeeps
  <1> QED  BY <1>1, <1>2, <1>3, <1>4, <1>5, <1>6, <1>7, <1>8 DEF Controls

LEMMA StepKeeps == MicInv /\ [Next]_vars => MicInv'
  <1> SUFFICES ASSUME MicInv, [Next]_vars
               PROVE  MicInv'
    OBVIOUS
  <1>1. ASSUME NEW p \in Publications, PublishSettles(p)
        PROVE  MicInv'
    BY <1>1, PublishSettlesKeeps
  <1>2. CASE (Channel \/ Production) /\ UNCHANGED ui
    BY <1>2, ChannelKeeps, ProductionKeeps, PreservedKeeps
  <1>3. CASE Controls
    BY <1>3, ControlsKeep
  <1>4. CASE UNCHANGED vars
    BY <1>4 DEF vars, MicInv, TypeOK
  <1> QED  BY <1>1, <1>2, <1>3, <1>4 DEF Next

\* What the page publishes, the line of its transport, the producers open in it
\* and what the server has on the air fit together at every step.
THEOREM MicrophoneInvariant == Spec => []MicInv
  <1>1. Init => MicInv
    BY InitIsSound
  <1>2. MicInv /\ [Next]_vars => MicInv'
    BY StepKeeps
  <1> QED  BY <1>1, <1>2, PTL DEF Spec

\* publish, mediasoupConnection.ts:334-338: however the clicks, the falls of the
\* channel, the timeouts and the answers of the server interleave, the page
\* never has two microphones open at once.
THEOREM NeverTwoMicrophones == Spec => []OneMicrophone
  <1>1. MicInv => OneMicrophone
    <2> SUFFICES ASSUME MicInv
                 PROVE  OneMicrophone
      OBVIOUS
    <2> DEFINE open == {x \in Producers : conn.sent[x] # None}
               only == conn.pubs[conn.mic].producer
    <2>1. open \subseteq {only}
      BY DEF MicInv, Sound, SentIsCarried
    <2> HIDE DEF only
    <2>2. IsFiniteSet({only}) /\ Cardinality({only}) = 1
      BY FS_Singleton
    <2>3. Cardinality(open) <= Cardinality({only})
      BY <2>1, <2>2, FS_Subset
    <2>4. Cardinality(open) <= 1
      BY <2>2, <2>3
    <2>5. TypeOK
      BY DEF MicInv
    <2> QED  BY <2>4, <2>5 DEF OneMicrophone
  <1> QED  BY <1>1, MicrophoneInvariant, PTL

\* handleReconnected, mediasoupConnection.ts:573-578: whatever was lost while
\* the channel was down, once it is back and all is quiet the server has the
\* producer of what is published, on the transport the page has.
THEOREM CalmPagesAgree == Spec => []AgreeWhenCalm
  <1>1. MicInv => AgreeWhenCalm
    <2> SUFFICES ASSUME MicInv, Calm, conn.mic # None
                 PROVE  /\ conn.send = srv.transport
                        /\ conn.pubs[conn.mic].producer # None
                        /\ conn.pubs[conn.mic].producer = srv.onAir
                        /\ conn.sent[srv.onAir] # None
      BY DEF AgreeWhenCalm
    <2>1. /\ conn \in Connections /\ Sound(conn) /\ Agrees(conn, srv)
          /\ conn.channel = "ready" /\ conn.build = "none" /\ conn.timers = 0
          /\ Len(conn.line) = 0 /\ conn.mic \in Publications
          /\ conn.pubs[conn.mic].loop = "none"
      BY PageIsSound, LineFields, Fields DEF Calm, Ready
    <2>2. conn.sid /\ conn.send # None
      BY <2>1 DEF Sound, SessionIsSound
    <2>3. ~Waiting(conn, conn.mic)
      BY <2>1 DEF Waiting
    <2>4. Carried(conn)
      BY <2>1, <2>2, <2>3 DEF Sound, Waits, Carried
    <2> QED  BY <2>1, <2>2, <2>4 DEF Agrees, Sound, SentIsCarried, Carried
  <1> QED  BY <1>1, MicrophoneInvariant, PTL

\* apply, useMediasoupTalkControls.ts:149-175: whatever became of the transport
\* or of the publication meanwhile, the promise of the publish() that the button
\* waits for is settled or its production is in line.
THEOREM PublishesAreAnswered == Spec => []PublishIsAnswered
  <1>1. MicInv => PublishIsAnswered
    <2> SUFFICES ASSUME MicInv, ui.busy = "publishing"
                 PROVE  \/ conn.promise[ui.awaited] \in {"ok", "failed"}
                        \/ /\ conn.promise[ui.awaited] = "pending"
                           /\ \E i \in DOMAIN conn.line :
                                  conn.line[i].pub = ui.awaited /\ ~conn.line[i].loop
      BY DEF PublishIsAnswered
    <2>1. /\ conn \in Connections /\ Sound(conn) /\ ui.awaited \in Publications
          /\ conn.promise[ui.awaited] # "none"
      BY PageIsSound, ButtonFields DEF ButtonWaits
    <2>2. conn.promise[ui.awaited] \in {"none", "pending", "ok", "failed"}
      BY <2>1, Fields
    <2>3. DOMAIN conn.line = 1..Len(conn.line)
      BY <2>1, LineFields
    <2> QED  BY <2>1, <2>2, <2>3 DEF Sound, Kept, Answering
  <1> QED  BY <1>1, MicrophoneInvariant, PTL

=============================================================================
