------------------------ MODULE DisplayStream_proofs ------------------------
(***************************************************************************)
(* ScreenTruthful for any number of streams, changes and faults.           *)
(*                                                                         *)
(* A page that is live, or about to be, follows a stream that is           *)
(* subscribed or already lost (Following).  While the API has no listener, *)
(* that stream has a bad signal under way, and behind every good signal    *)
(* comes a bad one (Warned): so no page becomes live by old news.  And     *)
(* what the page shows, or has read and will show, is the projection of    *)
(* the database, or a request or a signal is on its way (Current).         *)
(***************************************************************************)
EXTENDS DisplayStream, TLAPS

ListenerRow == [phase : {"none", "connecting", "listening", "up"}, timer : BOOLEAN,
                broken : BOOLEAN, pending : BOOLEAN]
StreamRow == [phase : {"new", "auth", "open", "over"}, subscribed : BOOLEAN, dead : BOOLEAN,
              closed : BOOLEAN, unchecked : BOOLEAN, queue : Seq(Signals)]
ClientRow == [shown : Nat, online : BOOLEAN, net : BOOLEAN,
              phase : {"disconnected", "degraded", "refreshing", "live"},
              needsPair : BOOLEAN, source : Streams \cup {None, Shut},
              request : {"none", "sent", "read", "denied"}, seen : Nat,
              fresh : BOOLEAN, valid : BOOLEAN, again : BOOLEAN]

Shape == /\ version \in [number : Nat, revoked : BOOLEAN]
         /\ listener \in ListenerRow
         /\ stream \in [Streams -> StreamRow]
         /\ client \in ClientRow

Good == {"ready", "restored"}
Bad  == {"degraded", "heartbeat-degraded"}
News == Signals \ {"heartbeat"}

Has(q, K) == \E i \in 1..Len(q) : q[i] \in K
\* Behind every good signal comes a bad one.
Corrected(q) == \A i \in 1..Len(q) : q[i] \in Good => \E j \in 1..Len(q) : j > i /\ q[j] \in Bad

\* What a stream may hold, and what the page's stream may be.
Consistent(s) ==
  /\ s.subscribed <=> s.phase = "open"
  /\ ~s.subscribed \/ s.dead => s.queue = <<>>
Followable(s) == s.phase \in {"auth", "open"} \/ (s.phase = "over" /\ s.dead)
Slots == \A s \in Streams : /\ Consistent(stream[s])
                            /\ client.source = s => Followable(stream[s])

Hopeful == client.phase \in {"live", "refreshing"}
Following == Hopeful => /\ client.source \in Streams
                        /\ stream[client.source].dead \/ stream[client.source].subscribed

Dropped == /\ ~client.valid => client.shown = 0 /\ client.source \notin Streams
           /\ client.needsPair => client.shown = 0

AllCorrected == \A s \in Streams : Corrected(stream[s].queue)
Warned == ~Up => AllCorrected /\ (Hopeful => OnStream(Bad))

Unnoticed == Up /\ (listener.broken \/ listener.pending)
OnItsWay == OnStream(News) \/ Unnoticed

ShownCurrent ==
  client.online /\ client.phase = "live" /\ client.shown # version.number =>
    \/ client.request \in {"sent", "denied"} \/ client.again
    \/ client.request = "read" /\ client.seen = version.number
    \/ OnItsWay
ReadCurrent ==
  client.request = "read" /\ client.seen # version.number => client.again \/ OnItsWay
Current == Hopeful => ShownCurrent /\ ReadCurrent

IInv == Shape /\ Slots /\ Following /\ Dropped /\ Warned /\ Current

-----------------------------------------------------------------------------
(* Queues of signals *)

LEMMA SomeSignals == Bad \subseteq News /\ News \subseteq Signals /\ Good \subseteq News
BY DEF Bad, News, Good, Signals

LEMMA NoSource == None \notin Streams /\ Shut \notin Streams
BY StreamBounds DEF None, Shut, Streams

LEMMA HasMore ==
  ASSUME NEW q \in Seq(Signals), NEW K, NEW L, Has(q, K), K \subseteq L
  PROVE  Has(q, L)
BY DEF Has

LEMMA EmptyCorrected == Corrected(<<>>)
BY DEF Corrected

\* What is appended takes nothing away.
LEMMA HasAppended ==
  ASSUME NEW q \in Seq(Signals), NEW e \in Seq(Signals), NEW K, Has(q, K) \/ Has(e, K)
  PROVE  q \o e \in Seq(Signals) /\ Has(q \o e, K)
<1>1. /\ q \o e \in Seq(Signals) /\ Len(q \o e) = Len(q) + Len(e)
      /\ \A i \in 1..Len(q) : (q \o e)[i] = q[i]
      /\ \A i \in 1..Len(e) : (q \o e)[Len(q) + i] = e[i]
  OBVIOUS
<1>2. Len(q) \in Nat /\ Len(e) \in Nat
  OBVIOUS
<1>3. CASE Has(q, K)
  BY <1>1, <1>2, <1>3 DEF Has
<1>4. CASE Has(e, K)
  <2>1. PICK i \in 1..Len(e) : e[i] \in K
    BY <1>4 DEF Has
  <2>2. Len(q) + i \in 1..Len(q \o e) /\ (q \o e)[Len(q) + i] \in K
    BY <1>1, <1>2, <2>1
  <2> QED BY <1>1, <2>2 DEF Has
<1> QED BY <1>3, <1>4

LEMMA BadCorrects ==
  ASSUME NEW q \in Seq(Signals), NEW bad \in Bad
  PROVE  q \o <<bad>> \in Seq(Signals) /\ Corrected(q \o <<bad>>) /\ Has(q \o <<bad>>, Bad)
<1>1. bad \in Signals /\ bad \notin Good
  BY DEF Bad, Good, Signals
<1> DEFINE r == q \o <<bad>>
<1>2. /\ r \in Seq(Signals) /\ Len(r) = Len(q) + 1 /\ r[Len(q) + 1] = bad
      /\ Len(q) \in Nat
  BY <1>1
<1> HIDE DEF r
<1>3. Has(r, Bad)
  BY <1>2 DEF Has
<1>4. Corrected(r)
  <2> SUFFICES ASSUME NEW i \in 1..Len(r), r[i] \in Good
               PROVE  \E j \in 1..Len(r) : j > i /\ r[j] \in Bad
    BY DEF Corrected
  <2>1. i # Len(q) + 1
    BY <1>1, <1>2
  <2>2. Len(q) + 1 \in 1..Len(r) /\ Len(q) + 1 > i
    BY <1>2, <2>1
  <2> QED BY <1>2, <2>2
<1> QED BY <1>2, <1>3, <1>4 DEF r

LEMMA HasInTail ==
  ASSUME NEW q \in Seq(Signals), q # <<>>, NEW K, Has(q, K), Head(q) \notin K
  PROVE  Has(Tail(q), K)
<1>1. PICK i \in 1..Len(q) : q[i] \in K
  BY DEF Has
<1>2. i # 1
  BY <1>1
<1>3. /\ Len(q) \in Nat /\ Len(Tail(q)) = Len(q) - 1
      /\ \A j \in 1..(Len(q) - 1) : Tail(q)[j] = q[j + 1]
  OBVIOUS
<1>4. i - 1 \in 1..Len(Tail(q)) /\ Tail(q)[i - 1] = q[i]
  BY <1>2, <1>3
<1> QED BY <1>1, <1>4 DEF Has

LEMMA CorrectedTail ==
  ASSUME NEW q \in Seq(Signals), q # <<>>, Corrected(q)
  PROVE  /\ Tail(q) \in Seq(Signals) /\ Head(q) \in Signals /\ Corrected(Tail(q))
         /\ Head(q) \in Good => Has(Tail(q), Bad)
<1>1. /\ Tail(q) \in Seq(Signals) /\ Head(q) \in Signals /\ Head(q) = q[1]
      /\ Len(q) \in Nat /\ Len(q) >= 1 /\ Len(Tail(q)) = Len(q) - 1
      /\ \A j \in 1..(Len(q) - 1) : Tail(q)[j] = q[j + 1]
  OBVIOUS
<1>2. ASSUME NEW i \in 1..Len(q), q[i] \in Good
      PROVE  \E j \in 1..Len(Tail(q)) : j > i - 1 /\ Tail(q)[j] \in Bad
  <2>1. PICK j \in 1..Len(q) : j > i /\ q[j] \in Bad
    BY <1>2 DEF Corrected
  <2>2. j - 1 \in 1..Len(Tail(q)) /\ j - 1 > i - 1 /\ Tail(q)[j - 1] = q[j]
    BY <1>1, <2>1
  <2> QED BY <2>1, <2>2
<1>3. Corrected(Tail(q))
  <2> SUFFICES ASSUME NEW i \in 1..Len(Tail(q)), Tail(q)[i] \in Good
               PROVE  \E j \in 1..Len(Tail(q)) : j > i /\ Tail(q)[j] \in Bad
    BY DEF Corrected
  <2>1. i + 1 \in 1..Len(q) /\ q[i + 1] \in Good /\ (i + 1) - 1 = i
    BY <1>1
  <2> QED BY <1>2, <2>1
<1>4. Head(q) \in Good => Has(Tail(q), Bad)
  <2> SUFFICES ASSUME Head(q) \in Good PROVE Has(Tail(q), Bad)
    OBVIOUS
  <2>1. 1 \in 1..Len(q) /\ q[1] \in Good
    BY <1>1
  <2> QED BY <1>2, <2>1 DEF Has
<1> QED BY <1>1, <1>3, <1>4

LEMMA OnStreamIs ==
  ASSUME NEW K
  PROVE  OnStream(K) <=> /\ client.source \in Streams
                         /\ stream[client.source].dead \/ Has(stream[client.source].queue, K)
BY DEF OnStream, Has

LEMMA BadIsNews ==
  ASSUME Shape, OnStream(Bad)
  PROVE  OnStream(News)
BY OnStreamIs, HasMore, SomeSignals DEF Shape, StreamRow

-----------------------------------------------------------------------------
(* What the page makes of a signal or an answer *)

\* The fields of a page that only a signal or an answer changes.
Alike(c, d) == /\ d \in ClientRow /\ d.shown = c.shown /\ d.online = c.online
               /\ d.needsPair = c.needsPair /\ d.source = c.source
Seeks(d) == d.again \/ d.request = "sent"

LEMMA StartedIs ==
  ASSUME NEW c \in ClientRow
  PROVE  LET d == Started(c) IN
           /\ Alike(c, d) /\ d.phase = c.phase /\ d.valid /\ d.request = "sent"
BY DEF Started, Alike, ClientRow

LEMMA RefreshIs ==
  ASSUME NEW c \in ClientRow
  PROVE  LET d == Refresh(c) IN
           /\ Alike(c, d) /\ d.phase = c.phase /\ Seeks(d) /\ (~d.valid => ~c.valid)
<1>1. CASE c.request = "none"
  BY <1>1, StartedIs DEF Refresh, Seeks
<1>2. CASE c.request # "none"
  BY <1>2 DEF Refresh, Alike, ClientRow, Seeks
<1> QED BY <1>1, <1>2

LEMMA FinishedIs ==
  ASSUME NEW c \in ClientRow
  PROVE  LET d == Finished(c) IN
           /\ Alike(c, d) /\ d.phase = c.phase /\ (~d.valid => ~c.valid)
           /\ d.request \in {"none", "sent"} /\ (c.again => d.request = "sent")
<1>1. CASE c.again
  BY <1>1, StartedIs DEF Finished
<1>2. CASE ~c.again
  <2> DEFINE d == [c EXCEPT !.request = "none", !.seen = 0]
  <2>1. Alike(c, d) /\ d.phase = c.phase /\ d.valid = c.valid /\ d.request = "none"
    BY DEF Alike, ClientRow
  <2>2. Finished(c) = d
    BY <1>2 DEF Finished
  <2> HIDE DEF d
  <2> QED BY <1>2, <2>1, <2>2
<1> QED BY <1>1, <1>2

LEMMA TurnIs ==
  ASSUME NEW c \in ClientRow, NEW phase \in {"disconnected", "degraded", "refreshing", "live"}
  PROVE  LET d == Turn(c, phase) IN
           /\ Alike(c, d) /\ d.phase = phase /\ d.valid = c.valid /\ d.request = c.request
BY DEF Turn, Alike, ClientRow

LEMMA ClearedIs ==
  ASSUME NEW c \in ClientRow
  PROVE  LET d == Cleared(c) IN
           d \in ClientRow /\ d.phase = "disconnected" /\ d.shown = 0 /\ d.source = None
<1> DEFINE t == Turn(c, "disconnected")
<1>1. t \in ClientRow /\ t.phase = "disconnected"
  BY TurnIs DEF Alike
<1>2. Cleared(c) = [t EXCEPT !.shown = 0, !.online = FALSE, !.needsPair = TRUE,
                             !.source = None, !.valid = FALSE]
  BY DEF Cleared
<1>3. PICK zero \in Nat : zero = 0
  OBVIOUS
<1> HIDE DEF t
<1>4. Cleared(c) = [t EXCEPT !.shown = zero, !.online = FALSE, !.needsPair = TRUE,
                             !.source = None, !.valid = FALSE]
  BY <1>2, <1>3
<1>5. LET d == Cleared(c) IN
        d \in ClientRow /\ d.phase = "disconnected" /\ d.shown = zero /\ d.source = None
  BY <1>1, <1>4 DEF ClientRow
<1> QED BY <1>3, <1>5

-----------------------------------------------------------------------------
(* Steps by what they disturb *)

\* A page that is neither live nor about to be has little to keep.
LEMMA HopelessStep ==
  ASSUME IInv, UNCHANGED <<version, listener>>, stream' \in [Streams -> StreamRow],
         client' \in ClientRow, client'.phase \notin {"live", "refreshing"},
         Slots', Dropped', Up \/ AllCorrected'
  PROVE  IInv'
BY DEF IInv, Shape, Following, Warned, Current, Hopeful, Up

\* The page keeps its stream, and a stream keeps its place: the page only
\* exchanges requests with the API.
LEMMA RequestStep ==
  ASSUME IInv, UNCHANGED <<version, listener, stream>>, client' \in ClientRow,
         client'.source = client.source, Hopeful' => Hopeful,
         ~client'.valid => ~client.valid /\ client'.shown = client.shown,
         client'.needsPair => client'.shown = 0,
         Hopeful => ShownCurrent' /\ ReadCurrent'
  PROVE  IInv'
<1>1. Shape' /\ Slots'
  BY DEF IInv, Shape, Slots
<1>2. Following' /\ Dropped'
  BY DEF IInv, Following, Dropped
<1>3. OnStream(Bad) => OnStream(Bad)'
  BY DEF OnStream
<1>4. Warned' /\ Current'
  BY <1>3 DEF IInv, Warned, AllCorrected, Current, Up
<1> QED BY <1>1, <1>2, <1>4 DEF IInv

LEMMA ItsWayKept ==
  ASSUME UNCHANGED <<listener, stream>>, client'.source = client.source, OnItsWay
  PROVE  OnItsWay'
BY DEF OnItsWay, OnStream, Unnoticed, Up

\* A page that has just asked, or will ask again, reads the current projection.
LEMMA SeekingIsCurrent ==
  ASSUME Seeks(client')
  PROVE  ShownCurrent' /\ ReadCurrent'
BY DEF Seeks, ShownCurrent, ReadCurrent

LEMMA PollStep ==
  ASSUME IInv, Poll
  PROVE  IInv'
<1>1. UNCHANGED <<version, listener, stream>> /\ client' = Refresh(client)
  BY DEF Poll
<1>2. /\ Alike(client, client') /\ client'.phase = client.phase /\ Seeks(client')
      /\ ~client'.valid => ~client.valid
  BY <1>1, RefreshIs DEF IInv, Shape
<1>3. client'.needsPair => client'.shown = 0
  BY <1>2 DEF Alike, IInv, Dropped
<1> QED BY <1>1, <1>2, <1>3, SeekingIsCurrent, RequestStep DEF Alike, Hopeful

LEMMA ReadProjectionStep ==
  ASSUME IInv, ReadProjection
  PROVE  IInv'
<1>1. UNCHANGED <<version, listener, stream>> /\ client \in ClientRow /\ version.number \in Nat
  BY DEF ReadProjection, IInv, Shape
<1>2. client'.needsPair = client.needsPair /\ client'.shown = client.shown
      /\ client' \in ClientRow /\ client'.source = client.source
      /\ client'.phase = client.phase /\ client'.valid = client.valid
      /\ \/ client'.request = "denied"
         \/ client'.request = "read" /\ client'.seen = version.number
  <2>1. CASE version.revoked
    BY <1>1, <2>1 DEF ReadProjection, ClientRow
  <2>2. CASE ~version.revoked
    <3> DEFINE number == version.number
    <3>1. number \in Nat /\ client' = [client EXCEPT !.request = "read", !.seen = number]
      BY <1>1, <2>2 DEF ReadProjection
    <3> HIDE DEF number
    <3>2. client' \in ClientRow /\ client'.request = "read" /\ client'.seen = number
          /\ client'.needsPair = client.needsPair /\ client'.shown = client.shown
          /\ client'.source = client.source
          /\ client'.phase = client.phase /\ client'.valid = client.valid
      BY <1>1, <3>1 DEF ClientRow
    <3> QED BY <3>2 DEF number
  <2> QED BY <2>1, <2>2
<1>3. ShownCurrent' /\ ReadCurrent'
  BY <1>1, <1>2 DEF ShownCurrent, ReadCurrent
<1>4. client'.needsPair => client'.shown = 0
  BY <1>2 DEF IInv, Dropped
<1> QED BY <1>1, <1>2, <1>3, <1>4, RequestStep DEF Hopeful

LEMMA DroppedIsHopeless ==
  ASSUME IInv, ~client.valid
  PROVE  ~Hopeful /\ client.shown = 0 /\ client.source \notin Streams
BY DEF IInv, Dropped, Following

LEMMA ReceiveStep ==
  ASSUME IInv, Receive
  PROVE  IInv'
<1>1. UNCHANGED <<version, listener, stream>> /\ client \in ClientRow /\ client.request = "read"
  BY DEF Receive, IInv, Shape
<1>2. CASE ~client.valid
  <2>1. client' = Finished(client)
    BY <1>2 DEF Receive
  <2>2. /\ Alike(client, client') /\ client'.phase = client.phase
        /\ ~client'.valid => ~client.valid
    BY <1>1, <2>1, FinishedIs
  <2>3. ~Hopeful /\ ~Hopeful'
    BY <1>2, <2>2, DroppedIsHopeless DEF Hopeful
  <2>4. client'.needsPair => client'.shown = 0
    BY <2>2 DEF Alike, IInv, Dropped
  <2> QED BY <1>1, <2>2, <2>3, <2>4, RequestStep DEF Alike
<1>3. CASE client.valid
  <2> DEFINE phase == Recovered(client)
             c == [client EXCEPT !.shown = client.seen, !.phase = phase,
                                 !.online = TRUE, !.needsPair = FALSE]
  <2>1. client' = Finished(c)
    BY <1>3 DEF Receive
  <2>2. /\ phase \in {"disconnected", "degraded", "refreshing", "live"}
        /\ phase \in {"live", "refreshing"} => Hopeful
    BY <1>1 DEF Recovered, ClientRow, Hopeful
  <2> HIDE DEF phase
  <2>3. /\ c \in ClientRow /\ c.valid /\ c.shown = client.seen /\ ~c.needsPair
        /\ c.source = client.source /\ c.phase = phase /\ c.again = client.again
    BY <1>1, <1>3, <2>2 DEF ClientRow
  <2> HIDE DEF c
  <2>4. /\ Alike(c, client') /\ client'.phase = phase /\ client'.valid
        /\ client'.request \in {"none", "sent"} /\ (client.again => client'.request = "sent")
    BY <2>1, <2>3, FinishedIs
  <2>5. /\ client' \in ClientRow /\ client'.source = client.source /\ ~client'.needsPair
        /\ client'.shown = client.seen
    BY <2>3, <2>4 DEF Alike
  <2>6. ASSUME Hopeful
        PROVE  ShownCurrent' /\ ReadCurrent'
    <3>1. client.seen # version.number => client.again \/ OnItsWay
      BY <1>1, <2>6 DEF IInv, Current, ReadCurrent
    <3>2. OnItsWay => OnItsWay'
      BY <1>1, <2>5, ItsWayKept
    <3> QED BY <1>1, <2>4, <2>5, <3>1, <3>2 DEF ShownCurrent, ReadCurrent
  <2> QED BY <1>1, <2>2, <2>4, <2>5, <2>6, RequestStep DEF Hopeful
<1> QED BY <1>2, <1>3

LEMMA RequestFailsStep ==
  ASSUME IInv, RequestFails
  PROVE  IInv'
<1>1. UNCHANGED <<version, listener, stream>> /\ client \in ClientRow
  BY DEF RequestFails, IInv, Shape
<1>2. PICK c \in ClientRow :
        /\ client' = Finished(c) /\ c.shown = client.shown /\ c.needsPair = client.needsPair
        /\ c.source = client.source /\ c.phase = client.phase /\ c.valid = client.valid
        /\ ~client.valid \/ ~c.online
  <2>1. /\ [client EXCEPT !.online = FALSE] \in ClientRow
        /\ [client EXCEPT !.online = FALSE].shown = client.shown
        /\ [client EXCEPT !.online = FALSE].needsPair = client.needsPair
        /\ [client EXCEPT !.online = FALSE].source = client.source
        /\ [client EXCEPT !.online = FALSE].phase = client.phase
        /\ [client EXCEPT !.online = FALSE].valid = client.valid
        /\ ~[client EXCEPT !.online = FALSE].online
    BY <1>1 DEF ClientRow
  <2> QED BY <1>1, <2>1, Zenon DEF RequestFails
<1>3. /\ Alike(c, client') /\ client'.phase = c.phase /\ (~client'.valid => ~c.valid)
      /\ client'.request \in {"none", "sent"}
  BY <1>2, FinishedIs
<1>4. Hopeful => ~client'.online
  BY <1>2, <1>3, DroppedIsHopeless DEF Alike
<1>5. client'.needsPair => client'.shown = 0
  BY <1>2, <1>3 DEF Alike, IInv, Dropped
<1>6. Hopeful => ShownCurrent' /\ ReadCurrent'
  BY <1>3, <1>4 DEF ShownCurrent, ReadCurrent
<1> QED BY <1>1, <1>2, <1>3, <1>5, <1>6, RequestStep DEF Alike, Hopeful

-----------------------------------------------------------------------------
(* One stream changes *)

LEMMA RowChanged ==
  ASSUME IInv, NEW s \in Streams, NEW row \in StreamRow,
         stream' = [stream EXCEPT ![s] = row], Consistent(row),
         client'.source = s => Followable(row),
         client'.source \in Streams \ {s} => client'.source = client.source
  PROVE  /\ stream' \in [Streams -> StreamRow] /\ Slots'
         /\ AllCorrected /\ Corrected(row.queue) => AllCorrected'
<1>1. /\ stream' \in [Streams -> StreamRow] /\ stream'[s] = row
      /\ \A r \in Streams \ {s} : stream'[r] = stream[r]
  BY DEF IInv, Shape
<1>2. Slots'
  BY <1>1 DEF IInv, Slots
<1>3. AllCorrected /\ Corrected(row.queue) => AllCorrected'
  BY <1>1 DEF AllCorrected
<1> QED BY <1>1, <1>2, <1>3

\* A connection that is lost takes what was under way on it.
LEMMA AbandonedIs ==
  ASSUME NEW row \in StreamRow, Consistent(row)
  PROVE  LET r == Abandoned(row) IN
           /\ r \in StreamRow /\ Consistent(r) /\ r.dead /\ r.queue = <<>>
           /\ r.phase = row.phase /\ r.subscribed = row.subscribed /\ Corrected(r.queue)
<1>0. <<>> \in Seq(Signals)
  OBVIOUS
<1> PICK empty \in Seq(Signals) : empty = <<>>
  BY <1>0, Zenon
<1>1. Abandoned(row) = [row EXCEPT !.dead = TRUE, !.queue = empty]
  BY DEF Abandoned
<1>2. LET r == Abandoned(row) IN
        /\ r \in StreamRow /\ r.dead /\ r.queue = empty
        /\ r.phase = row.phase /\ r.subscribed = row.subscribed
  BY <1>1 DEF StreamRow
<1> QED BY <1>2, EmptyCorrected DEF Consistent

\* The page leaves its stream, if it has one.
LEMMA LeftStep ==
  ASSUME IInv, stream' = Left, client'.source \notin Streams
  PROVE  stream' \in [Streams -> StreamRow] /\ Slots' /\ (Up \/ AllCorrected')
<1>0. Up \/ AllCorrected
  BY DEF IInv, Warned
<1>1. CASE client.source \in Streams
  <2> DEFINE s == client.source
             row == Abandoned(stream[s])
  <2>1. stream[s] \in StreamRow /\ Consistent(stream[s])
    BY <1>1 DEF IInv, Shape, Slots
  <2>2. row \in StreamRow /\ Consistent(row) /\ Corrected(row.queue)
    BY <2>1, AbandonedIs
  <2>3. stream' = [stream EXCEPT ![s] = row]
    BY <1>1 DEF Left
  <2> HIDE DEF row
  <2> QED BY <1>0, <1>1, <2>2, <2>3, RowChanged
<1>2. CASE client.source \notin Streams
  <2>1. stream' = stream
    BY <1>2 DEF Left
  <2> QED BY <1>0, <2>1 DEF IInv, Shape, Slots, AllCorrected
<1> QED BY <1>1, <1>2

LEMMA ReceiveDeniedStep ==
  ASSUME IInv, ReceiveDenied
  PROVE  IInv'
<1>1. UNCHANGED <<version, listener>> /\ client \in ClientRow
  BY DEF ReceiveDenied, IInv, Shape
<1>2. CASE ~client.valid
  <2>1. client' = Finished(client) /\ stream' = stream
    BY <1>2, DroppedIsHopeless DEF ReceiveDenied, Denied, Left
  <2>2. /\ Alike(client, client') /\ client'.phase = client.phase
        /\ ~client'.valid => ~client.valid
    BY <1>1, <2>1, FinishedIs
  <2>3. ~Hopeful /\ ~Hopeful'
    BY <1>2, <2>2, DroppedIsHopeless DEF Hopeful
  <2>4. client'.needsPair => client'.shown = 0
    BY <2>2 DEF Alike, IInv, Dropped
  <2> QED BY <1>1, <2>1, <2>2, <2>3, <2>4, RequestStep DEF Alike
<1>3. CASE client.valid
  <2> DEFINE c == Cleared(client)
  <2>1. c \in ClientRow /\ c.phase = "disconnected" /\ c.shown = 0 /\ c.source = None
    BY <1>1, ClearedIs
  <2>2. client' = Finished(c) /\ stream' = Left
    BY <1>3, <2>1 DEF ReceiveDenied, Denied
  <2> HIDE DEF c
  <2>3. Alike(c, client') /\ client'.phase = c.phase
    BY <2>1, <2>2, FinishedIs
  <2>4. client' \in ClientRow /\ client'.phase = "disconnected"
        /\ client'.shown = 0 /\ client'.source \notin Streams
    BY <2>1, <2>3, NoSource DEF Alike
  <2> QED BY <1>1, <2>2, <2>4, LeftStep, HopelessStep DEF Dropped
<1> QED BY <1>2, <1>3

LEMMA StreamErrorStep ==
  ASSUME IInv, NEW s \in Streams, StreamError(s)
  PROVE  IInv'
<1> DEFINE t == Turn(client, "disconnected")
           c == [t EXCEPT !.source = None]
<1>1. UNCHANGED <<version, listener, stream>> /\ client \in ClientRow /\ client' = Refresh(c)
  BY DEF StreamError, IInv, Shape
<1>2. Alike(client, t) /\ t.phase = "disconnected" /\ t.valid = client.valid
  BY <1>1, TurnIs
<1> HIDE DEF t
<1>3. /\ c \in ClientRow /\ c.source = None /\ c.phase = "disconnected"
      /\ c.valid = client.valid /\ c.shown = client.shown /\ c.needsPair = client.needsPair
  BY <1>2 DEF Alike, ClientRow
<1> HIDE DEF c
<1>4. Alike(c, client') /\ client'.phase = c.phase /\ (~client'.valid => ~c.valid)
  BY <1>1, <1>3, RefreshIs
<1>5. Slots' /\ Dropped' /\ (Up \/ AllCorrected')
  BY <1>1, <1>3, <1>4, NoSource DEF Alike, IInv, Slots, Dropped, Warned, AllCorrected
<1>6. stream' \in [Streams -> StreamRow]
  BY <1>1 DEF IInv, Shape
<1> QED BY <1>1, <1>3, <1>4, <1>5, <1>6, HopelessStep DEF Alike

LEMMA GoOfflineStep ==
  ASSUME IInv, GoOffline
  PROVE  IInv'
<1> DEFINE t == Turn(client, "disconnected")
           source == IF client.needsPair \/ client.shown = 0 THEN None ELSE Shut
<1>1. /\ UNCHANGED <<version, listener>> /\ client \in ClientRow /\ stream' = Left
      /\ client' = [t EXCEPT !.net = FALSE, !.online = FALSE, !.source = source]
  BY DEF GoOffline, IInv, Shape
<1>2. Alike(client, t) /\ t.phase = "disconnected" /\ t.valid = client.valid
  BY <1>1, TurnIs
<1>3. source \in {None, Shut}
  OBVIOUS
<1> HIDE DEF t, source
<1>4. /\ client' \in ClientRow /\ client'.source = source /\ client'.phase = "disconnected"
      /\ client'.valid = client.valid /\ client'.shown = client.shown
      /\ client'.needsPair = client.needsPair
  BY <1>1, <1>2, <1>3 DEF Alike, ClientRow
<1>5. client'.source \notin Streams
  BY <1>3, <1>4, NoSource
<1>6. Dropped'
  BY <1>4, <1>5 DEF IInv, Dropped
<1> QED BY <1>1, <1>4, <1>5, <1>6, LeftStep, HopelessStep

LEMMA GoOnlineStep ==
  ASSUME IInv, GoOnline
  PROVE  IInv'
<1> DEFINE t == Turn(client, "disconnected")
           c == [t EXCEPT !.net = TRUE, !.source = None]
<1>1. UNCHANGED <<version, listener, stream>> /\ client \in ClientRow /\ client' = Refresh(c)
  BY DEF GoOnline, IInv, Shape
<1>2. Alike(client, t) /\ t.phase = "disconnected" /\ t.valid = client.valid
  BY <1>1, TurnIs
<1> HIDE DEF t
<1>3. /\ c \in ClientRow /\ c.source = None /\ c.phase = "disconnected"
      /\ c.valid = client.valid /\ c.shown = client.shown /\ c.needsPair = client.needsPair
  BY <1>2 DEF Alike, ClientRow
<1> HIDE DEF c
<1>4. Alike(c, client') /\ client'.phase = c.phase /\ (~client'.valid => ~c.valid)
  BY <1>1, <1>3, RefreshIs
<1>5. Slots' /\ Dropped' /\ (Up \/ AllCorrected')
  BY <1>1, <1>3, <1>4, NoSource DEF Alike, IInv, Slots, Dropped, Warned, AllCorrected
<1>6. stream' \in [Streams -> StreamRow]
  BY <1>1 DEF IInv, Shape
<1> QED BY <1>1, <1>3, <1>4, <1>5, <1>6, HopelessStep DEF Alike

LEMMA CacheExpiresStep ==
  ASSUME IInv, CacheExpires
  PROVE  IInv'
<1> DEFINE t == Turn(client, "disconnected")
<1>0. PICK zero \in Nat : zero = 0
  OBVIOUS
<1>1. /\ UNCHANGED <<version, listener>> /\ client \in ClientRow /\ stream' = Left
      /\ client' = [t EXCEPT !.shown = zero, !.online = FALSE, !.source = None]
  BY <1>0 DEF CacheExpires, IInv, Shape
<1>2. Alike(client, t) /\ t.phase = "disconnected"
  BY <1>1, TurnIs
<1> HIDE DEF t
<1>3. /\ client' \in ClientRow /\ client'.source = None /\ client'.phase = "disconnected"
      /\ client'.shown = zero
  BY <1>1, <1>2 DEF Alike, ClientRow
<1>4. client'.source \notin Streams /\ Dropped'
  BY <1>0, <1>3, NoSource DEF Dropped
<1> QED BY <1>1, <1>3, <1>4, LeftStep, HopelessStep

LEMMA OpenSourceStep ==
  ASSUME IInv, NEW s \in Streams, OpenSource(s)
  PROVE  IInv'
<1> DEFINE row == [stream[s] EXCEPT !.phase = "auth"]
<1>1. /\ UNCHANGED <<version, listener>> /\ client.source = None /\ client \in ClientRow
      /\ stream[s].phase = "new" /\ stream[s] \in StreamRow /\ Consistent(stream[s])
      /\ client' = [client EXCEPT !.source = s] /\ client.shown # 0
      /\ stream' = [stream EXCEPT ![s] = row]
  BY DEF OpenSource, IInv, Shape, Slots
<1>2. row \in StreamRow /\ Consistent(row) /\ Followable(row) /\ row.queue = stream[s].queue
  BY <1>1 DEF StreamRow, Consistent, Followable
<1> HIDE DEF row
<1>3. /\ client' \in ClientRow /\ client'.source = s /\ client'.phase = client.phase
      /\ client'.valid = client.valid /\ client'.shown = client.shown
      /\ client'.needsPair = client.needsPair
  BY <1>1 DEF ClientRow
<1>4. client'.phase \notin {"live", "refreshing"}
  BY <1>1, <1>3, NoSource DEF IInv, Following, Hopeful
<1>5. Dropped'
  BY <1>1, <1>3 DEF IInv, Dropped
<1>6. AllCorrected => Corrected(row.queue)
  BY <1>2 DEF AllCorrected
<1>7. /\ stream' \in [Streams -> StreamRow] /\ Slots'
      /\ AllCorrected => AllCorrected'
  BY <1>1, <1>2, <1>3, <1>6, RowChanged
<1> QED BY <1>1, <1>3, <1>4, <1>5, <1>7, HopelessStep DEF IInv, Warned

-----------------------------------------------------------------------------
(* A signal arrives *)

\* Every signal but the last comes out of the queue and leaves the rest.
LEMMA DeliverStep ==
  ASSUME IInv, NEW s \in Streams, Deliver(s)
  PROVE  IInv'
<1> DEFINE q == stream[s].queue
           event == Head(q)
           rest == [stream[s] EXCEPT !.queue = Tail(q)]
<1>1. /\ UNCHANGED <<version, listener>> /\ client \in ClientRow
      /\ stream[s] \in StreamRow /\ Consistent(stream[s]) /\ Followable(stream[s])
      /\ client.source = s /\ q # <<>> /\ q \in Seq(Signals)
      /\ client' = Signalled(client, event)
  BY DEF Deliver, IInv, Shape, Slots, StreamRow
<1>2. Tail(q) \in Seq(Signals) /\ event \in Signals
  BY <1>1
<1>3. ~stream[s].dead /\ stream[s].subscribed /\ client.valid
  BY <1>1 DEF Consistent, IInv, Dropped
<1>4. /\ rest \in StreamRow /\ Consistent(rest) /\ Followable(rest) /\ rest.queue = Tail(q)
      /\ rest.subscribed
  <2> DEFINE t == Tail(q)
  <2>1. t \in Seq(Signals)
    BY <1>2
  <2> HIDE DEF t
  <2>2. LET r == [stream[s] EXCEPT !.queue = t] IN
          /\ r \in StreamRow /\ r.queue = t /\ r.phase = stream[s].phase
          /\ r.dead = stream[s].dead /\ r.subscribed = stream[s].subscribed
    BY <1>1, <2>1 DEF StreamRow
  <2> QED BY <1>1, <1>3, <2>2 DEF Consistent, Followable, t
<1>5. AllCorrected => Corrected(q)
  BY DEF AllCorrected
<1>6. AllCorrected => Corrected(Tail(q)) /\ (event \in Good => Has(Tail(q), Bad))
  BY <1>1, <1>5, CorrectedTail
<1>7. \A K : Has(q, K) /\ event \notin K => Has(Tail(q), K)
  BY <1>1, HasInTail
<1>8. event # "revoked" => stream' = [stream EXCEPT ![s] = rest]
  <2> SUFFICES ASSUME event # "revoked" PROVE stream' = [stream EXCEPT ![s] = rest]
    OBVIOUS
  <2>1. stream' = [stream EXCEPT ![s].queue = Tail(q)]
    BY DEF Deliver
  <2> QED BY <2>1
<1>9. event = "revoked" => stream' = [stream EXCEPT ![s] = Abandoned(stream[s])]
  BY DEF Deliver
<1> HIDE DEF event, rest, q
<1>10. ASSUME event # "revoked", Alike(client, client'), ~client'.valid => ~client.valid
       PROVE  /\ Shape' /\ Slots' /\ Dropped' /\ (Up \/ AllCorrected')
              /\ client'.source = s /\ stream'[s] = rest
  <2>1. client'.source = s /\ client' \in ClientRow
    BY <1>1, <1>10 DEF Alike
  <2>2. /\ stream' \in [Streams -> StreamRow] /\ Slots' /\ stream'[s] = rest
        /\ AllCorrected => AllCorrected'
    BY <1>4, <1>6, <1>8, <1>10, <2>1, RowChanged DEF IInv, Shape
  <2>3. Dropped'
    BY <1>3, <1>10 DEF Alike, IInv, Dropped
  <2> QED BY <1>1, <2>1, <2>2, <2>3 DEF IInv, Shape, Warned
<1>11. CASE event \in Good
  <2> DEFINE t == Turn(client, "refreshing")
  <2>1. Alike(client, t) /\ t.phase = "refreshing" /\ t.valid = client.valid
    BY <1>1, TurnIs
  <2>2. client' = Refresh(t) /\ event # "revoked"
    BY <1>1, <1>11 DEF Signalled, Good
  <2> HIDE DEF t
  <2>3. Alike(t, client') /\ client'.phase = "refreshing" /\ Seeks(client')
        /\ (~client'.valid => ~client.valid)
    BY <2>1, <2>2, RefreshIs DEF Alike
  <2>4. Alike(client, client')
    BY <2>1, <2>3 DEF Alike
  <2>5. /\ Shape' /\ Slots' /\ Dropped' /\ (Up \/ AllCorrected')
        /\ client'.source = s /\ stream'[s] = rest
    BY <1>10, <2>2, <2>3, <2>4
  <2>6. Following'
    BY <1>4, <2>5 DEF Following
  <2>7. ~Up => OnStream(Bad)'
    <3>1. ~Up => Has(stream'[client'.source].queue, Bad) /\ client'.source \in Streams
      BY <1>4, <1>6, <1>11, <2>5 DEF IInv, Warned
    <3> QED BY <3>1 DEF OnStream, Has
  <2>8. Warned'
    BY <1>1, <2>5, <2>7 DEF Warned, Up
  <2>9. Current'
    BY <2>3, SeekingIsCurrent DEF Current
  <2> QED BY <2>5, <2>6, <2>8, <2>9 DEF IInv
<1>12. CASE event \in Bad \/ event = "ready-degraded"
  <2> DEFINE t == Turn(client, "degraded")
  <2>1. Alike(client, t) /\ t.phase = "degraded" /\ t.valid = client.valid
    BY <1>1, TurnIs
  <2>2. (client' = t \/ client' = Refresh(t)) /\ event # "revoked"
    BY <1>1, <1>12 DEF Signalled, Bad
  <2> HIDE DEF t
  <2>3. Alike(t, client') /\ client'.phase = "degraded" /\ (~client'.valid => ~client.valid)
    BY <2>1, <2>2, RefreshIs DEF Alike
  <2>4. Alike(client, client')
    BY <2>1, <2>3 DEF Alike
  <2>5. /\ Shape' /\ Slots' /\ Dropped' /\ (Up \/ AllCorrected')
    BY <1>10, <2>2, <2>3, <2>4
  <2> QED BY <1>1, <2>3, <2>5, HopelessStep DEF Shape
<1>13. CASE event \in {"heartbeat", "invalidated"}
  <2>1. /\ event # "revoked" /\ event \notin Bad
        /\ \/ event = "heartbeat" /\ event \notin News /\ client' = client
           \/ client' = Refresh(client)
    BY <1>1, <1>13 DEF Signalled, Bad, News
  <2>2. /\ Alike(client, client') /\ client'.phase = client.phase
        /\ ~client'.valid => ~client.valid
    BY <1>1, <2>1, RefreshIs DEF Alike
  <2>3. /\ Shape' /\ Slots' /\ Dropped' /\ (Up \/ AllCorrected')
        /\ client'.source = s /\ stream'[s] = rest
    BY <1>10, <2>1, <2>2
  <2>4. Following'
    BY <1>4, <2>3 DEF Following
  <2>5. \A K : OnStream(K) /\ event \notin K => OnStream(K)'
    <3> SUFFICES ASSUME NEW K, OnStream(K), event \notin K PROVE OnStream(K)'
      OBVIOUS
    <3>1. Has(q, K)
      BY <1>1, <1>3, OnStreamIs DEF q
    <3>2. Has(stream'[client'.source].queue, K) /\ client'.source \in Streams
      BY <1>4, <1>7, <2>3, <3>1
    <3> QED BY <3>2 DEF OnStream, Has
  <2>6. Warned'
    BY <1>1, <2>1, <2>2, <2>3, <2>5 DEF IInv, Warned, Up, Hopeful
  <2>7. Current'
    <3>1. CASE event = "heartbeat" /\ event \notin News /\ client' = client
      <4>1. OnItsWay => OnItsWay'
        BY <1>1, <2>5, <3>1 DEF OnItsWay, Unnoticed, Up
      <4> QED BY <1>1, <3>1, <4>1 DEF IInv, Current, Hopeful, ShownCurrent, ReadCurrent
    <3>2. CASE client' = Refresh(client)
      BY <1>1, <3>2, RefreshIs, SeekingIsCurrent DEF Current
    <3> QED BY <2>1, <3>1, <3>2
  <2> QED BY <2>3, <2>4, <2>6, <2>7 DEF IInv
<1>14. CASE event = "revoked"
  <2> DEFINE row == Abandoned(stream[s])
  <2>1. client' = Cleared(client)
    BY <1>1, <1>14 DEF Signalled
  <2>2. /\ client' \in ClientRow /\ client'.phase = "disconnected" /\ client'.shown = 0
        /\ client'.source \notin Streams
    BY <1>1, <2>1, ClearedIs, NoSource
  <2>3. row \in StreamRow /\ Consistent(row) /\ Corrected(row.queue)
    BY <1>1, AbandonedIs
  <2>4. stream' = [stream EXCEPT ![s] = row]
    BY <1>9, <1>14
  <2> HIDE DEF row
  <2>5. /\ stream' \in [Streams -> StreamRow] /\ Slots' /\ (AllCorrected => AllCorrected')
    BY <2>2, <2>3, <2>4, RowChanged
  <2> QED BY <1>1, <2>2, <2>5, HopelessStep DEF Dropped, IInv, Warned
<1> QED BY <1>2, <1>11, <1>12, <1>13, <1>14 DEF Signals, Good, Bad

-----------------------------------------------------------------------------
(* Steps of the API *)

Holds(row, K) == row.dead \/ Has(row.queue, K)

\* The API changes one stream behind the back of the page.
LEMMA ServerStep ==
  ASSUME IInv, UNCHANGED <<version, client>>, NEW s \in Streams, NEW row \in StreamRow,
         stream' = [stream EXCEPT ![s] = row], Consistent(row),
         client.source = s => Followable(row), ~Up => Corrected(row.queue),
         client.source = s /\ Hopeful => row.dead \/ row.subscribed,
         \A K : Holds(stream[s], K) => Holds(row, K),
         listener' \in ListenerRow, Up' <=> Up, Unnoticed => Unnoticed'
  PROVE  IInv'
<1>1. /\ stream' \in [Streams -> StreamRow] /\ Slots' /\ (~Up => AllCorrected')
  BY RowChanged DEF IInv, Warned
<1>2. /\ stream'[s] = row
      /\ \A r \in Streams \ {s} : stream'[r] = stream[r]
  BY DEF IInv, Shape
<1>3. \A K : OnStream(K) => OnStream(K)'
  <2> SUFFICES ASSUME NEW K, OnStream(K) PROVE OnStream(K)'
    OBVIOUS
  <2>1. client.source \in Streams /\ Holds(stream[client.source], K)
    BY OnStreamIs DEF Holds
  <2>2. client'.source \in Streams /\ Holds(stream'[client'.source], K)
    BY <1>2, <2>1
  <2> QED BY <2>2 DEF Holds, OnStream, Has
<1>4. Shape' /\ Dropped'
  BY <1>1 DEF IInv, Shape, Dropped
<1>5. Following'
  BY <1>2 DEF IInv, Following, Hopeful
<1>6. Warned'
  BY <1>1, <1>3 DEF IInv, Warned, Hopeful
<1>7. Current'
  BY <1>3 DEF IInv, Current, Hopeful, ShownCurrent, ReadCurrent, OnItsWay
<1> QED BY <1>1, <1>4, <1>5, <1>6, <1>7 DEF IInv

LEMMA SendIs ==
  ASSUME NEW row \in StreamRow, NEW events \in Seq(Signals)
  PROVE  LET r == Send(row, events) IN
           /\ r \in StreamRow /\ r.phase = row.phase /\ r.subscribed = row.subscribed
           /\ r.dead = row.dead
           /\ r.queue = IF row.dead THEN row.queue ELSE row.queue \o events
<1>1. CASE row.dead
  BY <1>1 DEF Send
<1>2. CASE ~row.dead
  <2> DEFINE more == row.queue \o events
  <2>1. more \in Seq(Signals)
    BY DEF StreamRow
  <2>2. Send(row, events) = [row EXCEPT !.queue = more]
    BY <1>2 DEF Send
  <2> HIDE DEF more
  <2>3. LET r == Send(row, events) IN
          /\ r \in StreamRow /\ r.phase = row.phase /\ r.subscribed = row.subscribed
          /\ r.dead = row.dead /\ r.queue = more
    BY <2>1, <2>2 DEF StreamRow
  <2> QED BY <1>2, <2>3 DEF more
<1> QED BY <1>1, <1>2

LEMMA NothingGood ==
  ASSUME NEW event \in Signals, event \notin Good
  PROVE  <<event>> \in Seq(Signals) /\ Corrected(<<event>>)
BY DEF Corrected

\* What a stream is told while the API has no listener corrects itself.
LEMMA DegradedCorrected ==
  Corrected(<<"ready-degraded", "degraded">>) /\ Corrected(<<"heartbeat-degraded">>)
BY DEF Corrected, Good

LEMMA EnsuredIs ==
  ASSUME NEW l \in ListenerRow
  PROVE  LET m == Ensured(l) IN
           /\ m \in ListenerRow /\ (m.phase = "up" <=> l.phase = "up")
           /\ m.broken = l.broken /\ m.pending = l.pending /\ m.timer = l.timer
BY DEF Ensured, ListenerRow

LEMMA SubscribeStep ==
  ASSUME IInv, NEW s \in Streams, Subscribe(s)
  PROVE  IInv'
<1> DEFINE opened == [stream[s] EXCEPT !.phase = "open", !.subscribed = TRUE]
           events == IF Up THEN <<"ready">> ELSE <<"ready-degraded", "degraded">>
           row == Send(opened, events)
<1>1. /\ UNCHANGED <<version, client>> /\ stream[s] \in StreamRow /\ Consistent(stream[s])
      /\ stream[s].phase = "auth" /\ listener' = Ensured(listener) /\ listener \in ListenerRow
      /\ stream' = [stream EXCEPT ![s] = row]
  BY DEF Subscribe, IInv, Shape, Slots
<1>2. /\ opened \in StreamRow /\ opened.phase = "open" /\ opened.subscribed
      /\ opened.dead = stream[s].dead /\ opened.queue = stream[s].queue
  BY <1>1 DEF StreamRow
<1>3. opened.queue = <<>>
  BY <1>1, <1>2 DEF Consistent
<1>4. events \in Seq(Signals) /\ (~Up => Corrected(events))
  <2>1. <<"ready">> \in Seq(Signals) /\ <<"ready-degraded", "degraded">> \in Seq(Signals)
    BY DEF Signals
  <2> QED BY <2>1, DegradedCorrected, Zenon
<1> HIDE DEF opened, events
<1>5. /\ row \in StreamRow /\ row.phase = "open" /\ row.subscribed /\ row.dead = opened.dead
      /\ row.queue = IF row.dead THEN <<>> ELSE events
  <2>1. /\ row \in StreamRow /\ row.phase = opened.phase
        /\ row.subscribed = opened.subscribed /\ row.dead = opened.dead
        /\ row.queue = IF opened.dead THEN opened.queue ELSE opened.queue \o events
    BY <1>2, <1>4, SendIs, Zenon
  <2>2. <<>> \o events = events
    BY <1>4
  <2> QED BY <1>2, <1>3, <2>1, <2>2, Zenon
<1> HIDE DEF row
<1>6. /\ Consistent(row) /\ Followable(row) /\ (~Up => Corrected(row.queue))
      /\ row.dead \/ row.subscribed
  BY <1>4, <1>5, EmptyCorrected DEF Consistent, Followable
<1>7. \A K : Holds(stream[s], K) => Holds(row, K)
  BY <1>2, <1>3, <1>5 DEF Holds, Has
<1>8. listener' \in ListenerRow /\ (Up' <=> Up) /\ (Unnoticed => Unnoticed')
  BY <1>1, EnsuredIs DEF Up, Unnoticed
<1> QED BY <1>1, <1>5, <1>6, <1>7, <1>8, ServerStep

LEMMA RefusalStep ==
  ASSUME IInv, NEW s \in Streams, Refusal(s)
  PROVE  IInv'
<1>0. <<>> \in Seq(Signals)
  OBVIOUS
<1> PICK empty \in Seq(Signals) : empty = <<>>
  BY <1>0, Zenon
<1> DEFINE row == [stream[s] EXCEPT !.phase = "over", !.queue = empty]
<1>1. /\ UNCHANGED <<version, listener>> /\ stream[s] \in StreamRow /\ Consistent(stream[s])
      /\ stream[s].phase = "auth" /\ listener \in ListenerRow /\ client \in ClientRow
      /\ stream' = [stream EXCEPT ![s] = row]
  BY DEF Refusal, IInv, Shape, Slots
<1>2. /\ row \in StreamRow /\ row.phase = "over" /\ ~row.subscribed /\ row.queue = empty
      /\ row.dead = stream[s].dead
  BY <1>1 DEF StreamRow, Consistent
<1> HIDE DEF row
<1>3. Consistent(row) /\ Corrected(row.queue)
  BY <1>2, EmptyCorrected DEF Consistent
<1>4. CASE client.source = s /\ ~stream[s].dead
  <2> DEFINE t == Turn(client, "disconnected")
             c == [t EXCEPT !.source = Shut]
  <2>1. client' = Refresh(c)
    BY <1>4 DEF Refusal, Refused
  <2>2. Alike(client, t) /\ t.phase = "disconnected" /\ t.valid = client.valid
    BY <1>1, TurnIs
  <2> HIDE DEF t
  <2>3. /\ c \in ClientRow /\ c.source = Shut /\ c.phase = "disconnected"
        /\ c.valid = client.valid /\ c.shown = client.shown /\ c.needsPair = client.needsPair
    BY <2>2 DEF Alike, ClientRow
  <2> HIDE DEF c
  <2>4. /\ Alike(c, client') /\ client'.phase = c.phase /\ (~client'.valid => ~c.valid)
    BY <2>1, <2>3, RefreshIs
  <2>5. client'.source \notin Streams /\ Dropped'
    BY <2>3, <2>4, NoSource DEF Alike, IInv, Dropped
  <2>6. stream' \in [Streams -> StreamRow] /\ Slots' /\ (AllCorrected => AllCorrected')
    BY <1>1, <1>2, <1>3, <2>5, RowChanged
  <2> QED BY <1>1, <2>3, <2>4, <2>5, <2>6, HopelessStep DEF Alike, IInv, Warned
<1>5. CASE ~(client.source = s /\ ~stream[s].dead)
  <2>1. client' = client
    BY <1>5 DEF Refusal
  <2>2. client.source = s => row.dead
    BY <1>2, <1>5
  <2>3. client.source = s => Followable(row)
    BY <1>2, <2>2 DEF Followable
  <2>4. Consistent(stream[s]) /\ stream[s].queue = <<>>
    BY <1>1 DEF Consistent
  <2>5. \A K : Holds(stream[s], K) => Holds(row, K)
    BY <1>2, <2>4 DEF Holds, Has
  <2>6. (Up' <=> Up) /\ (Unnoticed => Unnoticed')
    BY <1>1 DEF Up, Unnoticed
  <2> QED BY <1>1, <1>2, <1>3, <2>1, <2>2, <2>3, <2>5, <2>6, ServerStep
<1> QED BY <1>4, <1>5

LEMMA CloseStep ==
  ASSUME IInv, NEW s \in Streams, Close(s)
  PROVE  IInv'
<1>1. /\ UNCHANGED <<version, listener, client>> /\ stream[s] \in StreamRow
      /\ Consistent(stream[s]) /\ (client.source = s => Followable(stream[s]))
      /\ stream[s].dead /\ listener \in ListenerRow
  BY DEF Close, IInv, Shape, Slots
<1>2. PICK row \in StreamRow :
        /\ stream' = [stream EXCEPT ![s] = row] /\ row.dead /\ row.queue = stream[s].queue
        /\ \/ stream[s].phase = "open" /\ ~row.subscribed /\ row.phase = "over"
           \/ row.subscribed = stream[s].subscribed /\ row.phase = stream[s].phase
  <2>1. CASE stream[s].phase = "open"
    <3> DEFINE row == [stream[s] EXCEPT !.closed = TRUE, !.subscribed = FALSE,
                                        !.phase = "over"]
    <3>1. row \in StreamRow /\ row.dead /\ row.queue = stream[s].queue
          /\ ~row.subscribed /\ row.phase = "over"
      BY <1>1 DEF StreamRow
    <3>2. stream' = [stream EXCEPT ![s] = row]
      BY <2>1 DEF Close
    <3> HIDE DEF row
    <3> QED BY <2>1, <3>1, <3>2
  <2>2. CASE stream[s].phase # "open"
    <3> DEFINE row == [stream[s] EXCEPT !.closed = TRUE]
    <3>1. row \in StreamRow /\ row.dead /\ row.queue = stream[s].queue
          /\ row.subscribed = stream[s].subscribed /\ row.phase = stream[s].phase
      BY <1>1 DEF StreamRow
    <3>2. stream' = [stream EXCEPT ![s] = row]
      BY <2>2 DEF Close
    <3> HIDE DEF row
    <3> QED BY <3>1, <3>2
  <2> QED BY <2>1, <2>2
<1>3. row.queue = <<>> /\ Consistent(row) /\ (client.source = s => Followable(row))
  BY <1>1, <1>2 DEF Consistent, Followable
<1>4. \A K : Holds(row, K)
  BY <1>2 DEF Holds
<1>5. (Up' <=> Up) /\ (Unnoticed => Unnoticed')
  BY <1>1 DEF Up, Unnoticed
<1> QED BY <1>1, <1>2, <1>3, <1>4, <1>5, EmptyCorrected, ServerStep

LEMMA DropStep ==
  ASSUME IInv, NEW s \in Streams, Drop(s)
  PROVE  IInv'
<1> DEFINE row == Abandoned(stream[s])
<1>1. /\ UNCHANGED <<version, listener, client>> /\ stream[s] \in StreamRow
      /\ Consistent(stream[s]) /\ (client.source = s => Followable(stream[s]))
      /\ listener \in ListenerRow /\ stream' = [stream EXCEPT ![s] = row]
  BY DEF Drop, IInv, Shape, Slots
<1>2. /\ row \in StreamRow /\ Consistent(row) /\ row.dead /\ Corrected(row.queue)
      /\ row.phase = stream[s].phase
  BY <1>1, AbandonedIs
<1> HIDE DEF row
<1>3. client.source = s => Followable(row)
  BY <1>1, <1>2 DEF Followable
<1>4. \A K : Holds(row, K)
  BY <1>2 DEF Holds
<1>5. (Up' <=> Up) /\ (Unnoticed => Unnoticed')
  BY <1>1 DEF Up, Unnoticed
<1> QED BY <1>1, <1>2, <1>3, <1>4, <1>5, ServerStep

\* The timer tells a stream that has nothing under way.
LEMMA CheckedStep ==
  ASSUME IInv, UNCHANGED <<version, listener, client>>, NEW s \in Streams, Checks(s),
         NEW c \in StreamRow, c.phase = stream[s].phase, c.subscribed = stream[s].subscribed,
         c.dead = stream[s].dead, c.queue = stream[s].queue,
         NEW events \in Seq(Signals), ~Up => Corrected(events),
         stream' = [stream EXCEPT ![s] = Send(c, events)]
  PROVE  IInv'
<1> DEFINE row == Send(c, events)
<1>1. /\ stream[s] \in StreamRow /\ listener \in ListenerRow /\ stream[s].queue = <<>>
      /\ Consistent(stream[s]) /\ (client.source = s => Followable(stream[s]))
      /\ stream[s].subscribed /\ ~stream[s].dead
  BY DEF Checks, IInv, Shape, Slots
<1>2. /\ row \in StreamRow /\ row.phase = stream[s].phase /\ row.subscribed /\ ~row.dead
      /\ row.queue = <<>> \o events
  <2>1. /\ row \in StreamRow /\ row.phase = c.phase
        /\ row.subscribed = c.subscribed /\ row.dead = c.dead
        /\ row.queue = IF c.dead THEN c.queue ELSE c.queue \o events
    BY SendIs, Zenon
  <2> QED BY <1>1, <2>1, Zenon
<1> HIDE DEF row
<1>3. row.queue = events
  BY <1>2
<1>4. Consistent(row) /\ (client.source = s => Followable(row))
  BY <1>1, <1>2 DEF Consistent, Followable
<1>5. \A K : Holds(stream[s], K) => Holds(row, K)
  BY <1>1 DEF Holds, Has
<1>6. (Up' <=> Up) /\ (Unnoticed => Unnoticed')
  BY DEF Up, Unnoticed
<1> QED BY <1>1, <1>2, <1>3, <1>4, <1>5, <1>6, ServerStep DEF row

LEMMA RevalidateStep ==
  ASSUME IInv, NEW s \in Streams, Revalidate(s)
  PROVE  IInv'
<1>1. /\ UNCHANGED <<version, listener, client>> /\ Checks(s) /\ stream[s] \in StreamRow
  BY DEF Revalidate, IInv, Shape
<1>2. CASE version.revoked
  <2>1. <<"revoked">> \in Seq(Signals) /\ Corrected(<<"revoked">>)
    BY NothingGood DEF Signals, Good
  <2>2. stream' = [stream EXCEPT ![s] = Send(stream[s], <<"revoked">>)]
    BY <1>2 DEF Revalidate
  <2> QED BY <1>1, <2>1, <2>2, CheckedStep
<1>3. CASE ~version.revoked
  <2> DEFINE c == [stream[s] EXCEPT !.unchecked = FALSE]
             news == IF stream[s].unchecked /\ Up THEN <<"restored">> ELSE <<>>
             beat == IF Up THEN <<"heartbeat">> ELSE <<"heartbeat-degraded">>
             events == news \o beat
  <2>1. /\ c \in StreamRow /\ c.phase = stream[s].phase
        /\ c.subscribed = stream[s].subscribed /\ c.dead = stream[s].dead
        /\ c.queue = stream[s].queue
    BY <1>1 DEF StreamRow
  <2>2. stream' = [stream EXCEPT ![s] = Send(c, events)]
    BY <1>3 DEF Revalidate
  <2>3. news \in Seq(Signals) /\ beat \in Seq(Signals)
    <3>1. /\ <<"restored">> \in Seq(Signals) /\ <<>> \in Seq(Signals)
          /\ <<"heartbeat">> \in Seq(Signals) /\ <<"heartbeat-degraded">> \in Seq(Signals)
      BY DEF Signals
    <3> QED BY <3>1, Zenon
  <2>4. ~Up => news = <<>> /\ beat = <<"heartbeat-degraded">>
    OBVIOUS
  <2> HIDE DEF news, beat, c
  <2>5. events \in Seq(Signals) /\ (~Up => events = <<"heartbeat-degraded">>)
    <3>1. events \in Seq(Signals)
      BY <2>3
    <3>2. ~Up => events = <<>> \o <<"heartbeat-degraded">>
      BY <2>4, Zenon
    <3>3. <<>> \o <<"heartbeat-degraded">> = <<"heartbeat-degraded">>
      OBVIOUS
    <3> QED BY <3>1, <3>2, <3>3, Zenon
  <2> HIDE DEF events
  <2> QED BY <1>1, <2>1, <2>2, <2>5, DegradedCorrected, CheckedStep
<1> QED BY <1>2, <1>3

LEMMA RevalidateFailsStep ==
  ASSUME IInv, NEW s \in Streams, RevalidateFails(s)
  PROVE  IInv'
<1> DEFINE c == [stream[s] EXCEPT !.unchecked = TRUE]
<1>1. /\ UNCHANGED <<version, listener, client>> /\ Checks(s) /\ stream[s] \in StreamRow
      /\ stream' = [stream EXCEPT ![s] = Send(c, <<"degraded">>)]
  BY DEF RevalidateFails, IInv, Shape
<1>2. /\ c \in StreamRow /\ c.phase = stream[s].phase
      /\ c.subscribed = stream[s].subscribed /\ c.dead = stream[s].dead
      /\ c.queue = stream[s].queue
  BY <1>1 DEF StreamRow
<1> HIDE DEF c
<1>3. <<"degraded">> \in Seq(Signals) /\ Corrected(<<"degraded">>)
  BY NothingGood DEF Signals, Good
<1> QED BY <1>1, <1>2, <1>3, CheckedStep

-----------------------------------------------------------------------------
(* Steps of the listener *)

LEMMA ListenerOnly ==
  ASSUME IInv, UNCHANGED <<version, client, stream>>, listener' \in ListenerRow,
         Up' <=> Up, Unnoticed => Unnoticed'
  PROVE  IInv'
<1>1. \A K : OnStream(K) => OnStream(K)'
  BY DEF OnStream
<1>2. Shape' /\ Slots' /\ Following' /\ Dropped'
  BY DEF IInv, Shape, Slots, Following, Dropped, Hopeful
<1>3. Warned' /\ Current'
  BY <1>1 DEF IInv, Warned, AllCorrected, Current, Hopeful, ShownCurrent, ReadCurrent,
              OnItsWay
<1> QED BY <1>2, <1>3 DEF IInv

LEMMA ListenStep ==
  ASSUME IInv, Listen
  PROVE  IInv'
<1>1. listener' \in ListenerRow /\ ~Up /\ ~Up' /\ UNCHANGED <<version, client, stream>>
  BY DEF Listen, ListenerStep, IInv, Shape, ListenerRow, Up
<1> QED BY <1>1, ListenerOnly DEF Unnoticed

LEMMA ConnectFailsStep ==
  ASSUME IInv, ConnectFails
  PROVE  IInv'
<1>1. listener' \in ListenerRow /\ ~Up /\ ~Up' /\ UNCHANGED <<version, client, stream>>
  BY DEF ConnectFails, ListenerStep, IInv, Shape, ListenerRow, Up
<1> QED BY <1>1, ListenerOnly DEF Unnoticed

LEMMA BreakStep ==
  ASSUME IInv, Break
  PROVE  IInv'
<1>1. /\ listener' \in ListenerRow /\ Up /\ Up' /\ UNCHANGED <<version, client, stream>>
      /\ listener'.broken
  BY DEF Break, ListenerStep, IInv, Shape, ListenerRow, Up
<1> QED BY <1>1, ListenerOnly DEF Unnoticed

LEMMA ReconnectStep ==
  ASSUME IInv, Reconnect
  PROVE  IInv'
<1> DEFINE l == Ensured(listener)
<1>1. /\ UNCHANGED <<version, client, stream>> /\ listener \in ListenerRow
      /\ listener' = [l EXCEPT !.timer = FALSE]
  BY DEF Reconnect, ListenerStep, IInv, Shape
<1>2. /\ l \in ListenerRow /\ (l.phase = "up" <=> listener.phase = "up")
      /\ l.broken = listener.broken /\ l.pending = listener.pending
  BY <1>1, EnsuredIs
<1> HIDE DEF l
<1>3. /\ listener' \in ListenerRow /\ listener'.phase = l.phase
      /\ listener'.broken = l.broken /\ listener'.pending = l.pending
  BY <1>1, <1>2 DEF ListenerRow
<1>4. (Up' <=> Up) /\ (Unnoticed => Unnoticed')
  BY <1>2, <1>3 DEF Up, Unnoticed
<1> QED BY <1>1, <1>3, <1>4, ListenerOnly

\* What the listener tells reaches every stream that is subscribed.
LEMMA BroadcastIs ==
  ASSUME IInv, NEW event \in Signals, UNCHANGED <<version, client>>,
         stream' = Broadcast(event), listener' \in ListenerRow
  PROVE  /\ Shape' /\ Slots' /\ Following' /\ Dropped'
         /\ \A K : OnStream(K) => OnStream(K)'
         /\ \A K : Hopeful /\ event \in K => OnStream(K)'
         /\ event \in Bad => AllCorrected'
<1>0. <<event>> \in Seq(Signals)
  OBVIOUS
<1>1. ASSUME NEW s \in Streams
      PROVE  LET r == stream'[s] IN
               /\ r \in StreamRow /\ Consistent(r)
               /\ r.phase = stream[s].phase /\ r.subscribed = stream[s].subscribed
               /\ r.dead = stream[s].dead
               /\ event \in Bad => Corrected(r.queue)
               /\ \A K : Has(stream[s].queue, K) => Has(r.queue, K)
               /\ \A K : r.subscribed /\ ~r.dead /\ event \in K => Has(r.queue, K)
  <2>1. stream[s] \in StreamRow /\ Consistent(stream[s]) /\ stream[s].queue \in Seq(Signals)
    BY DEF IInv, Shape, Slots, StreamRow
  <2>2. CASE stream[s].subscribed /\ ~stream[s].dead
    <3> DEFINE r == Send(stream[s], <<event>>)
    <3>1. stream'[s] = r
      BY <2>2 DEF Broadcast
    <3>2. /\ r \in StreamRow /\ r.phase = stream[s].phase
          /\ r.subscribed = stream[s].subscribed /\ r.dead = stream[s].dead
          /\ r.queue = IF stream[s].dead THEN stream[s].queue
                       ELSE stream[s].queue \o <<event>>
      BY <1>0, <2>1, SendIs, Zenon
    <3> HIDE DEF r
    <3>3. Consistent(r) /\ r.queue = stream[s].queue \o <<event>>
      BY <2>1, <2>2, <3>2 DEF Consistent
    <3>4. event \in Bad => Corrected(r.queue)
      BY <2>1, <3>3, BadCorrects
    <3>5. \A K : Has(stream[s].queue, K) => Has(r.queue, K)
      BY <1>0, <2>1, <3>3, HasAppended
    <3>6. \A K : event \in K => Has(r.queue, K)
      <4>1. \A K : event \in K => Has(<<event>>, K)
        BY DEF Has
      <4> QED BY <1>0, <2>1, <3>3, <4>1, HasAppended
    <3> QED BY <3>1, <3>2, <3>3, <3>4, <3>5, <3>6
  <2>3. CASE ~(stream[s].subscribed /\ ~stream[s].dead)
    <3>1. stream'[s] = stream[s]
      BY <2>3 DEF Broadcast, Send
    <3>2. stream[s].queue = <<>>
      BY <2>1, <2>3 DEF Consistent
    <3> QED BY <2>1, <2>3, <3>1, <3>2, EmptyCorrected
  <2> QED BY <2>2, <2>3
<1>2. stream' \in [Streams -> StreamRow]
  BY <1>1 DEF Broadcast
<1>3. Shape' /\ Dropped'
  BY <1>2 DEF IInv, Shape, Dropped
<1>4. Slots'
  BY <1>1 DEF IInv, Slots, Followable
<1>5. Following'
  BY <1>1 DEF IInv, Following, Hopeful
<1>6. event \in Bad => AllCorrected'
  BY <1>1 DEF AllCorrected
<1>7. ASSUME NEW K, OnStream(K) \/ (Hopeful /\ event \in K)
      PROVE  OnStream(K)'
  <2>1. client.source \in Streams
    BY <1>7 DEF OnStream, IInv, Following
  <2>2. stream'[client.source].dead \/ Has(stream'[client.source].queue, K)
    BY <1>1, <1>7, <2>1, OnStreamIs DEF IInv, Following
  <2> QED BY <2>1, <2>2 DEF OnStream, Has
<1> QED BY <1>3, <1>4, <1>5, <1>6, <1>7

LEMMA ListenerUpStep ==
  ASSUME IInv, ListenerUp
  PROVE  IInv'
<1>1. /\ UNCHANGED <<version, client>> /\ stream' = Broadcast("restored")
      /\ listener' \in ListenerRow /\ ~Up /\ Up' /\ "restored" \in Signals
  BY DEF ListenerUp, ListenerStep, IInv, Shape, ListenerRow, Up, Signals
<1>2. /\ Shape' /\ Slots' /\ Following' /\ Dropped'
      /\ \A K : OnStream(K) => OnStream(K)'
  BY <1>1, BroadcastIs
<1>3. Warned'
  BY <1>1 DEF Warned
<1>4. OnItsWay => OnItsWay'
  BY <1>1, <1>2 DEF OnItsWay, Unnoticed
<1>5. Current'
  BY <1>1, <1>4 DEF IInv, Current, Hopeful, ShownCurrent, ReadCurrent
<1> QED BY <1>2, <1>3, <1>5 DEF IInv

LEMMA ListenerFailedStep ==
  ASSUME IInv, ListenerFailed
  PROVE  IInv'
<1>1. /\ UNCHANGED <<version, client>> /\ stream' = Broadcast("degraded")
      /\ listener' \in ListenerRow /\ ~Up' /\ "degraded" \in Signals
      /\ "degraded" \in Bad /\ "degraded" \in News
  BY DEF ListenerFailed, ListenerStep, IInv, Shape, ListenerRow, Up, Signals, Bad, News
<1>2. /\ Shape' /\ Slots' /\ Following' /\ Dropped' /\ AllCorrected'
      /\ Hopeful => OnStream(Bad)' /\ OnStream(News)'
  BY <1>1, BroadcastIs
<1>3. Warned'
  BY <1>1, <1>2 DEF Warned, Hopeful
<1>4. Current'
  BY <1>1, <1>2 DEF Current, Hopeful, ShownCurrent, ReadCurrent, OnItsWay
<1> QED BY <1>2, <1>3, <1>4 DEF IInv

LEMMA NotifyStep ==
  ASSUME IInv, Notify
  PROVE  IInv'
<1>1. /\ UNCHANGED <<version, client>> /\ stream' = Broadcast("invalidated")
      /\ listener' \in ListenerRow /\ Up' /\ "invalidated" \in Signals
      /\ "invalidated" \in News
  BY DEF Notify, ListenerStep, IInv, Shape, ListenerRow, Up, Signals, News
<1>2. /\ Shape' /\ Slots' /\ Following' /\ Dropped'
      /\ Hopeful => OnStream(News)'
  BY <1>1, BroadcastIs
<1>3. Warned'
  BY <1>1 DEF Warned
<1>4. Current'
  BY <1>1, <1>2 DEF Current, Hopeful, ShownCurrent, ReadCurrent, OnItsWay
<1> QED BY <1>2, <1>3, <1>4 DEF IInv

-----------------------------------------------------------------------------
(* Changes in the database *)

LEMMA AnnouncedIs ==
  ASSUME NEW l \in ListenerRow
  PROVE  LET m == Announced(l) IN
           /\ m \in ListenerRow /\ m.phase = l.phase /\ m.broken = l.broken
           /\ l.pending => m.pending
           /\ Up => m.broken \/ m.pending
BY DEF Announced, ListenerRow

LEMMA ChangeStep ==
  ASSUME IInv, Change
  PROVE  IInv'
<1>1. UNCHANGED <<client, stream>> /\ listener' = Announced(listener) /\ listener \in ListenerRow
  BY DEF Change, IInv, Shape
<1>2. /\ listener' \in ListenerRow /\ listener'.phase = listener.phase
      /\ Up => listener'.broken \/ listener'.pending
  BY <1>1, AnnouncedIs
<1>3. version' \in [number : Nat, revoked : BOOLEAN]
  <2> DEFINE next == version.number + 1
  <2>1. next \in Nat
    BY DEF IInv, Shape
  <2>2. version' = [version EXCEPT !.number = next]
    BY DEF Change
  <2> HIDE DEF next
  <2> QED BY <2>1, <2>2 DEF IInv, Shape
<1>4. \A K : OnStream(K) => OnStream(K)'
  BY <1>1 DEF OnStream
<1>5. (Up' <=> Up) /\ (Up => Unnoticed')
  BY <1>2 DEF Up, Unnoticed
<1>6. Shape' /\ Slots' /\ Following' /\ Dropped'
  BY <1>1, <1>2, <1>3 DEF IInv, Shape, Slots, Following, Dropped, Hopeful
<1>7. Warned'
  BY <1>1, <1>4, <1>5 DEF IInv, Warned, AllCorrected, Hopeful
<1>8. Hopeful => OnItsWay'
  BY <1>4, <1>5, BadIsNews DEF IInv, Warned, OnItsWay
<1>9. Current'
  BY <1>1, <1>8 DEF Current, Hopeful, ShownCurrent, ReadCurrent
<1> QED BY <1>6, <1>7, <1>9 DEF IInv

LEMMA RevokeStep ==
  ASSUME IInv, Revoke
  PROVE  IInv'
<1>1. UNCHANGED <<client, stream>> /\ listener' = Announced(listener) /\ listener \in ListenerRow
  BY DEF Revoke, IInv, Shape
<1>2. /\ listener' \in ListenerRow /\ listener'.phase = listener.phase
      /\ listener'.broken = listener.broken /\ (listener.pending => listener'.pending)
  BY <1>1, AnnouncedIs
<1>3. version' \in [number : Nat, revoked : BOOLEAN] /\ version'.number = version.number
  BY DEF Revoke, IInv, Shape
<1>4. \A K : OnStream(K) => OnStream(K)'
  BY <1>1 DEF OnStream
<1>5. (Up' <=> Up) /\ (Unnoticed => Unnoticed')
  BY <1>2 DEF Up, Unnoticed
<1>6. Shape' /\ Slots' /\ Following' /\ Dropped'
  BY <1>1, <1>2, <1>3 DEF IInv, Shape, Slots, Following, Dropped, Hopeful
<1>7. Warned'
  BY <1>1, <1>4, <1>5 DEF IInv, Warned, AllCorrected, Hopeful
<1>8. Current'
  BY <1>1, <1>3, <1>4, <1>5 DEF IInv, Current, Hopeful, ShownCurrent, ReadCurrent, OnItsWay
<1> QED BY <1>6, <1>7, <1>8 DEF IInv

-----------------------------------------------------------------------------
LEMMA InitIInv ==
  ASSUME Init
  PROVE  IInv
<1>1. NewStream \in StreamRow /\ Consistent(NewStream) /\ NewStream.queue = <<>>
  <2>0. <<>> \in Seq(Signals)
    OBVIOUS
  <2> PICK empty \in Seq(Signals) : empty = <<>>
    BY <2>0, Zenon
  <2>1. NewStream = [phase |-> "new", subscribed |-> FALSE, dead |-> FALSE,
                     closed |-> FALSE, unchecked |-> FALSE, queue |-> empty]
    BY DEF NewStream
  <2>2. NewStream \in StreamRow /\ NewStream.queue = empty /\ ~NewStream.subscribed
        /\ NewStream.phase = "new"
    BY <2>1 DEF StreamRow
  <2> QED BY <2>2 DEF Consistent
<1>2. stream \in [Streams -> StreamRow] /\ \A s \in Streams : stream[s] = NewStream
  BY <1>1 DEF Init
<1>3. version \in [number : Nat, revoked : BOOLEAN] /\ listener \in ListenerRow
  BY DEF Init, ListenerRow
<1>4. /\ client \in ClientRow /\ client.source = None /\ client.phase = "disconnected"
      /\ client.shown = 0
  <2> PICK zero \in Nat : zero = 0
    OBVIOUS
  <2>1. client = [shown |-> zero, online |-> FALSE, net |-> TRUE,
                  phase |-> "disconnected", needsPair |-> FALSE, source |-> None,
                  request |-> "sent", seen |-> zero, fresh |-> TRUE, valid |-> TRUE,
                  again |-> FALSE]
    BY DEF Init
  <2>2. client \in ClientRow /\ client.source = None /\ client.phase = "disconnected"
        /\ client.shown = zero
    BY <2>1 DEF ClientRow
  <2> QED BY <2>2
<1>5. Slots
  BY <1>1, <1>2, <1>4, NoSource DEF Slots
<1>6. AllCorrected
  BY <1>1, <1>2, EmptyCorrected DEF AllCorrected
<1>7. ~Hopeful /\ Dropped
  BY <1>4, NoSource DEF Hopeful, Dropped
<1> QED BY <1>2, <1>3, <1>4, <1>5, <1>6, <1>7
        DEF IInv, Shape, Following, Warned, Current

LEMMA NextIInv ==
  ASSUME IInv, [Next]_vars
  PROVE  IInv'
<1>1. CASE ClientNext
  BY <1>1, PollStep, ReadProjectionStep, ReceiveStep, ReceiveDeniedStep, RequestFailsStep,
     GoOfflineStep, GoOnlineStep, CacheExpiresStep, OpenSourceStep, DeliverStep,
     StreamErrorStep
  DEF ClientNext
<1>2. CASE ApiNext
  <2>1. ASSUME NEW s \in Streams, RefuseStream(s) \/ FailStream(s)
        PROVE  IInv'
    BY <2>1, RefusalStep DEF RefuseStream, FailStream
  <2> QED BY <1>2, <2>1, SubscribeStep, CloseStep, DropStep, RevalidateStep,
             RevalidateFailsStep, ListenStep, ListenerUpStep, ConnectFailsStep, BreakStep,
             ListenerFailedStep, ReconnectStep, NotifyStep
          DEF ApiNext
<1>3. CASE UNCHANGED vars
  BY <1>3, ListenerOnly DEF vars, IInv, Shape, Up, Unnoticed
<1> QED BY <1>1, <1>2, <1>3, ChangeStep, RevokeStep DEF Next

(***************************************************************************)
(* What a screen shows is true: a live display that shows an old           *)
(* projection will hear of it, a display is only live while the API has    *)
(* its listener or the news of its loss is under way, and a display that   *)
(* dropped its credential shows nothing (display.tsx, stream-health.ts,    *)
(* projection-events.ts).  For every limit of streams, number of changes,  *)
(* of faults and of signals under way.                                     *)
(***************************************************************************)
THEOREM ScreenTruthfulHolds == Spec => []ScreenTruthful
<1>1. IInv => ScreenTruthful
  <2> SUFFICES ASSUME IInv PROVE ScreenTruthful
    OBVIOUS
  <2>1. LiveIsCurrent
    BY DEF IInv, Current, Hopeful, ShownCurrent, LiveIsCurrent, IsLive, OnItsWay,
           Unnoticed, News
  <2>2. LiveIsTruthful
    BY DEF IInv, Warned, Hopeful, LiveIsTruthful, Bad
  <2> QED BY <2>1, <2>2 DEF IInv, Dropped, ScreenTruthful
<1> QED BY <1>1, InitIInv, NextIInv, PTL DEF Spec

=============================================================================
