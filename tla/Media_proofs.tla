---------------------------- MODULE Media_proofs ----------------------------
(***************************************************************************)
(* Proofs about Media, for any users, sources they may send and bound on   *)
(* the requests under way.                                                 *)
(***************************************************************************)
EXTENDS Media, TLAPS

USE SendsAssumption, BoundAssumption

(* The types, without the channel's.                                       *)
Shapes ==
    /\ type \in Types
    /\ isEnded \in BOOLEAN /\ screenShareEnabled \in BOOLEAN
    /\ activePresenterId \in Users \cup {NoUser}
    /\ seated \in [Users -> BOOLEAN] /\ transports \in [Users -> BOOLEAN]
    /\ producers \in [Users -> [Sources -> {"none", "on", "paused"}]]
    /\ stopped \in [Users -> Nat] /\ deadProducers \in [Users -> SUBSET Sources]
    /\ orphaned \in BOOLEAN
    /\ consumers \in [Users -> SUBSET Producers] /\ known \in [Users -> SUBSET Producers]
    /\ audioMuted \in [Users -> BOOLEAN] /\ videoEnabled \in [Users -> BOOLEAN]
    /\ presenting \in [Users -> BOOLEAN]

(* A user without a seat has nothing in the meeting.                       *)
Vacated ==
    \A u \in Users : ~seated[u] =>
        /\ ~transports[u] /\ consumers[u] = {} /\ stopped[u] = 0 /\ deadProducers[u] = {}
        /\ \A s \in Sources : producers[u][s] = "none"
        /\ audioMuted[u] /\ ~videoEnabled[u] /\ ~presenting[u]

Core == Shapes /\ Vacated

(* A request whose caller has not lost its seat is of a seated user, and   *)
(* is about something.                                                     *)
Entry(r, seats) ==
    /\ r \in Requests
    /\ r.kind = "createTransport" => r.of = {}
    /\ r.kind # "producerclose" =>
          /\ r.seat \notin {"gone", "closed"} => seats[r.user]
          /\ r.kind # "createTransport" => r.of # {} /\ r.seat # "closed"

Tagged(ch, seats) == ch \in Seq(Requests) /\ \A i \in 1..Len(ch) : Entry(ch[i], seats)

(* A consumer, and a creation of one under way, is of a live producer, or  *)
(* the notice that it closed comes after.                                  *)
Coming(ch, p, k) ==
    \E j \in 1..Len(ch) : j > k /\ ch[j].kind = "producerclose" /\ p \in ch[j].of

Tiles(ch, cons, live) ==
    /\ \A v \in Users : \A p \in cons[v] : p \in live \/ Coming(ch, p, 0)
    /\ \A i \in 1..Len(ch) : ch[i].kind = "consume" =>
          \A p \in ch[i].of : p \in live \/ Coming(ch, p, i)

Live == {p \in Producers : producers[p[1]][p[2]] # "none"}

MediaInv == Core /\ Tagged(channel, seated) /\ Tiles(channel, consumers, Live)

----------------------------------------------------------------------------
(* Facts about the channel.                                                *)

LEMMA RequestType ==
    ASSUME NEW kind \in Kinds, NEW u \in Users, NEW p \in Producers
    PROVE  /\ Request(kind, u, p) \in Requests
           /\ Request(kind, u, p).kind = kind /\ Request(kind, u, p).user = u
           /\ Request(kind, u, p).of = {p} /\ Request(kind, u, p).seat = "current"
  BY DEF Request, Requests

LEMMA EntryAbout ==
    ASSUME NEW kind \in Kinds \ {"createTransport"}, NEW u \in Users, NEW sent \in Sources,
           NEW seats, seats[u]
    PROVE  /\ Entry(Request(kind, u, <<u, sent>>), seats)
           /\ Request(kind, u, <<u, sent>>).kind = kind
  <1> DEFINE p == <<u, sent>>
  <1>1. p \in Producers
    BY DEF Producers
  <1> HIDE DEF p
  <1> DEFINE r == Request(kind, u, p)
  <1>2. r \in Requests /\ r.kind = kind /\ r.user = u /\ r.of = {p} /\ r.seat = "current"
    BY <1>1, RequestType
  <1> HIDE DEF r
  <1>3. Entry(r, seats) /\ r.kind = kind
    BY <1>2 DEF Entry
  <1> QED BY <1>3 DEF p, r

LEMMA TaggedAppend ==
    ASSUME NEW ch, NEW seats, Tagged(ch, seats), NEW r, Entry(r, seats)
    PROVE  Tagged(Append(ch, r), seats)
  <1> DEFINE c == Append(ch, r)
  <1>1. ch \in Seq(Requests) /\ r \in Requests
    BY DEF Tagged, Entry
  <1>2. /\ c \in Seq(Requests) /\ Len(ch) \in Nat /\ Len(c) = Len(ch) + 1 /\ c[Len(ch) + 1] = r
        /\ \A i \in 1..Len(ch) : c[i] = ch[i]
    BY <1>1
  <1> HIDE DEF c
  <1>3. \A i \in 1..Len(c) : i \in 1..Len(ch) \/ i = Len(ch) + 1
    BY <1>2
  <1>4. \A i \in 1..Len(c) : Entry(c[i], seats)
    BY <1>2, <1>3 DEF Tagged
  <1> QED BY <1>2, <1>4 DEF Tagged, c

LEMMA TaggedHead ==
    ASSUME NEW ch, NEW seats, Tagged(ch, seats), ch # <<>>
    PROVE  Entry(Head(ch), seats) /\ Tagged(Tail(ch), seats)
  <1> DEFINE t == Tail(ch)
  <1>1. ch \in Seq(Requests)
    BY DEF Tagged
  <1>2. /\ t \in Seq(Requests) /\ Len(ch) \in Nat /\ Len(ch) >= 1 /\ Len(t) = Len(ch) - 1
        /\ \A i \in 1..Len(t) : t[i] = ch[i + 1]
        /\ Head(ch) = ch[1]
    BY <1>1
  <1> HIDE DEF t
  <1>3. \A i \in 1..Len(t) : i + 1 \in 1..Len(ch)
    BY <1>2
  <1>4. Entry(ch[1], seats)
    BY <1>2 DEF Tagged
  <1>5. \A i \in 1..Len(t) : Entry(t[i], seats)
    BY <1>2, <1>3 DEF Tagged
  <1> QED BY <1>2, <1>4, <1>5 DEF Tagged, t

(* Seats only matter to entries by the users that have one.                *)
LEMMA TaggedSeats ==
    ASSUME NEW ch, NEW seats, NEW others, Tagged(ch, seats),
           \A u \in Users : seats[u] => others[u]
    PROVE  Tagged(ch, others)
  <1>1. \A r : Entry(r, seats) => Entry(r, others)
    BY DEF Entry, Requests
  <1> QED BY <1>1 DEF Tagged

LEMMA NotifiedIs ==
    ASSUME NEW ch \in Seq(Requests), NEW P \in SUBSET Producers
    PROVE  /\ Watched(P) \subseteq P
           /\ Watched(P) = {} => Notified(ch, P) = ch
           /\ Watched(P) # {} => \E r \in Requests :
                 /\ r.kind = "producerclose" /\ r.of = Watched(P)
                 /\ Notified(ch, P) = Append(ch, r)
  <1>1. Watched(P) \subseteq P
    BY DEF Watched
  <1>2. ASSUME Watched(P) # {}
        PROVE  \E r \in Requests : /\ r.kind = "producerclose" /\ r.of = Watched(P)
                                   /\ Notified(ch, P) = Append(ch, r)
    <2> DEFINE r == [kind |-> "producerclose", user |-> CHOOSE u \in Users : TRUE,
                     of |-> Watched(P), seat |-> "current"]
    <2>1. \E u \in Users : TRUE
      BY <1>1, <1>2 DEF Producers
    <2>2. (CHOOSE u \in Users : TRUE) \in Users
      BY <2>1
    <2>3. r \in Requests
      BY <1>1, <2>2 DEF Requests, Kinds
    <2>4. Notified(ch, P) = Append(ch, r)
      BY <1>2 DEF Notified
    <2>5. r.kind = "producerclose" /\ r.of = Watched(P)
      OBVIOUS
    <2> HIDE DEF r
    <2> QED BY <2>3, <2>4, <2>5
  <1>3. Watched(P) = {} => Notified(ch, P) = ch
    BY DEF Notified
  <1> QED BY <1>1, <1>2, <1>3

LEMMA TaggedNotified ==
    ASSUME NEW ch, NEW seats, Tagged(ch, seats), NEW P \in SUBSET Producers
    PROVE  Tagged(Notified(ch, P), seats)
  <1>1. ch \in Seq(Requests)
    BY DEF Tagged
  <1>2. CASE Watched(P) = {}
    BY <1>1, <1>2, NotifiedIs
  <1>3. CASE Watched(P) # {}
    <2>1. PICK r \in Requests : r.kind = "producerclose" /\ Notified(ch, P) = Append(ch, r)
      BY <1>1, <1>3, NotifiedIs
    <2>2. Entry(r, seats)
      BY <2>1 DEF Entry
    <2> QED BY <2>1, <2>2, TaggedAppend
  <1> QED BY <1>2, <1>3

LEMMA TilesAppend ==
    ASSUME NEW ch \in Seq(Requests), NEW r \in Requests, NEW cons, NEW live, Tiles(ch, cons, live),
           r.kind = "consume" => r.of \subseteq live
    PROVE  Tiles(Append(ch, r), cons, live)
  <1> DEFINE c == Append(ch, r)
  <1>1. /\ Len(ch) \in Nat /\ Len(c) = Len(ch) + 1 /\ c[Len(ch) + 1] = r
        /\ \A i \in 1..Len(ch) : c[i] = ch[i]
    OBVIOUS
  <1> HIDE DEF c
  <1>2. \A i \in 1..Len(c) : i \in 1..Len(ch) \/ c[i] = r
    BY <1>1
  <1>3. \A i \in 1..Len(ch) : i \in 1..Len(c)
    BY <1>1
  <1>4. \A q, k : Coming(ch, q, k) => Coming(c, q, k)
    BY <1>1, <1>3 DEF Coming
  <1>5. \A v \in Users : \A q \in cons[v] : q \in live \/ Coming(c, q, 0)
    BY <1>4 DEF Tiles
  <1>6. ASSUME NEW i \in 1..Len(c), c[i].kind = "consume", NEW q \in c[i].of
        PROVE  q \in live \/ Coming(c, q, i)
    <2>1. CASE i \in 1..Len(ch)
      BY <1>1, <1>4, <1>6, <2>1 DEF Tiles
    <2>2. CASE c[i] = r
      BY <1>6, <2>2
    <2> QED BY <1>2, <2>1, <2>2
  <1> QED BY <1>5, <1>6 DEF Tiles, c

LEMMA TilesTail ==
    ASSUME NEW ch \in Seq(Requests), ch # <<>>, NEW cons, NEW live, Tiles(ch, cons, live),
           NEW left,
           \A v \in Users : \A q \in left[v] :
              q \in cons[v] \/ (Head(ch).kind = "consume" /\ q \in Head(ch).of),
           Head(ch).kind = "producerclose" => \A v \in Users : \A q \in left[v] : q \notin Head(ch).of
    PROVE  Tiles(Tail(ch), left, live)
  <1> DEFINE t == Tail(ch)
             h == Head(ch)
  <1>1. /\ Len(ch) \in Nat /\ Len(ch) >= 1 /\ Len(t) = Len(ch) - 1
        /\ \A i \in 1..Len(t) : t[i] = ch[i + 1]
        /\ h = ch[1]
    OBVIOUS
  <1>2. /\ \A v \in Users : \A q \in left[v] : q \in cons[v] \/ (h.kind = "consume" /\ q \in h.of)
        /\ h.kind = "producerclose" => \A v \in Users : \A q \in left[v] : q \notin h.of
    OBVIOUS
  <1> HIDE DEF t, h
  <1>3. ASSUME NEW q, NEW k \in Nat, Coming(ch, q, k + 1)
        PROVE  Coming(t, q, k)
    <2>1. PICK j \in 1..Len(ch) : j > k + 1 /\ ch[j].kind = "producerclose" /\ q \in ch[j].of
      BY <1>3 DEF Coming
    <2>2. j - 1 \in 1..Len(t) /\ j - 1 > k /\ t[j - 1] = ch[j]
      BY <1>1, <2>1
    <2> QED BY <2>1, <2>2 DEF Coming
  <1>4. ASSUME NEW q, Coming(ch, q, 0)
        PROVE  (h.kind = "producerclose" /\ q \in h.of) \/ Coming(ch, q, 0 + 1)
    <2>1. PICK j \in 1..Len(ch) : ch[j].kind = "producerclose" /\ q \in ch[j].of
      BY <1>4 DEF Coming
    <2>2. CASE j = 1
      BY <1>1, <2>1, <2>2
    <2>3. CASE j # 1
      <3>1. j > 0 + 1
        BY <1>1, <2>3
      <3> QED BY <2>1, <3>1 DEF Coming
    <2> QED BY <2>2, <2>3
  <1>5. ASSUME NEW v \in Users, NEW q \in left[v]
        PROVE  q \in live \/ Coming(t, q, 0)
    <2>1. CASE q \in cons[v]
      <3>1. q \in live \/ Coming(ch, q, 0)
        BY <2>1 DEF Tiles
      <3>2. ~(h.kind = "producerclose" /\ q \in h.of)
        BY <1>2
      <3> QED BY <1>3, <1>4, <3>1, <3>2
    <2>2. CASE h.kind = "consume" /\ q \in h.of
      <3>1. q \in live \/ Coming(ch, q, 1)
        BY <1>1, <2>2 DEF Tiles
      <3> QED BY <1>3, <3>1
    <2> QED BY <1>2, <2>1, <2>2
  <1>6. ASSUME NEW i \in 1..Len(t), t[i].kind = "consume", NEW q \in t[i].of
        PROVE  q \in live \/ Coming(t, q, i)
    <2>1. i + 1 \in 1..Len(ch) /\ t[i] = ch[i + 1] /\ i \in Nat
      BY <1>1
    <2>2. q \in live \/ Coming(ch, q, i + 1)
      BY <1>6, <2>1 DEF Tiles
    <2> QED BY <1>3, <2>1, <2>2
  <1> QED BY <1>5, <1>6 DEF Tiles, t

LEMMA TilesLive ==
    ASSUME NEW ch, NEW cons, NEW live, NEW more, Tiles(ch, cons, live), live \subseteq more
    PROVE  Tiles(ch, cons, more)
  BY DEF Tiles

(* Producers in P close: who watches one of them is notified.              *)
LEMMA TilesNotified ==
    ASSUME channel \in Seq(Requests), Tiles(channel, consumers, Live),
           NEW ch \in Seq(Requests), Len(ch) = Len(channel),
           \A i \in 1..Len(ch) : ch[i].kind = channel[i].kind /\ ch[i].of = channel[i].of,
           NEW left, \A v \in Users : left[v] \subseteq consumers[v],
           NEW P \in SUBSET Producers, NEW remaining, Live \subseteq remaining \cup P
    PROVE  Tiles(Notified(ch, P), left, remaining)
  <1> DEFINE c == Notified(ch, P)
  <1>1. \/ c = ch /\ Watched(P) = {}
        \/ \E r \in Requests : /\ r.kind = "producerclose" /\ r.of = Watched(P)
                               /\ c = Append(ch, r)
    BY NotifiedIs
  <1>2. /\ Len(ch) \in Nat /\ Len(c) \in Nat /\ Len(c) >= Len(ch)
        /\ \A i \in 1..Len(ch) : c[i] = ch[i]
        /\ \A i \in 1..Len(c) : i \in 1..Len(ch) \/ c[i].kind = "producerclose"
        /\ Watched(P) # {} => \E j \in 1..Len(c) : /\ j > Len(ch) /\ c[j].kind = "producerclose"
                                                   /\ c[j].of = Watched(P)
    <2>1. CASE c = ch /\ Watched(P) = {}
      BY <2>1
    <2>2. CASE \E r \in Requests : /\ r.kind = "producerclose" /\ r.of = Watched(P)
                                   /\ c = Append(ch, r)
      <3>1. PICK r \in Requests : /\ r.kind = "producerclose" /\ r.of = Watched(P)
                                  /\ c = Append(ch, r)
        BY <2>2
      <3>2. /\ Len(ch) \in Nat /\ Len(c) = Len(ch) + 1 /\ c[Len(ch) + 1] = r
            /\ \A i \in 1..Len(ch) : c[i] = ch[i]
        BY <3>1
      <3> HIDE DEF c
      <3>3. Len(ch) + 1 \in 1..Len(c) /\ Len(ch) + 1 > Len(ch)
        BY <3>2
      <3>4. \A i \in 1..Len(c) : i \in 1..Len(ch) \/ i = Len(ch) + 1
        BY <3>2
      <3> QED BY <3>1, <3>2, <3>3, <3>4
    <2> QED BY <1>1, <2>1, <2>2
  <1> HIDE DEF c
  <1>3. ASSUME NEW q, NEW k, Coming(channel, q, k)
        PROVE  Coming(c, q, k)
    <2>1. PICK j \in 1..Len(channel) : /\ j > k /\ channel[j].kind = "producerclose"
                                       /\ q \in channel[j].of
      BY <1>3 DEF Coming
    <2>2. j \in 1..Len(c) /\ c[j] = ch[j] /\ j \in 1..Len(ch)
      BY <1>2, <2>1
    <2> QED BY <2>1, <2>2 DEF Coming
  <1>4. ASSUME NEW q \in Watched(P), NEW k \in 0..Len(ch)
        PROVE  Coming(c, q, k)
    <2>1. PICK j \in 1..Len(c) : j > Len(ch) /\ c[j].kind = "producerclose" /\ c[j].of = Watched(P)
      BY <1>2, <1>4
    <2>2. j > k
      BY <1>2, <2>1
    <2> QED BY <1>4, <2>1, <2>2 DEF Coming
  <1>5. ASSUME NEW v \in Users, NEW q \in left[v]
        PROVE  q \in remaining \/ Coming(c, q, 0)
    <2>1. q \in consumers[v]
      OBVIOUS
    <2>2. CASE q \in P
      <3>1. q \in Watched(P) /\ 0 \in 0..Len(ch)
        BY <1>2, <2>1, <2>2 DEF Watched
      <3> QED BY <1>4, <3>1
    <2>3. CASE q \notin P
      <3>1. q \in Live \/ Coming(channel, q, 0)
        BY <2>1 DEF Tiles
      <3> QED BY <1>3, <2>3, <3>1
    <2> QED BY <2>2, <2>3
  <1>6. ASSUME NEW i \in 1..Len(c), c[i].kind = "consume", NEW q \in c[i].of
        PROVE  q \in remaining \/ Coming(c, q, i)
    <2>1. /\ i \in 1..Len(ch) /\ i \in 1..Len(channel) /\ i \in 0..Len(ch)
          /\ channel[i].kind = "consume" /\ q \in channel[i].of
      BY <1>2, <1>6
    <2>2. CASE q \in P
      <3>1. q \in Watched(P)
        BY <2>1, <2>2 DEF Watched
      <3> QED BY <1>4, <2>1, <3>1
    <2>3. CASE q \notin P
      <3>1. q \in Live \/ Coming(channel, q, i)
        BY <2>1 DEF Tiles
      <3> QED BY <1>3, <2>3, <3>1
    <2> QED BY <2>2, <2>3
  <1> QED BY <1>5, <1>6 DEF Tiles, c

----------------------------------------------------------------------------
(* What the parts of handlers do to the invariant.                         *)

LEMMA Assembled ==
    ASSUME NEW ch, NEW seats, NEW cons, NEW live, Core',
           channel' = ch, seated' = seats, consumers' = cons, Live' = live,
           Tagged(ch, seats), Tiles(ch, cons, live)
    PROVE  MediaInv'
  <1>1. channel' \in Seq(Requests) /\ \A i \in 1..Len(channel') : Entry(channel'[i], seated')
    BY DEF Tagged
  <1>2. Tagged(channel, seated)'
    BY <1>1 DEF Tagged, Entry
  <1>3. Tiles(channel, consumers, Live)'
    BY DEF Tiles, Coming
  <1> QED BY <1>2, <1>3 DEF MediaInv

LEMMA OneMoreRequest ==
    ASSUME MediaInv, NEW r, Entry(r, seated), r.kind = "consume" => r.of \subseteq Live,
           channel' = Append(channel, r), UNCHANGED <<seated, producers, consumers>>, Core'
    PROVE  MediaInv'
  <1>1. Tagged(Append(channel, r), seated)
    BY TaggedAppend DEF MediaInv
  <1>2. channel \in Seq(Requests) /\ r \in Requests
    BY DEF MediaInv, Tagged, Entry
  <1>3. Tiles(Append(channel, r), consumers, Live)
    BY <1>2, TilesAppend DEF MediaInv
  <1>4. Live' = Live
    BY DEF Live
  <1> QED BY <1>1, <1>3, <1>4, Assembled

LEMMA ChannelWaits ==
    ASSUME MediaInv, UNCHANGED <<channel, producers, consumers>>, Core',
           \A u \in Users : seated[u] => seated'[u]
    PROVE  MediaInv'
  <1>1. Live' = Live
    BY DEF Live
  <1> DEFINE seats == seated'
  <1>2. \A u \in Users : seated[u] => seats[u]
    OBVIOUS
  <1> HIDE DEF seats
  <1>3. Tagged(channel, seats)
    BY <1>2, TaggedSeats DEF MediaInv
  <1>4. Tiles(channel, consumers, Live)
    BY DEF MediaInv
  <1>5. seated' = seats
    BY DEF seats
  <1> QED BY <1>1, <1>3, <1>4, <1>5, Assembled

(* The worker's answer is handled, possibly with another request.          *)
LEMMA Answering ==
    ASSUME MediaInv, channel # <<>>, UNCHANGED seated, Live \subseteq Live', Core',
           \A v \in Users : \A q \in consumers'[v] :
              q \in consumers[v] \/ (Head(channel).kind = "consume" /\ q \in Head(channel).of),
           Head(channel).kind = "producerclose" =>
              \A v \in Users : \A q \in consumers'[v] : q \notin Head(channel).of,
           \/ channel' = Tail(channel)
           \/ \E r : Entry(r, seated) /\ r.kind # "consume" /\ channel' = Append(Tail(channel), r)
    PROVE  MediaInv'
  <1> DEFINE left == consumers'
             live == Live'
             t == Tail(channel)
  <1>1. channel \in Seq(Requests) /\ t \in Seq(Requests)
    BY DEF MediaInv, Tagged
  <1>2. Tagged(t, seated)
    BY TaggedHead DEF MediaInv
  <1>3. Tiles(t, left, Live)
    <2> HIDE DEF left
    <2>1. /\ \A v \in Users : \A q \in left[v] :
              q \in consumers[v] \/ (Head(channel).kind = "consume" /\ q \in Head(channel).of)
          /\ Head(channel).kind = "producerclose" =>
              \A v \in Users : \A q \in left[v] : q \notin Head(channel).of
      BY DEF left
    <2>2. Tiles(channel, consumers, Live)
      BY DEF MediaInv
    <2> QED BY <1>1, <2>1, <2>2, TilesTail
  <1>4. Live \subseteq live /\ live = Live' /\ left = consumers'
    OBVIOUS
  <1> HIDE DEF left, live
  <1>5. Tiles(t, left, live)
    BY <1>3, <1>4, TilesLive
  <1>6. CASE channel' = t
    BY <1>2, <1>4, <1>5, <1>6, Assembled
  <1>7. CASE \E r : Entry(r, seated) /\ r.kind # "consume" /\ channel' = Append(t, r)
    <2>1. PICK r : Entry(r, seated) /\ r.kind # "consume" /\ channel' = Append(t, r)
      BY <1>7
    <2>2. r \in Requests
      BY <2>1 DEF Entry
    <2> HIDE DEF t
    <2>3. Tagged(Append(t, r), seated)
      BY <1>2, <2>1, TaggedAppend
    <2>4. Tiles(Append(t, r), left, live)
      BY <1>1, <1>5, <2>1, <2>2, TilesAppend
    <2> QED BY <1>4, <2>1, <2>3, <2>4, Assembled
  <1> QED BY <1>6, <1>7

(* Producers close and who watches them is notified, after the requests    *)
(* under way lose the seat they came from.                                 *)
LEMMA Closing ==
    ASSUME MediaInv, Core', NEW ch, NEW seats, seated' = seats, Tagged(ch, seats),
           Len(ch) = Len(channel),
           \A i \in 1..Len(ch) : ch[i].kind = channel[i].kind /\ ch[i].of = channel[i].of,
           \A v \in Users : consumers'[v] \subseteq consumers[v],
           NEW P \in SUBSET Producers, Live \subseteq Live' \cup P,
           channel' = Notified(ch, P)
    PROVE  MediaInv'
  <1> DEFINE left == consumers'
             live == Live'
             c == Notified(ch, P)
  <1>1. channel \in Seq(Requests) /\ ch \in Seq(Requests) /\ Tiles(channel, consumers, Live)
    BY DEF MediaInv, Tagged
  <1>2. /\ \A v \in Users : left[v] \subseteq consumers[v]
        /\ Live \subseteq live \cup P
        /\ left = consumers' /\ live = Live' /\ c = channel'
    OBVIOUS
  <1> HIDE DEF left, live
  <1>3. Tagged(c, seats)
    BY TaggedNotified
  <1>4. Tiles(c, left, live)
    BY <1>1, <1>2, TilesNotified
  <1> QED BY <1>2, <1>3, <1>4, Assembled

LEMMA ClosingAll ==
    ASSUME MediaInv, Core', NEW U \in SUBSET Users, NEW seat \in {"rebound", "gone"},
           NEW closes \in BOOLEAN, CloseAllMedia(U, seat, closes),
           \A u \in Users : seated[u] /\ (seat = "rebound" \/ u \notin U) => seated'[u]
    PROVE  MediaInv'
  <1> DEFINE overtaken == [i \in 1..Len(channel) |-> Overtaken(channel[i], U, seat, closes)]
             P == UNION {LiveOf(u) : u \in U}
             seats == seated'
  <1>1. channel \in Seq(Requests) /\ Len(channel) \in Nat
        /\ \A i \in 1..Len(channel) : channel[i] \in Requests /\ Entry(channel[i], seated)
    BY DEF MediaInv, Tagged
  <1>2. channel' = Notified(overtaken, P)
    BY DEF CloseAllMedia
  <1>3. \A i \in 1..Len(channel) :
          /\ overtaken[i] \in Requests
          /\ overtaken[i].kind = channel[i].kind /\ overtaken[i].of = channel[i].of
          /\ overtaken[i].user = channel[i].user
          /\ \/ overtaken[i].seat = channel[i].seat
                /\ \/ channel[i].user \notin U
                   \/ channel[i].seat \in {"gone", "closed"} \/ channel[i].kind = "producerclose"
             \/ overtaken[i].seat = seat /\ channel[i].seat \notin {"gone", "closed"}
             \/ overtaken[i].seat = "closed" /\ channel[i].kind = "createTransport"
    BY <1>1 DEF Requests, Overtaken
  <1>4. overtaken \in Seq(Requests) /\ Len(overtaken) = Len(channel)
    BY <1>1, <1>3
  <1>5. \A u \in Users : seated[u] /\ (seat = "rebound" \/ u \notin U) => seats[u]
    OBVIOUS
  <1>6. seats = seated'
    OBVIOUS
  <1> HIDE DEF overtaken, seats
  <1>7. Tagged(overtaken, seats)
    <2> SUFFICES ASSUME NEW i \in 1..Len(channel) PROVE Entry(overtaken[i], seats)
      BY <1>4 DEF Tagged
    <2>1. Entry(channel[i], seated) /\ channel[i] \in Requests
      BY <1>1
    <2> QED BY <1>3, <1>5, <2>1 DEF Entry, Requests
  <1>8. P \in SUBSET Producers
    BY DEF LiveOf
  <1>9. \A v \in Users : consumers'[v] \subseteq consumers[v]
    BY DEF CloseAllMedia
  <1>10. Live \subseteq Live' \cup P
    <2> SUFFICES ASSUME NEW p \in Live, p \notin P PROVE p \in Live'
      OBVIOUS
    <2>1. p \in Producers /\ p[1] \in Users /\ p[2] \in Sources /\ producers[p[1]][p[2]] # "none"
      BY DEF Live, Producers
    <2>2. p[1] \notin U
      BY <2>1 DEF LiveOf
    <2>3. producers'[p[1]] = producers[p[1]]
      BY <2>1, <2>2 DEF CloseAllMedia, ClosedProducers
    <2> QED BY <2>1, <2>3 DEF Live
  <1> HIDE DEF P
  <1> QED BY <1>2, <1>3, <1>4, <1>6, <1>7, <1>8, <1>9, <1>10, Closing

----------------------------------------------------------------------------
(* The handlers.                                                           *)

USE DEF Core

LEMMA InvParts ==
    ASSUME MediaInv
    PROVE  /\ Core /\ channel \in Seq(Requests)
           /\ \A u \in Users, sent \in Sources : producers[u][sent] \in {"none", "on", "paused"}
  BY DEF MediaInv, Tagged, Shapes

LEMMA Joins ==
    ASSUME MediaInv, NEW u \in Users, JoinRoom(u)
    PROVE  MediaInv'
  <1>1. ListedFor(u) \in SUBSET Producers
    BY InvParts DEF ListedFor, ListedOf, LeftOf, LiveOf, Producers, Sources, Shapes
  <1>2. Shapes'
    BY <1>1, InvParts DEF JoinRoom, Shapes, meetingVars, mediaVars, flagVars
  <1>3. Vacated'
    BY InvParts DEF JoinRoom, Vacated, Shapes, mediaVars, flagVars
  <1>5. \A v \in Users : seated[v] => seated'[v]
    BY InvParts DEF JoinRoom, Shapes
  <1> QED BY <1>2, <1>3, <1>5, ChannelWaits DEF JoinRoom, mediaVars

LEMMA Rejoins ==
    ASSUME MediaInv, NEW u \in Users, Rejoin(u)
    PROVE  MediaInv'
  <1>1. ListedFor(u) \in SUBSET Producers
    BY InvParts DEF ListedFor, ListedOf, LeftOf, LiveOf, Producers, Sources, Shapes
  <1>2. /\ presenting' \in [Users -> BOOLEAN] /\ presenting'[u] = FALSE
        /\ \A v \in Users \ {u} : presenting'[v] = presenting[v]
        /\ activePresenterId' \in Users \cup {NoUser}
    BY InvParts DEF Rejoin, OnStopped, Shapes
  <1>3. Shapes'
    BY <1>1, <1>2, InvParts DEF Rejoin, CloseAllMedia, ClosedProducers, NoMedia, Shapes, meetingVars
  <1>4. Vacated'
    BY <1>2, InvParts DEF Rejoin, CloseAllMedia, ClosedProducers, NoMedia, Shapes, Vacated
  <1>6. \A v \in Users : seated[v] => seated'[v]
    BY DEF Rejoin
  <1>7. CloseAllMedia({u}, "rebound", FALSE)
    BY DEF Rejoin
  <1> QED BY <1>3, <1>4, <1>6, <1>7, ClosingAll

LEMMA Vacates ==
    ASSUME MediaInv, NEW U \in SUBSET Users, NEW closes \in BOOLEAN, Vacate(U, closes),
           type' \in Types, isEnded' \in BOOLEAN, screenShareEnabled' \in BOOLEAN,
           activePresenterId' \in Users \cup {NoUser}
    PROVE  MediaInv'
  <1>1. Shapes'
    BY InvParts DEF Vacate, CloseAllMedia, ClosedProducers, NoMedia, Shapes
  <1>2. Vacated'
    BY InvParts DEF Vacate, CloseAllMedia, ClosedProducers, NoMedia, Shapes, Vacated
  <1>3. CloseAllMedia(U, "gone", closes) /\ \A v \in Users : seated[v] /\ v \notin U => seated'[v]
    BY InvParts DEF Vacate, Shapes
  <1> QED BY <1>1, <1>2, <1>3, ClosingAll

LEMMA Leaves ==
    ASSUME MediaInv, \/ \E u \in Users : FinalizeLeave(u) \/ Kick(u)
                     \/ EndMeeting
    PROVE  MediaInv'
  <1>1. \E U \in SUBSET Users, closes \in BOOLEAN : Vacate(U, closes)
    BY DEF FinalizeLeave, Kick, EndMeeting
  <1>2. /\ type' \in Types /\ isEnded' \in BOOLEAN /\ screenShareEnabled' \in BOOLEAN
        /\ activePresenterId' \in Users \cup {NoUser}
    BY InvParts DEF FinalizeLeave, Kick, EndMeeting, Shapes, meetingVars
  <1> QED BY <1>1, <1>2, Vacates

(* Steps that only ask the worker for something, or change nothing here.   *)
LEMMA CoreWaits ==
    ASSUME MediaInv,
           UNCHANGED <<meetingVars, seated, mediaVars, known, presenting>>,
           activePresenterId' \in Users \cup {NoUser},
           audioMuted' \in [Users -> BOOLEAN], videoEnabled' \in [Users -> BOOLEAN],
           \A u \in Users : ~seated[u] =>
              audioMuted'[u] = audioMuted[u] /\ videoEnabled'[u] = videoEnabled[u]
    PROVE  Core'
  <1>1. Shapes'
    BY InvParts DEF Shapes, meetingVars, mediaVars
  <1>2. Vacated'
    BY InvParts DEF Vacated, mediaVars
  <1> QED BY <1>1, <1>2

LEMMA Streaming ==
    ASSUME MediaInv, NEW u \in Users, Streams(u)
    PROVE  MediaInv'
  <1>1. CASE CreateTransport(u)
    <2> DEFINE r == [kind |-> "createTransport", user |-> u, of |-> {}, seat |-> "current"]
    <2>1. r \in Requests /\ r.kind = "createTransport" /\ r.user = u /\ r.of = {}
      BY DEF Requests, Kinds
    <2>2. channel' = Append(channel, r) /\ seated[u]
      BY <1>1 DEF CreateTransport, Send
    <2> HIDE DEF r
    <2>3. Entry(r, seated)
      BY <2>1, <2>2 DEF Entry
    <2>4. Core'
      BY <1>1, InvParts, CoreWaits DEF CreateTransport, flagVars, Shapes
    <2> QED BY <1>1, <2>1, <2>2, <2>3, <2>4, OneMoreRequest DEF CreateTransport, mediaVars
  <1>2. ASSUME NEW s \in Sources, Produce(u, s)
        PROVE  MediaInv'
    <2> DEFINE r == Request("produce", u, <<u, s>>)
    <2>1. channel' = Append(channel, r) /\ seated[u] /\ "produce" \in Kinds
      BY <1>2 DEF Produce, Send, Kinds
    <2>2. Entry(r, seated) /\ r.kind = "produce"
      BY <2>1, EntryAbout
    <2> HIDE DEF r
    <2>3. Core'
      BY <1>2, InvParts, CoreWaits DEF Produce, flagVars, Shapes
    <2> QED BY <1>2, <2>1, <2>2, <2>3, OneMoreRequest DEF Produce, mediaVars
  <1>3. ASSUME NEW p \in Producers, Consume(u, p)
        PROVE  MediaInv'
    <2> DEFINE r == Request("consume", u, p)
    <2>1. r \in Requests /\ r.kind = "consume" /\ r.user = u /\ r.of = {p} /\ r.seat = "current"
      BY RequestType DEF Kinds
    <2>2. channel' = Append(channel, r) /\ seated[u] /\ p \in Live
      BY <1>3 DEF Consume, Send, Live, LiveOf
    <2> HIDE DEF r
    <2>3. Entry(r, seated) /\ r.of \subseteq Live
      BY <2>1, <2>2 DEF Entry
    <2>4. Core'
      BY <1>3, InvParts, CoreWaits DEF Consume, flagVars, Shapes
    <2> QED BY <1>3, <2>1, <2>2, <2>3, <2>4, OneMoreRequest DEF Consume, mediaVars
  <1> QED BY <1>1, <1>2, <1>3 DEF Streams

(* A state change applied at once, to a seated user.                       *)
LEMMA Changes ==
    ASSUME MediaInv, NEW u \in Users, NEW s, NEW paused \in BOOLEAN, seated[u],
           ApplyStateChange(u, s, paused)
    PROVE  /\ audioMuted' \in [Users -> BOOLEAN] /\ videoEnabled' \in [Users -> BOOLEAN]
           /\ \A v \in Users : ~seated[v] =>
                audioMuted'[v] = audioMuted[v] /\ videoEnabled'[v] = videoEnabled[v]
  BY InvParts DEF ApplyStateChange, Shapes

LEMMA Pausing ==
    ASSUME MediaInv, NEW u \in Users, NEW s \in Sources,
           PauseProducer(u, s) \/ ResumeProducer(u, s)
    PROVE  MediaInv'
  <1>1. Core'
    <2>1. \/ UNCHANGED <<audioMuted, videoEnabled>>
          \/ \E paused \in BOOLEAN : ApplyStateChange(u, s, paused)
      BY DEF PauseProducer, ResumeProducer
    <2>2. /\ audioMuted' \in [Users -> BOOLEAN] /\ videoEnabled' \in [Users -> BOOLEAN]
          /\ \A v \in Users : ~seated[v] =>
               audioMuted'[v] = audioMuted[v] /\ videoEnabled'[v] = videoEnabled[v]
      <3>1. CASE UNCHANGED <<audioMuted, videoEnabled>>
        BY <3>1, InvParts DEF Shapes
      <3>2. CASE \E paused \in BOOLEAN : ApplyStateChange(u, s, paused)
        BY <3>2, Changes DEF PauseProducer, ResumeProducer
      <3> QED BY <2>1, <3>1, <3>2
    <2> QED BY <2>2, InvParts, CoreWaits DEF PauseProducer, ResumeProducer, Shapes
  <1>2. UNCHANGED <<seated, producers, consumers>>
    BY DEF PauseProducer, ResumeProducer, mediaVars
  <1>3. \/ UNCHANGED channel
        \/ \E kind \in {"pause", "resume"} : channel' = Append(channel, Request(kind, u, <<u, s>>))
    BY DEF PauseProducer, ResumeProducer, Send
  <1>4. CASE UNCHANGED channel
    BY <1>1, <1>2, <1>4, ChannelWaits
  <1>5. ASSUME NEW kind \in {"pause", "resume"},
               channel' = Append(channel, Request(kind, u, <<u, s>>))
        PROVE  MediaInv'
    <2> DEFINE r == Request(kind, u, <<u, s>>)
    <2>1. kind \in Kinds /\ seated[u]
      BY DEF Kinds, PauseProducer, ResumeProducer
    <2>2. Entry(r, seated) /\ r.kind = kind
      BY <2>1, EntryAbout
    <2>3. r.kind # "consume"
      BY <2>2
    <2> HIDE DEF r
    <2> QED BY <1>1, <1>2, <1>5, <2>2, <2>3, OneMoreRequest DEF r
  <1> QED BY <1>3, <1>4, <1>5

(* One producer of u closes, or none.                                      *)
LEMMA ClosesOne ==
    ASSUME MediaInv, Core', NEW u \in Users, NEW s \in Sources, NEW P \in SUBSET {<<u, s>>},
           producers[u][s] # "none" => <<u, s>> \in P,
           \/ UNCHANGED producers
           \/ \E state : producers' = [producers EXCEPT ![u][s] = state],
           UNCHANGED <<seated, consumers>>, channel' = Notified(channel, P)
    PROVE  MediaInv'
  <1>1. P \in SUBSET Producers
    BY DEF Producers
  <1>2. Live \subseteq Live' \cup P
    <2> SUFFICES ASSUME NEW p \in Live, p # <<u, s>> PROVE p \in Live'
      BY DEF Live
    <2>1. p \in Producers /\ p[1] \in Users /\ p[2] \in Sources /\ p = <<p[1], p[2]>>
          /\ producers[p[1]][p[2]] # "none"
      BY DEF Live, Producers
    <2>2. producers'[p[1]][p[2]] = producers[p[1]][p[2]]
      BY <2>1, InvParts DEF Shapes
    <2> QED BY <2>1, <2>2 DEF Live
  <1>3. Tagged(channel, seated)
    BY DEF MediaInv
  <1> QED BY <1>1, <1>2, <1>3, Closing

LEMMA Stops ==
    ASSUME MediaInv, NEW u \in Users, OnStopped(u)
    PROVE  /\ presenting' \in [Users -> BOOLEAN] /\ ~presenting'[u]
           /\ \A v \in Users : presenting'[v] = presenting[v] \/ (v = u /\ ~presenting'[v])
           /\ activePresenterId' \in Users \cup {NoUser}
  BY InvParts DEF OnStopped, Shapes

(* u's screen closes and u no longer presents.                             *)
LEMMA ScreenOff ==
    ASSUME MediaInv, NEW u \in Users, OnStopped(u),
           producers' = [producers EXCEPT ![u]["screen"] = "none"],
           deadProducers' \in [Users -> SUBSET Sources], stopped' \in [Users -> Nat],
           \A v \in Users : ~seated[v] =>
              stopped'[v] \in {0, stopped[v]} /\ deadProducers'[v] \subseteq deadProducers[v],
           screenShareEnabled' \in BOOLEAN,
           UNCHANGED <<type, isEnded, seated, transports, orphaned, consumers, audioMuted,
                       videoEnabled, known>>,
           channel' = Notified(channel, LiveOf(u) \cap {<<u, "screen">>})
    PROVE  MediaInv'
  <1>1. "screen" \in Sources
    BY DEF Sources
  <1>2. /\ producers' \in [Users -> [Sources -> {"none", "on", "paused"}]]
        /\ producers'[u]["screen"] = "none"
        /\ \A v \in Users, s \in Sources : producers'[v][s] \in {producers[v][s], "none"}
    BY <1>1, InvParts DEF Shapes
  <1>3. Shapes'
    BY <1>2, Stops, InvParts DEF Shapes
  <1>4. Vacated'
    <2> SUFFICES ASSUME NEW v \in Users, ~seated[v]
                 PROVE  /\ ~transports[v] /\ consumers[v] = {} /\ stopped'[v] = 0
                        /\ deadProducers'[v] = {}
                        /\ \A s \in Sources : producers'[v][s] = "none"
                        /\ audioMuted[v] /\ ~videoEnabled[v] /\ ~presenting'[v]
      BY DEF Vacated
    <2>1. /\ ~transports[v] /\ consumers[v] = {} /\ stopped[v] = 0 /\ deadProducers[v] = {}
          /\ \A s \in Sources : producers[v][s] = "none"
          /\ audioMuted[v] /\ ~videoEnabled[v] /\ ~presenting[v]
      BY InvParts DEF Vacated
    <2> QED BY <1>2, <2>1, Stops
  <1> DEFINE P == LiveOf(u) \cap {<<u, "screen">>}
  <1>6. /\ P \in SUBSET {<<u, "screen">>}
        /\ producers[u]["screen"] # "none" => <<u, "screen">> \in P
    BY <1>1 DEF LiveOf, Producers
  <1>7. UNCHANGED <<seated, consumers>> /\ channel' = Notified(channel, P)
    OBVIOUS
  <1> HIDE DEF P
  <1> QED BY <1>1, <1>3, <1>4, <1>6, <1>7, ClosesOne

LEMMA ClosesProducer ==
    ASSUME MediaInv, NEW u \in Users, NEW s \in Sources, CloseProducer(u, s)
    PROVE  MediaInv'
  <1>1. /\ presenting' \in [Users -> BOOLEAN]
        /\ s = "screen" => ~presenting'[u]
        /\ \A v \in Users : presenting'[v] = presenting[v] \/ (v = u /\ ~presenting'[v])
        /\ s # "screen" => presenting' = presenting
        /\ activePresenterId' \in Users \cup {NoUser}
    <2>1. CASE s = "screen"
      BY <2>1, Stops DEF CloseProducer
    <2>2. CASE s # "screen"
      BY <2>2, InvParts DEF CloseProducer, Shapes
    <2> QED BY <2>1, <2>2
  <1>2. /\ audioMuted' \in [Users -> BOOLEAN] /\ videoEnabled' \in [Users -> BOOLEAN]
        /\ \A v \in Users : ~seated[v] =>
             audioMuted'[v] = audioMuted[v] /\ videoEnabled'[v] = videoEnabled[v]
    BY Changes DEF CloseProducer
  <1>3. Shapes'
    BY <1>1, <1>2, InvParts DEF CloseProducer, Shapes, meetingVars
  <1>4. Vacated'
    BY <1>1, <1>2, InvParts DEF CloseProducer, Shapes, Vacated
  <1>6. UNCHANGED <<seated, consumers>> /\ channel' = Notified(channel, {<<u, s>>})
        /\ producers' = [producers EXCEPT ![u][s] = "none"]
    BY DEF CloseProducer
  <1> QED BY <1>3, <1>4, <1>6, ClosesOne

LEMMA StopsScreen ==
    ASSUME MediaInv, NEW u \in Users, StopScreenShare(u)
    PROVE  MediaInv'
  <1>1. /\ deadProducers' \in [Users -> SUBSET Sources] /\ stopped' \in [Users -> Nat]
        /\ \A v \in Users :
             stopped'[v] \in {0, stopped[v]} /\ deadProducers'[v] \subseteq deadProducers[v]
        /\ screenShareEnabled' \in BOOLEAN
    BY InvParts DEF StopScreenShare, Shapes, meetingVars
  <1> QED BY <1>1, ScreenOff DEF StopScreenShare, meetingVars

(* The entry of a stopped screen goes, and the flag and the slot with it.  *)
LEMMA ClosesStopped ==
    ASSUME MediaInv, NEW u \in Users, CloseStopped(u)
    PROVE  MediaInv'
  <1>1. /\ stopped' \in [Users -> Nat]
        /\ \A v \in Users : ~seated[v] => stopped'[v] = stopped[v]
    BY InvParts DEF CloseStopped, Shapes
  <1>2. known' \in [Users -> SUBSET Producers]
    BY InvParts DEF CloseStopped, Shapes
  <1>3. Shapes'
    BY <1>1, <1>2, Stops, InvParts DEF CloseStopped, Shapes, meetingVars
  <1>4. Vacated'
    BY <1>1, Stops, InvParts DEF CloseStopped, Vacated
  <1> QED BY <1>3, <1>4, ChannelWaits DEF CloseStopped

LEMMA ControlsStopped ==
    ASSUME MediaInv, NEW u \in Users, ControlStopped(u)
    PROVE  MediaInv'
  <1>1. UNCHANGED vars
    BY DEF ControlStopped
  <1>2. Shapes' /\ Vacated'
    BY <1>1, InvParts DEF vars, Shapes, Vacated, meetingVars, mediaVars, flagVars
  <1> QED BY <1>1, <1>2, ChannelWaits DEF vars, mediaVars

LEMMA StartsScreen ==
    ASSUME MediaInv, NEW u \in Users, StartScreenShare(u)
    PROVE  MediaInv'
  <1>1. Core'
    BY InvParts, CoreWaits DEF StartScreenShare, flagVars, Shapes
  <1> QED BY <1>1, ChannelWaits DEF StartScreenShare, mediaVars

LEMMA Controlling ==
    ASSUME MediaInv, NEW u \in Users, Controls(u)
    PROVE  MediaInv'
  BY Pausing, ClosesProducer, ClosesStopped, ControlsStopped, StopsScreen, StartsScreen DEF Controls

LEMMA Features ==
    ASSUME MediaInv, EnableScreenShare \/ DisableScreenShare
    PROVE  MediaInv'
  <1>1. CASE EnableScreenShare
    <2>1. Shapes' /\ Vacated'
      BY <1>1, InvParts DEF EnableScreenShare, Shapes, Vacated, mediaVars, flagVars
    <2> QED BY <1>1, <2>1, ChannelWaits DEF EnableScreenShare, mediaVars
  <1>2. CASE DisableScreenShare
    <2> DEFINE u == activePresenterId
               P == LiveOf(u) \cap {<<u, "screen">>}
    <2>1. CASE u = NoUser \/ ~seated[u]
      <3>1. UNCHANGED <<type, isEnded, seated, mediaVars, flagVars, known, channel>>
            /\ screenShareEnabled' = FALSE /\ activePresenterId' \in {activePresenterId, NoUser}
        BY <1>2, <2>1, InvParts DEF DisableScreenShare, mediaVars, flagVars
      <3>2. Shapes'
        BY <3>1, InvParts DEF Shapes, mediaVars, flagVars
      <3>3. Vacated'
        BY <3>1, InvParts DEF Vacated, mediaVars, flagVars
      <3> QED BY <3>1, <3>2, <3>3, ChannelWaits DEF mediaVars
    <2>2. CASE u # NoUser /\ seated[u]
      <3>1. u \in Users
        BY <2>2, InvParts DEF Shapes
      <3>2. /\ OnStopped(u) /\ channel' = Notified(channel, P)
            /\ producers' = [producers EXCEPT ![u]["screen"] = StoppedScreen(u)]
            /\ stopped' = [stopped EXCEPT ![u] =
                 IF producers[u]["screen"] # "none" THEN @ + 1 ELSE @]
            /\ screenShareEnabled' = FALSE
            /\ UNCHANGED <<type, isEnded, seated, transports, orphaned, deadProducers, consumers,
                           audioMuted, videoEnabled, known>>
        BY <1>2, <2>2 DEF DisableScreenShare
      <3>3. /\ deadProducers' \in [Users -> SUBSET Sources] /\ stopped' \in [Users -> Nat]
            /\ \A v \in Users : ~seated[v] =>
                 stopped'[v] \in {0, stopped[v]} /\ deadProducers'[v] \subseteq deadProducers[v]
        BY <2>2, <3>1, <3>2, InvParts DEF Shapes, Sources
      <3> QED BY <3>1, <3>2, <3>3, ScreenOff DEF StoppedScreen
    <2> QED BY <2>1, <2>2
  <1> QED BY <1>1, <1>2

LEMMA MuteLoops ==
    ASSUME MediaInv, NEW u \in Users, NEW mic, NEW rest, seated[u], MuteLoop(u, mic, rest)
    PROVE  /\ audioMuted' \in [Users -> BOOLEAN]
           /\ \A v \in Users : ~seated[v] => audioMuted'[v] = audioMuted[v]
           /\ \/ channel' = rest
              \/ \E r : Entry(r, seated) /\ r.kind # "consume" /\ channel' = Append(rest, r)
  <1>1. \/ UNCHANGED audioMuted
        \/ audioMuted' = [audioMuted EXCEPT ![u] = TRUE]
    BY DEF MuteLoop
  <1>2. \/ channel' = rest
        \/ channel' = Append(rest, Request("mute", u, <<u, "mic">>))
    BY DEF MuteLoop
  <1> DEFINE r == Request("mute", u, <<u, "mic">>)
  <1>3. "mute" \in Kinds /\ "mic" \in Sources
    BY DEF Kinds, Sources
  <1>4. Entry(r, seated) /\ r.kind = "mute"
    BY <1>3, EntryAbout
  <1>5. r.kind # "consume"
    BY <1>4
  <1> HIDE DEF r
  <1>6. \/ channel' = rest
        \/ \E q : Entry(q, seated) /\ q.kind # "consume" /\ channel' = Append(rest, q)
    BY <1>2, <1>4, <1>5 DEF r
  <1> QED BY <1>1, <1>6, InvParts DEF Shapes

LEMMA Mutes ==
    ASSUME MediaInv, NEW u \in Users, Mute(u)
    PROVE  MediaInv'
  <1>1. seated[u] /\ MuteLoop(u, producers[u]["mic"], channel)
    BY DEF Mute
  <1>2. Core'
    BY <1>1, MuteLoops, InvParts, CoreWaits DEF Mute, Shapes
  <1>3. UNCHANGED <<seated, producers, consumers>>
    BY DEF Mute, mediaVars
  <1>4. CASE channel' = channel
    BY <1>2, <1>3, <1>4, ChannelWaits
  <1>5. CASE \E r : Entry(r, seated) /\ r.kind # "consume" /\ channel' = Append(channel, r)
    BY <1>2, <1>3, <1>5, OneMoreRequest
  <1> QED BY <1>1, <1>4, <1>5, MuteLoops

----------------------------------------------------------------------------
(* The answers.                                                            *)

LEMMA HeadIs ==
    ASSUME MediaInv, channel # <<>>
    PROVE  /\ Asker \in Users /\ Head(channel).of \in SUBSET Producers
           /\ Head(channel).kind \notin {"producerclose", "createTransport"} => Seat # "closed"
           /\ Head(channel).kind # "producerclose" /\ Seat \notin {"gone", "closed"} => seated[Asker]
           /\ Head(channel).kind \notin {"producerclose", "createTransport"} => Subject[2] \in Sources
  <1>1. Entry(Head(channel), seated)
    BY TaggedHead DEF MediaInv
  <1>2. Head(channel).kind \notin {"producerclose", "createTransport"} => Subject \in Producers
    BY <1>1 DEF Entry, Requests, Subject
  <1> QED BY <1>1, <1>2 DEF Entry, Requests, Asker, Seat, Producers

(* An answer that closes no producer and adds no consumer.                 *)
LEMMA PlainAnswer ==
    ASSUME MediaInv, Core', channel # <<>>, Head(channel).kind \notin {"producerclose"},
           UNCHANGED <<seated, consumers>>,
           \A v \in Users, sent \in Sources :
              producers[v][sent] # "none" => producers'[v][sent] # "none",
           \/ channel' = Tail(channel)
           \/ \E r : Entry(r, seated) /\ r.kind # "consume" /\ channel' = Append(Tail(channel), r)
    PROVE  MediaInv'
  <1>1. Live \subseteq Live'
    BY DEF Live, Producers
  <1> QED BY <1>1, Answering

LEMMA Announces ==
    ASSUME MediaInv, NEW u \in Users, NEW sent \in Sources, Announce(u, sent)
    PROVE  known' \in [Users -> SUBSET Producers]
  BY InvParts DEF Announce, Shapes, Producers

LEMMA Refusals ==
    ASSUME MediaInv, Refused
    PROVE  MediaInv'
  <1>1. Core'
    BY InvParts, CoreWaits DEF Refused, flagVars, Shapes
  <1>2. /\ channel # <<>> /\ Head(channel).kind \notin {"producerclose"}
        /\ UNCHANGED <<seated, consumers, producers>> /\ channel' = Tail(channel)
    BY DEF Refused, Answered, mediaVars
  <1> QED BY <1>1, <1>2, PlainAnswer

LEMMA TransportAnswers ==
    ASSUME MediaInv, TransportCreated
    PROVE  MediaInv'
  <1>1. /\ channel # <<>> /\ Head(channel).kind = "createTransport"
        /\ UNCHANGED <<seated, consumers, producers>> /\ channel' = Tail(channel)
    BY DEF TransportCreated, Answers, Answered
  <1>2. /\ transports' \in [Users -> BOOLEAN] /\ orphaned' \in BOOLEAN
        /\ \A v \in Users : ~seated[v] => transports'[v] = transports[v]
    BY <1>1, HeadIs, InvParts DEF TransportCreated, Shapes
  <1>3. Shapes'
    BY <1>2, InvParts DEF TransportCreated, Shapes, meetingVars, flagVars
  <1>4. Vacated'
    BY <1>2, InvParts DEF TransportCreated, Vacated, flagVars
  <1> QED BY <1>1, <1>3, <1>4, PlainAnswer

LEMMA ProduceAnswers ==
    ASSUME MediaInv, Produced
    PROVE  MediaInv'
  <1> DEFINE u == Asker
             s == Subject[2]
             seat == Seat
  <1>1. channel # <<>> /\ Head(channel).kind = "produce"
    BY DEF Produced, Answers
  <1>2. u \in Users /\ s \in Sources /\ (seat # "gone" => seated[u])
    BY <1>1, HeadIs
  <1>3. /\ producers' = IF seat = "current" THEN [producers EXCEPT ![u][s] = "on"] ELSE producers
        /\ deadProducers' = IF seat = "rebound"
                            THEN [deadProducers EXCEPT ![u] = @ \cup {s}] ELSE deadProducers
        /\ channel' = IF s = "mic" /\ seat = "current"
                      THEN Append(Tail(channel), Request("observe", u, <<u, s>>))
                      ELSE Tail(channel)
        /\ IF s = "mic" THEN UNCHANGED known ELSE Announce(u, s)
        /\ IF s # "screen" THEN UNCHANGED <<activePresenterId, presenting>>
           ELSE IF seat = "gone" THEN activePresenterId' = u /\ UNCHANGED presenting
           ELSE OnStarted(u)
        /\ videoEnabled' = IF s = "cam" /\ seat # "gone"
                           THEN [videoEnabled EXCEPT ![u] = TRUE] ELSE videoEnabled
        /\ UNCHANGED <<meetingVars, seated, transports, orphaned, stopped, consumers, audioMuted>>
    BY DEF Produced
  <1> HIDE DEF u, s, seat
  <1>4. /\ producers' \in [Users -> [Sources -> {"none", "on", "paused"}]]
        /\ \A v \in Users, t \in Sources :
              \/ producers'[v][t] = producers[v][t]
              \/ v = u /\ t = s /\ producers'[v][t] = "on" /\ seat = "current"
    BY <1>2, <1>3, InvParts DEF Shapes
  <1>5. /\ deadProducers' \in [Users -> SUBSET Sources] /\ videoEnabled' \in [Users -> BOOLEAN]
        /\ \A v \in Users : ~seated[v] => /\ deadProducers'[v] = deadProducers[v]
                                         /\ videoEnabled'[v] = videoEnabled[v]
    BY <1>2, <1>3, InvParts DEF Shapes
  <1>6. /\ presenting' \in [Users -> BOOLEAN] /\ activePresenterId' \in Users \cup {NoUser}
        /\ \A v \in Users : \/ presenting'[v] = presenting[v]
                            \/ v = u /\ seat # "gone" /\ presenting'[v]
    BY <1>2, <1>3, InvParts DEF OnStarted, Shapes
  <1>7. known' \in [Users -> SUBSET Producers]
    BY <1>2, <1>3, InvParts, Announces DEF Shapes
  <1>8. Shapes'
    BY <1>3, <1>4, <1>5, <1>6, <1>7, InvParts DEF Shapes, meetingVars
  <1>9. Vacated'
    <2> SUFFICES ASSUME NEW v \in Users, ~seated[v]
                 PROVE  /\ ~transports[v] /\ consumers[v] = {} /\ stopped[v] = 0
                        /\ deadProducers'[v] = {}
                        /\ \A t \in Sources : producers'[v][t] = "none"
                        /\ audioMuted[v] /\ ~videoEnabled'[v] /\ ~presenting'[v]
      BY <1>3 DEF Vacated
    <2>1. /\ ~transports[v] /\ consumers[v] = {} /\ stopped[v] = 0 /\ deadProducers[v] = {}
          /\ \A t \in Sources : producers[v][t] = "none"
          /\ audioMuted[v] /\ ~videoEnabled[v] /\ ~presenting[v]
      BY InvParts DEF Vacated
    <2> QED BY <1>2, <1>4, <1>5, <1>6, <2>1
  <1>11. \/ channel' = Tail(channel)
         \/ \E r : Entry(r, seated) /\ r.kind # "consume" /\ channel' = Append(Tail(channel), r)
    <2> DEFINE r == Request("observe", u, <<u, s>>)
    <2>1. CASE channel' = Tail(channel)
      BY <2>1
    <2>2. CASE channel' = Append(Tail(channel), r) /\ seat = "current"
      <3>1. "observe" \in Kinds /\ seated[u]
        BY <1>2, <2>2 DEF Kinds
      <3>2. Entry(r, seated) /\ r.kind = "observe"
        BY <1>2, <3>1, EntryAbout
      <3>3. r.kind # "consume"
        BY <3>2
      <3> HIDE DEF r
      <3> QED BY <2>2, <3>2, <3>3
    <2> HIDE DEF r
    <2> QED BY <1>3, <2>1, <2>2 DEF r
  <1>12. UNCHANGED <<seated, consumers>>
    BY <1>3
  <1>13. \A v \in Users, t \in Sources : producers[v][t] # "none" => producers'[v][t] # "none"
    BY <1>4
  <1> QED BY <1>1, <1>8, <1>9, <1>11, <1>12, <1>13, PlainAnswer

LEMMA ObserveAnswers ==
    ASSUME MediaInv, Observed
    PROVE  MediaInv'
  <1>1. /\ channel # <<>> /\ Head(channel).kind = "observe"
        /\ UNCHANGED <<seated, consumers, producers>> /\ channel' = Tail(channel)
    BY DEF Observed, Answers, Answered, mediaVars
  <1>2. /\ audioMuted' \in [Users -> BOOLEAN]
        /\ \A v \in Users : ~seated[v] => audioMuted'[v] = audioMuted[v]
    BY <1>1, HeadIs, InvParts DEF Observed, Shapes
  <1>3. Asker \in Users /\ "mic" \in Sources /\ Announce(Asker, "mic")
    BY <1>1, HeadIs DEF Observed, Sources
  <1>4. known' \in [Users -> SUBSET Producers]
    BY <1>3, Announces
  <1>5. Shapes'
    BY <1>2, <1>4, InvParts DEF Observed, Shapes, meetingVars, mediaVars
  <1>6. Vacated'
    <2>1. /\ UNCHANGED <<seated, transports, consumers, stopped, deadProducers, producers>>
          /\ UNCHANGED <<videoEnabled, presenting>>
      BY DEF Observed, mediaVars
    <2> QED BY <1>2, <2>1, InvParts DEF Vacated
  <1> QED BY <1>1, <1>5, <1>6, PlainAnswer

(* A live producer pauses or resumes, and flags of seated users change.    *)
LEMMA StateAnswer ==
    ASSUME MediaInv, channel # <<>>, Head(channel).kind # "producerclose",
           producers' \in [Users -> [Sources -> {"none", "on", "paused"}]],
           \A v \in Users, sent \in Sources :
              producers'[v][sent] = "none" <=> producers[v][sent] = "none",
           audioMuted' \in [Users -> BOOLEAN], videoEnabled' \in [Users -> BOOLEAN],
           \A v \in Users : ~seated[v] =>
              audioMuted'[v] = audioMuted[v] /\ videoEnabled'[v] = videoEnabled[v],
           UNCHANGED <<meetingVars, activePresenterId, seated, transports, orphaned, stopped,
                       deadProducers, consumers, presenting, known>>,
           \/ channel' = Tail(channel)
           \/ \E r : Entry(r, seated) /\ r.kind # "consume" /\ channel' = Append(Tail(channel), r)
    PROVE  MediaInv'
  <1>1. Shapes'
    BY InvParts DEF Shapes, meetingVars
  <1>2. Vacated'
    BY InvParts DEF Vacated
  <1> QED BY <1>1, <1>2, PlainAnswer

LEMMA PauseAnswers ==
    ASSUME MediaInv, PauseAnswered
    PROVE  MediaInv'
  <1> DEFINE u == Asker
             s == Subject[2]
             paused == Head(channel).kind = "pause"
  <1>1. /\ channel # <<>> /\ Head(channel).kind \in {"pause", "resume"}
        /\ Head(channel).kind # "producerclose" /\ channel' = Tail(channel)
    BY DEF PauseAnswered, Answered
  <1>2. u \in Users /\ s \in Sources /\ (Seat # "gone" => seated[u]) /\ paused \in BOOLEAN
    BY <1>1, HeadIs
  <1>3. /\ producers' = IF Seat = "current" /\ producers[u][s] # "none"
                        THEN [producers EXCEPT ![u][s] = IF paused THEN "paused" ELSE "on"]
                        ELSE producers
        /\ IF Seat = "gone" THEN UNCHANGED <<audioMuted, videoEnabled>>
           ELSE ApplyStateChange(u, s, paused)
        /\ UNCHANGED <<meetingVars, activePresenterId, seated, transports, orphaned, stopped,
                       deadProducers, consumers, presenting, known>>
    BY DEF PauseAnswered
  <1> HIDE DEF u, s, paused
  <1>4. /\ producers' \in [Users -> [Sources -> {"none", "on", "paused"}]]
        /\ \A v \in Users, t \in Sources : producers'[v][t] = "none" <=> producers[v][t] = "none"
    BY <1>2, <1>3, InvParts DEF Shapes
  <1>5. /\ audioMuted' \in [Users -> BOOLEAN] /\ videoEnabled' \in [Users -> BOOLEAN]
        /\ \A v \in Users : ~seated[v] =>
             audioMuted'[v] = audioMuted[v] /\ videoEnabled'[v] = videoEnabled[v]
    <2>1. CASE Seat = "gone"
      BY <1>3, <2>1, InvParts DEF Shapes
    <2>2. CASE Seat # "gone"
      BY <1>2, <1>3, <2>2, Changes
    <2> QED BY <2>1, <2>2
  <1> QED BY <1>1, <1>3, <1>4, <1>5, StateAnswer

LEMMA MuteAnswers ==
    ASSUME MediaInv, MuteAnswered
    PROVE  MediaInv'
  <1> DEFINE u == Asker
             mic == IF Seat = "current" /\ producers[u]["mic"] # "none"
                    THEN "paused" ELSE producers[u]["mic"]
  <1>1. channel # <<>> /\ Head(channel).kind = "mute" /\ Head(channel).kind # "producerclose"
    BY DEF MuteAnswered, Answers
  <1>2. u \in Users /\ (Seat # "gone" => seated[u]) /\ "mic" \in Sources
    BY <1>1, HeadIs DEF Sources
  <1>3. /\ IF Seat = "gone"
           THEN channel' = Tail(channel) /\ UNCHANGED <<producers, audioMuted>>
           ELSE /\ producers' = [producers EXCEPT ![u]["mic"] = mic]
                /\ MuteLoop(u, mic, Tail(channel))
        /\ UNCHANGED <<meetingVars, activePresenterId, seated, transports, orphaned, stopped,
                       deadProducers, consumers, videoEnabled, presenting, known>>
    BY DEF MuteAnswered, Answered
  <1>4. /\ mic \in {"none", "on", "paused"}
        /\ mic = "none" <=> producers[u]["mic"] = "none"
    BY <1>2, InvParts
  <1> HIDE DEF u, mic
  <1>5. /\ producers' \in [Users -> [Sources -> {"none", "on", "paused"}]]
        /\ \A v \in Users, t \in Sources : producers'[v][t] = "none" <=> producers[v][t] = "none"
    <2>1. CASE Seat = "gone"
      BY <1>3, <2>1, InvParts DEF Shapes
    <2>2. CASE Seat # "gone"
      <3>1. producers' = [producers EXCEPT ![u]["mic"] = mic]
        BY <1>3, <2>2
      <3>2. producers' \in [Users -> [Sources -> {"none", "on", "paused"}]]
        BY <1>2, <1>4, <3>1, InvParts DEF Shapes
      <3>3. ASSUME NEW v \in Users, NEW t \in Sources
            PROVE  producers'[v][t] = "none" <=> producers[v][t] = "none"
        <4>1. CASE v = u /\ t = "mic"
          BY <1>2, <1>4, <3>1, <4>1, InvParts DEF Shapes
        <4>2. CASE ~(v = u /\ t = "mic")
          BY <1>2, <3>1, <4>2, InvParts DEF Shapes
        <4> QED BY <4>1, <4>2
      <3> QED BY <3>2, <3>3
    <2> QED BY <2>1, <2>2
  <1>6. videoEnabled' \in [Users -> BOOLEAN] /\ UNCHANGED videoEnabled
    BY <1>3, InvParts DEF Shapes
  <1>7. /\ audioMuted' \in [Users -> BOOLEAN]
        /\ \A v \in Users : ~seated[v] => audioMuted'[v] = audioMuted[v]
        /\ \/ channel' = Tail(channel)
           \/ \E r : Entry(r, seated) /\ r.kind # "consume" /\ channel' = Append(Tail(channel), r)
    <2>1. CASE Seat = "gone"
      BY <1>3, <2>1, InvParts DEF Shapes
    <2>2. CASE Seat # "gone"
      BY <1>2, <1>3, <2>2, MuteLoops
    <2> QED BY <2>1, <2>2
  <1> QED BY <1>1, <1>3, <1>5, <1>6, <1>7, StateAnswer

LEMMA ConsumeAnswers ==
    ASSUME MediaInv, Consumed
    PROVE  MediaInv'
  <1>1. /\ channel # <<>> /\ Head(channel).kind = "consume"
        /\ Head(channel).kind # "producerclose" /\ channel' = Tail(channel)
        /\ UNCHANGED <<meetingVars, activePresenterId, seated, transports, orphaned, producers,
                       stopped, deadProducers, flagVars, known>>
    BY DEF Consumed, Answers, Answered
  <1>2. /\ Asker \in Users /\ Head(channel).of \in SUBSET Producers
        /\ Seat # "gone" => seated[Asker]
    BY <1>1, HeadIs
  <1>3. /\ consumers' \in [Users -> SUBSET Producers]
        /\ \A v \in Users : ~seated[v] => consumers'[v] = consumers[v]
        /\ \A v \in Users : \A q \in consumers'[v] : q \in consumers[v] \/ q \in Head(channel).of
    BY <1>2, InvParts DEF Consumed, Shapes
  <1>4. Shapes'
    BY <1>1, <1>3, InvParts DEF Shapes, meetingVars, flagVars
  <1>5. Vacated'
    BY <1>1, <1>3, InvParts DEF Vacated, flagVars
  <1>7. Live \subseteq Live'
    BY <1>1 DEF Live
  <1> QED BY <1>1, <1>3, <1>4, <1>5, <1>7, Answering

LEMMA Notices ==
    ASSUME MediaInv, ProducerClosed
    PROVE  MediaInv'
  <1>1. /\ channel # <<>> /\ Head(channel).kind = "producerclose" /\ channel' = Tail(channel)
        /\ UNCHANGED <<meetingVars, activePresenterId, seated, transports, orphaned, producers,
                       stopped, deadProducers, flagVars>>
    BY DEF ProducerClosed, Answers, Answered
  <1>2. /\ consumers' \in [Users -> SUBSET Producers] /\ known' \in [Users -> SUBSET Producers]
        /\ \A v \in Users : consumers'[v] = consumers[v] \ Head(channel).of
    BY InvParts DEF ProducerClosed, Forgotten, Shapes
  <1>3. Shapes'
    BY <1>1, <1>2, InvParts DEF Shapes, meetingVars, flagVars
  <1>4. Vacated'
    BY <1>1, <1>2, InvParts DEF Vacated, flagVars
  <1>6. Live \subseteq Live'
    BY <1>1 DEF Live
  <1> QED BY <1>1, <1>2, <1>3, <1>4, <1>6, Answering

----------------------------------------------------------------------------
(* The invariant, and what it gives.                                       *)

LEMMA MediaInvInit == Init => MediaInv
  <1> SUFFICES ASSUME Init PROVE MediaInv
    OBVIOUS
  <1>1. Shapes
    BY DEF Init, Shapes, NoMedia
  <1>2. Vacated
    BY DEF Init, Vacated, NoMedia
  <1>3. Tagged(channel, seated)
    BY DEF Init, Tagged
  <1>4. Tiles(channel, consumers, Live)
    BY DEF Init, Tiles
  <1> QED BY <1>1, <1>2, <1>3, <1>4 DEF MediaInv

LEMMA MediaInvStep == MediaInv /\ [Next]_vars => MediaInv'
  <1> SUFFICES ASSUME MediaInv, [Next]_vars PROVE MediaInv'
    OBVIOUS
  <1>1. CASE UNCHANGED vars
    <2>1. Shapes' /\ Vacated'
      BY <1>1, InvParts DEF vars, Shapes, Vacated, meetingVars, mediaVars, flagVars
    <2> QED BY <1>1, <2>1, ChannelWaits DEF vars, mediaVars
  <1>2. ASSUME NEW u \in Users,
               \/ JoinRoom(u) \/ Rejoin(u) \/ FinalizeLeave(u) \/ Kick(u) \/ GroupStreams(u)
               \/ GroupControls(u) \/ CallStreams(u) \/ CallControls(u) \/ Mute(u)
        PROVE  MediaInv'
    BY <1>2, Joins, Rejoins, Leaves, Streaming, Controlling, Mutes
       DEF GroupStreams, GroupControls, CallStreams, CallControls
  <1>3. CASE EndMeeting
    BY <1>3, Leaves
  <1>4. CASE EnableScreenShare \/ DisableScreenShare
    BY <1>4, Features
  <1>5. CASE WorkerAnswers
    BY <1>5, Refusals, TransportAnswers, ProduceAnswers, ObserveAnswers, PauseAnswers,
       MuteAnswers, ConsumeAnswers, Notices DEF WorkerAnswers
  <1> QED BY <1>1, <1>2, <1>3, <1>4, <1>5 DEF Next

LEMMA MediaInvHolds == Spec => []MediaInv
  BY MediaInvInit, MediaInvStep, PTL DEF Spec

(* Once the meeting has ended nobody is seated, and no transport is left   *)
(* in the worker or about to be.                                           *)
Ended ==
    isEnded =>
        /\ ~orphaned /\ \A u \in Users : ~seated[u]
        /\ \A i \in 1..Len(channel) :
              channel[i].kind = "createTransport" => channel[i].seat = "closed"

LEMMA OvertakenByEnd ==
    ASSUME NEW r \in Requests
    PROVE  /\ Overtaken(r, Users, "gone", TRUE) \in Requests
           /\ Overtaken(r, Users, "gone", TRUE).kind = "createTransport" =>
                Overtaken(r, Users, "gone", TRUE).seat = "closed"
  BY DEF Overtaken, Requests

LEMMA EndsClosed ==
    ASSUME MediaInv, Vacate(Users, TRUE)
    PROVE  Ended'
  <1> DEFINE overtaken == [i \in 1..Len(channel) |-> Overtaken(channel[i], Users, "gone", TRUE)]
             P == UNION {LiveOf(u) : u \in Users}
  <1>1. ~orphaned' /\ (\A u \in Users : ~seated'[u]) /\ channel' = Notified(overtaken, P)
    BY DEF Vacate, CloseAllMedia
  <1>2. channel \in Seq(Requests) /\ Len(channel) \in Nat
        /\ \A i \in 1..Len(channel) : channel[i] \in Requests
    BY InvParts
  <1>3. \A i \in 1..Len(channel) :
          /\ overtaken[i] \in Requests
          /\ overtaken[i].kind = "createTransport" => overtaken[i].seat = "closed"
    <2> SUFFICES ASSUME NEW i \in 1..Len(channel)
                 PROVE  /\ overtaken[i] \in Requests
                        /\ overtaken[i].kind = "createTransport" => overtaken[i].seat = "closed"
      OBVIOUS
    <2>1. channel[i] \in Requests
      BY <1>2
    <2>2. LET q == Overtaken(channel[i], Users, "gone", TRUE)
          IN  q \in Requests /\ (q.kind = "createTransport" => q.seat = "closed")
      BY <2>1, OvertakenByEnd
    <2> QED BY <2>2
  <1>4. overtaken \in Seq(Requests) /\ Len(overtaken) = Len(channel)
    <2>1. overtaken = [i \in 1..Len(channel) |-> overtaken[i]]
      OBVIOUS
    <2> HIDE DEF overtaken
    <2> QED BY <1>2, <1>3, <2>1
  <1>5. P \in SUBSET Producers
    BY DEF LiveOf
  <1> HIDE DEF overtaken, P
  <1>6. \/ channel' = overtaken
        \/ \E r \in Requests : r.kind = "producerclose" /\ channel' = Append(overtaken, r)
    BY <1>1, <1>4, <1>5, NotifiedIs
  <1>7. \A i \in 1..Len(channel') :
          channel'[i].kind = "createTransport" => channel'[i].seat = "closed"
    <2>1. CASE channel' = overtaken
      BY <1>3, <1>4, <2>1
    <2>2. ASSUME NEW r \in Requests, r.kind = "producerclose", channel' = Append(overtaken, r)
          PROVE  \A i \in 1..Len(channel') :
                   channel'[i].kind = "createTransport" => channel'[i].seat = "closed"
      <3>1. /\ Len(channel') = Len(overtaken) + 1 /\ channel'[Len(overtaken) + 1] = r
            /\ \A i \in 1..Len(overtaken) : channel'[i] = overtaken[i]
        BY <1>4, <2>2
      <3>2. \A i \in 1..Len(channel') : i \in 1..Len(overtaken) \/ i = Len(overtaken) + 1
        BY <1>4, <3>1
      <3> QED BY <1>3, <1>4, <2>2, <3>1, <3>2
    <2> QED BY <1>6, <2>1, <2>2
  <1> QED BY <1>1, <1>7 DEF Ended

(* After the end only the worker's answers are left, none of a transport.  *)
LEMMA EndedAnswers ==
    ASSUME MediaInv, Ended, isEnded, WorkerAnswers
    PROVE  Ended'
  <1> DEFINE t == Tail(channel)
             ch == channel'
  <1>1. /\ channel # <<>> /\ UNCHANGED <<isEnded, seated>>
        /\ \/ ch = t
           \/ \E r \in Requests : r.kind # "createTransport" /\ ch = Append(t, r)
    <2>1. CASE Refused \/ TransportCreated \/ Observed \/ PauseAnswered \/ Consumed \/ ProducerClosed
      BY <2>1 DEF Refused, TransportCreated, Observed, PauseAnswered, Consumed, ProducerClosed,
         Answers, Answered, meetingVars
    <2>2. CASE Produced
      <3>1. Asker \in Users /\ Subject[2] \in Sources /\ channel # <<>>
        BY <2>2, HeadIs DEF Produced, Answers
      <3>2. <<Asker, Subject[2]>> \in Producers /\ "observe" \in Kinds
        BY <3>1 DEF Producers, Kinds
      <3>3. LET r == Request("observe", Asker, <<Asker, Subject[2]>>)
            IN  r \in Requests /\ r.kind = "observe"
        BY <3>1, <3>2, RequestType
      <3> QED BY <2>2, <3>1, <3>3 DEF Produced, meetingVars
    <2>3. CASE MuteAnswered
      <3>1. Asker \in Users /\ channel # <<>>
        BY <2>3, HeadIs DEF MuteAnswered, Answers
      <3>2. <<Asker, "mic">> \in Producers /\ "mute" \in Kinds
        BY <3>1 DEF Producers, Kinds, Sources
      <3>3. LET r == Request("mute", Asker, <<Asker, "mic">>)
            IN  r \in Requests /\ r.kind = "mute"
        BY <3>1, <3>2, RequestType
      <3> QED BY <2>3, <3>1, <3>3 DEF MuteAnswered, MuteLoop, Answered, meetingVars
    <2> QED BY <2>1, <2>2, <2>3 DEF WorkerAnswers
  <1>2. channel \in Seq(Requests) /\ t \in Seq(Requests) /\ Len(t) = Len(channel) - 1
        /\ \A i \in 1..Len(t) : t[i] = channel[i + 1]
    BY <1>1, InvParts
  <1>3. Len(channel) \in Nat /\ 1 \in 1..Len(channel) /\ Head(channel) = channel[1]
    BY <1>1, InvParts
  <1>4. orphaned' = orphaned
    <2>1. CASE TransportCreated
      BY <1>3, <2>1 DEF TransportCreated, Answers, Seat, Ended
    <2>2. CASE ~TransportCreated
      BY <2>2 DEF WorkerAnswers, Refused, Produced, Observed, PauseAnswered, MuteAnswered, Consumed,
         ProducerClosed, mediaVars
    <2> QED BY <2>1, <2>2
  <1> HIDE DEF t, ch
  <1>5. \A i \in 1..Len(t) : t[i].kind = "createTransport" => t[i].seat = "closed"
    <2>1. \A i \in 1..Len(t) : i + 1 \in 1..Len(channel)
      BY <1>2, <1>3
    <2> QED BY <1>2, <2>1 DEF Ended
  <1>6. \A i \in 1..Len(ch) : ch[i].kind = "createTransport" => ch[i].seat = "closed"
    <2>1. CASE ch = t
      BY <1>5, <2>1
    <2>2. ASSUME NEW r \in Requests, r.kind # "createTransport", ch = Append(t, r)
          PROVE  \A i \in 1..Len(ch) : ch[i].kind = "createTransport" => ch[i].seat = "closed"
      <3>1. /\ Len(ch) = Len(t) + 1 /\ ch[Len(t) + 1] = r /\ \A i \in 1..Len(t) : ch[i] = t[i]
        BY <1>2, <2>2
      <3>2. \A i \in 1..Len(ch) : i \in 1..Len(t) \/ i = Len(t) + 1
        BY <1>2, <3>1
      <3> QED BY <1>5, <2>2, <3>1, <3>2
    <2> QED BY <1>1, <2>1, <2>2
  <1> QED BY <1>1, <1>4, <1>6 DEF Ended, ch

LEMMA EndedStep == MediaInv /\ Ended /\ [Next]_vars => Ended'
  <1> SUFFICES ASSUME MediaInv, Ended, [Next]_vars PROVE Ended'
    OBVIOUS
  <1>1. CASE UNCHANGED vars
    BY <1>1 DEF Ended, vars, meetingVars, mediaVars
  <1>2. CASE EndMeeting
    BY <1>2, EndsClosed DEF EndMeeting
  <1>3. ASSUME NEW u \in Users, FinalizeLeave(u) PROVE Ended'
    <2>1. CASE type = "one_to_one"
      BY <1>3, <2>1, EndsClosed DEF FinalizeLeave
    <2>2. CASE type # "one_to_one"
      BY <1>3, <2>2 DEF FinalizeLeave, Ended
    <2> QED BY <2>1, <2>2
  <1>4. CASE WorkerAnswers
    <2>1. UNCHANGED isEnded
      BY <1>4 DEF WorkerAnswers, Refused, TransportCreated, Produced, Observed, PauseAnswered,
         MuteAnswered, Consumed, ProducerClosed, meetingVars
    <2> QED BY <1>4, <2>1, EndedAnswers DEF Ended
  <1>5. ASSUME NEW u \in Users,
               \/ JoinRoom(u) \/ Rejoin(u) \/ Kick(u) \/ Streams(u) \/ Controls(u) \/ Mute(u)
        PROVE  Ended'
    <2>1. ~isEnded \/ seated[u]
      BY <1>5 DEF JoinRoom, Rejoin, Kick, Streams, CreateTransport, Produce, Consume, Controls,
         PauseProducer, ResumeProducer, CloseProducer, CloseStopped, ControlStopped,
         StartScreenShare, StopScreenShare, Mute
    <2>2. UNCHANGED isEnded
      BY <1>5 DEF JoinRoom, Rejoin, Kick, Streams, CreateTransport, Produce, Consume, Controls,
         PauseProducer, ResumeProducer, CloseProducer, CloseStopped, ControlStopped,
         StartScreenShare, StopScreenShare, Mute, meetingVars, vars
    <2> QED BY <2>1, <2>2 DEF Ended
  <1>6. CASE EnableScreenShare \/ DisableScreenShare
    BY <1>6 DEF EnableScreenShare, DisableScreenShare, Ended
  <1> QED BY <1>1, <1>2, <1>3, <1>4, <1>5, <1>6
          DEF Next, GroupStreams, GroupControls, CallStreams, CallControls

(* Types; leave, kick, reconnect and end, whatever calls of the user are   *)
(* under way, leave nothing of a user without a seat in the meeting; and   *)
(* no transport answered after its user left outlives the meeting.         *)
THEOREM MediaTypes == Spec => []TypeOK
  <1>1. Init => Ended
    BY DEF Init, Ended
  <1>2. MediaInv /\ Ended => TypeOK
    <2> SUFFICES ASSUME MediaInv, Ended PROVE TypeOK
      OBVIOUS
    <2>1. \A u \in Users : ~seated[u] =>
            /\ ~transports[u] /\ ListedOf(u) = {} /\ consumers[u] = {}
            /\ audioMuted[u] /\ ~videoEnabled[u] /\ ~presenting[u]
      <3> SUFFICES ASSUME NEW u \in Users, ~seated[u]
                   PROVE  /\ ~transports[u] /\ ListedOf(u) = {} /\ consumers[u] = {}
                          /\ audioMuted[u] /\ ~videoEnabled[u] /\ ~presenting[u]
        OBVIOUS
      <3>1. /\ ~transports[u] /\ consumers[u] = {} /\ stopped[u] = 0 /\ deadProducers[u] = {}
            /\ \A s \in Sources : producers[u][s] = "none"
            /\ audioMuted[u] /\ ~videoEnabled[u] /\ ~presenting[u]
        BY InvParts DEF Vacated
      <3>2. LeftOf(u) = {}
        BY <3>1 DEF LeftOf
      <3>3. ListedOf(u) = {}
        BY <3>1, <3>2 DEF ListedOf, LiveOf, Producers
      <3> QED BY <3>1, <3>3
    <2> QED BY <2>1, InvParts DEF TypeOK, Shapes, Ended
  <1> QED BY <1>1, <1>2, EndedStep, MediaInvHolds, PTL DEF Spec

(* Every step but a late close of a stopped screen keeps presented whoever *)
(* is.                                                                     *)
LEMMA PresentedStep ==
    ASSUME MediaInv, NEW v \in Users, Presented(v), [Next]_vars, ~CloseStopped(v)
    PROVE  Presented(v)'
  <1> USE InvParts DEF Presented
  <1>s. "screen" \in Sources
    BY DEF Sources
  <1>1. ASSUME producers'[v]["screen"] # "none" =>
                  producers[v]["screen"] # "none" /\ presenting'[v] = presenting[v]
        PROVE  Presented(v)'
    BY <1>1
  <1>2. ASSUME NEW u \in Users, Rejoin(u) PROVE Presented(v)'
    BY <1>1, <1>2, <1>s DEF Rejoin, OnStopped, CloseAllMedia, ClosedProducers, NoMedia, Shapes
  <1>3. ASSUME NEW u \in Users, FinalizeLeave(u) \/ Kick(u) \/ EndMeeting PROVE Presented(v)'
    <2>1. PICK U \in SUBSET Users, closes \in BOOLEAN : Vacate(U, closes)
      BY <1>3 DEF FinalizeLeave, Kick, EndMeeting
    <2> QED BY <1>1, <1>s, <2>1 DEF Vacate, CloseAllMedia, ClosedProducers, NoMedia, Shapes
  <1>4. ASSUME NEW u \in Users, OnStopped(u),
               producers' = [producers EXCEPT ![u]["screen"] = "none"]
        PROVE  Presented(v)'
    BY <1>1, <1>4, <1>s DEF OnStopped, Shapes
  <1>5. ASSUME NEW u \in Users, Controls(u) PROVE Presented(v)'
    <2>1. ASSUME NEW s \in Sources, CloseProducer(u, s) PROVE Presented(v)'
      <3>1. producers' = [producers EXCEPT ![u][s] = "none"]
        BY <2>1 DEF CloseProducer
      <3>2. CASE s = "screen"
        BY <1>4, <2>1, <3>1, <3>2 DEF CloseProducer
      <3>3. CASE s # "screen"
        <4>1. producers'[v]["screen"] = producers[v]["screen"]
          BY <1>s, <3>1, <3>3 DEF Shapes
        <4> QED BY <1>1, <2>1, <3>3, <4>1 DEF CloseProducer
      <3> QED BY <3>2, <3>3
    <2>2. CASE StopScreenShare(u)
      BY <1>4, <2>2 DEF StopScreenShare
    <2>3. CASE StartScreenShare(u) \/ ControlStopped(u)
      BY <1>1, <2>3 DEF StartScreenShare, ControlStopped, vars, mediaVars, flagVars
    <2>4. ASSUME NEW s \in Sources, PauseProducer(u, s) \/ ResumeProducer(u, s)
          PROVE  Presented(v)'
      BY <1>1, <2>4 DEF PauseProducer, ResumeProducer, mediaVars
    <2>5. CASE CloseStopped(u)
      <3>1. u # v
        BY <2>5
      <3> QED BY <1>1, <2>5, <3>1 DEF CloseStopped, OnStopped, Shapes
    <2> QED BY <1>5, <2>1, <2>2, <2>3, <2>4, <2>5 DEF Controls
  <1>6. CASE DisableScreenShare
    <2>1. CASE UNCHANGED <<presenting, producers>>
      BY <1>1, <2>1
    <2>2. ASSUME NEW u \in Users, OnStopped(u),
                 producers' = [producers EXCEPT ![u]["screen"] = StoppedScreen(u)]
          PROVE  Presented(v)'
      BY <1>4, <2>2 DEF StoppedScreen
    <2>3. activePresenterId # NoUser => activePresenterId \in Users
      BY DEF Shapes
    <2> QED BY <1>6, <2>1, <2>2, <2>3 DEF DisableScreenShare
  <1>7. CASE Produced
    <2> DEFINE u == Asker
               s == Subject[2]
               seat == Seat
    <2>1. u \in Users /\ s \in Sources
      BY <1>7, HeadIs DEF Produced, Answers
    <2>2. /\ producers' = IF seat = "current" THEN [producers EXCEPT ![u][s] = "on"] ELSE producers
          /\ IF s # "screen" THEN UNCHANGED presenting
             ELSE IF seat = "gone" THEN UNCHANGED presenting ELSE OnStarted(u)
      BY <1>7 DEF Produced
    <2> HIDE DEF u, s, seat
    <2>3. presenting[v] => presenting'[v]
      BY <2>1, <2>2 DEF OnStarted, Shapes
    <2>4. CASE s = "screen" /\ seat = "current" /\ v = u
      BY <2>1, <2>2, <2>4 DEF OnStarted, Shapes
    <2>5. CASE ~(s = "screen" /\ seat = "current" /\ v = u)
      <3>1. producers'[v]["screen"] = producers[v]["screen"]
        BY <1>s, <2>1, <2>2, <2>5 DEF Shapes
      <3> QED BY <2>3, <3>1
    <2> QED BY <2>4, <2>5
  <1>8. CASE PauseAnswered \/ MuteAnswered
    <2>1. UNCHANGED presenting
      BY <1>8 DEF PauseAnswered, MuteAnswered
    <2>2. CASE PauseAnswered
      <3>1. Asker \in Users /\ Subject[2] \in Sources
        BY <2>2, HeadIs DEF PauseAnswered
      <3>2. producers'[v]["screen"] # "none" => producers[v]["screen"] # "none"
        BY <1>s, <2>2, <3>1 DEF PauseAnswered, Shapes
      <3> QED BY <1>1, <2>1, <3>2
    <2>3. CASE MuteAnswered
      <3>1. producers'[v]["screen"] = producers[v]["screen"]
        <4>1. CASE UNCHANGED producers
          BY <4>1
        <4>2. ASSUME NEW mic, producers' = [producers EXCEPT ![Asker]["mic"] = mic]
              PROVE  producers'[v]["screen"] = producers[v]["screen"]
          BY <1>s, <4>2 DEF Shapes
        <4> QED BY <2>3, <4>1, <4>2 DEF MuteAnswered
      <3> QED BY <1>1, <2>1, <3>1
    <2> QED BY <1>8, <2>2, <2>3
  <1>9. CASE UNCHANGED <<presenting, producers>>
    BY <1>1, <1>9
  <1>10. ASSUME NEW u \in Users, JoinRoom(u) \/ Streams(u) \/ Mute(u) PROVE Presented(v)'
    BY <1>9, <1>10 DEF JoinRoom, Streams, CreateTransport, Produce, Consume, Mute, mediaVars, flagVars
  <1>11. CASE EnableScreenShare \/ Refused \/ TransportCreated \/ Observed \/ Consumed \/ ProducerClosed
              \/ UNCHANGED vars
    BY <1>9, <1>11 DEF EnableScreenShare, Refused, TransportCreated, Observed, Consumed,
       ProducerClosed, mediaVars, flagVars, vars
  <1> QED BY <1>2, <1>3, <1>5, <1>6, <1>7, <1>8, <1>10, <1>11
          DEF Next, GroupStreams, GroupControls, CallStreams, CallControls, WorkerAnswers

(* A screen comes to flow from a participant who is not shown as           *)
(* presenting in one way only: the late close of a screen that a forced    *)
(* stop closed.                                                            *)
THEOREM StaleClosesOnly == Spec => OnlyStaleClosesHide
  <1>1. MediaInv /\ [Next]_vars =>
          [\A u \in Users : Presented(u) /\ ~Presented(u)' => CloseStopped(u)]_vars
    BY PresentedStep
  <1> QED BY <1>1, MediaInvHolds, PTL DEF Spec, OnlyStaleClosesHide

(* Whoever is shown as presenting has a screen: one of its own, live or    *)
(* answered too late.                                                      *)
Screened(u) ==
    presenting[u] => producers[u]["screen"] # "none" \/ "screen" \in deadProducers[u]

LEMMA ScreenedStep ==
    ASSUME MediaInv, NEW v \in Users, Screened(v), [Next]_vars
    PROVE  Screened(v)'
  <1> USE InvParts DEF Screened
  <1>s. "screen" \in Sources
    BY DEF Sources
  <1>1. ASSUME NEW u \in Users, Rejoin(u) PROVE Screened(v)'
    BY <1>1 DEF Rejoin, OnStopped, CloseAllMedia, ClosedProducers, Shapes
  <1>2. ASSUME NEW u \in Users, FinalizeLeave(u) \/ Kick(u) \/ EndMeeting PROVE Screened(v)'
    <2>1. PICK U \in SUBSET Users, closes \in BOOLEAN : Vacate(U, closes)
      BY <1>2 DEF FinalizeLeave, Kick, EndMeeting
    <2> QED BY <2>1 DEF Vacate, CloseAllMedia, ClosedProducers
  <1>3. ASSUME NEW u \in Users, OnStopped(u),
               \A w \in Users \ {u} : /\ producers'[w] = producers[w]
                                     /\ deadProducers'[w] = deadProducers[w]
        PROVE  Screened(v)'
    BY <1>3 DEF OnStopped, Shapes
  <1>4. ASSUME UNCHANGED presenting, deadProducers'[v] = deadProducers[v],
               producers[v]["screen"] # "none" => producers'[v]["screen"] # "none"
        PROVE  Screened(v)'
    BY <1>4
  <1>5. ASSUME NEW u \in Users, Controls(u) PROVE Screened(v)'
    <2>1. ASSUME NEW s \in Sources, CloseProducer(u, s) PROVE Screened(v)'
      <3>1. producers' = [producers EXCEPT ![u][s] = "none"] /\ deadProducers' = deadProducers
        BY <2>1 DEF CloseProducer
      <3>2. CASE s = "screen"
        BY <1>3, <2>1, <3>1, <3>2 DEF CloseProducer, Shapes
      <3>3. CASE s # "screen"
        <4>1. producers'[v]["screen"] = producers[v]["screen"]
          BY <1>s, <3>1, <3>3 DEF Shapes
        <4> QED BY <1>4, <2>1, <3>1, <3>3, <4>1 DEF CloseProducer
      <3> QED BY <3>2, <3>3
    <2>2. CASE StopScreenShare(u)
      BY <1>3, <2>2 DEF StopScreenShare, Shapes
    <2>3. CASE StartScreenShare(u)
      BY <2>3 DEF StartScreenShare, mediaVars, flagVars
    <2>4. ASSUME NEW s \in Sources, PauseProducer(u, s) \/ ResumeProducer(u, s)
          PROVE  Screened(v)'
      BY <2>4 DEF PauseProducer, ResumeProducer, mediaVars
    <2>5. CASE CloseStopped(u)
      BY <1>3, <2>5 DEF CloseStopped
    <2>6. CASE ControlStopped(u)
      BY <2>6 DEF ControlStopped, vars, mediaVars, flagVars
    <2> QED BY <1>5, <2>1, <2>2, <2>3, <2>4, <2>5, <2>6 DEF Controls
  <1>6. CASE DisableScreenShare
    <2>1. CASE UNCHANGED <<presenting, producers>>
      BY <1>6, <2>1 DEF DisableScreenShare
    <2>2. CASE activePresenterId \in Users /\ OnStopped(activePresenterId)
               /\ \A w \in Users \ {activePresenterId} :
                     producers'[w] = producers[w] /\ deadProducers'[w] = deadProducers[w]
      BY <1>3, <2>2
    <2>3. activePresenterId # NoUser => activePresenterId \in Users
      BY DEF Shapes
    <2> QED BY <1>6, <2>1, <2>2, <2>3 DEF DisableScreenShare, Shapes
  <1>7. CASE Produced
    <2> DEFINE u == Asker
               s == Subject[2]
               seat == Seat
    <2>1. u \in Users /\ s \in Sources
      BY <1>7, HeadIs DEF Produced, Answers
    <2>2. /\ producers' = IF seat = "current" THEN [producers EXCEPT ![u][s] = "on"] ELSE producers
          /\ deadProducers' = IF seat = "rebound"
                              THEN [deadProducers EXCEPT ![u] = @ \cup {s}] ELSE deadProducers
          /\ IF s # "screen" THEN UNCHANGED presenting
             ELSE IF seat = "gone" THEN UNCHANGED presenting ELSE OnStarted(u)
      BY <1>7 DEF Produced
    <2>3. seat \in {"current", "rebound", "gone"}
      <3>1. Head(channel) \in Requests /\ Head(channel).kind = "produce" /\ channel # <<>>
        BY <1>7 DEF Produced, Answers
      <3> QED BY <3>1, HeadIs DEF Requests, Seat
    <2> HIDE DEF u, s, seat
    <2>4. \A w \in Users : /\ deadProducers[w] \subseteq deadProducers'[w]
                           /\ producers[w]["screen"] # "none" => producers'[w]["screen"] # "none"
      BY <1>s, <2>1, <2>2 DEF Shapes
    <2>5. CASE UNCHANGED presenting
      BY <2>4, <2>5
    <2>6. CASE s = "screen" /\ seat # "gone" /\ OnStarted(u)
      <3>1. \A w \in Users \ {u} : presenting'[w] = presenting[w]
        BY <2>6 DEF OnStarted, Shapes
      <3>2. producers'[u]["screen"] # "none" \/ "screen" \in deadProducers'[u]
        BY <1>s, <2>1, <2>2, <2>3, <2>6 DEF Shapes
      <3> QED BY <2>1, <2>4, <3>1, <3>2
    <2> QED BY <2>2, <2>5, <2>6
  <1>8. CASE PauseAnswered \/ MuteAnswered
    <2>1. UNCHANGED <<presenting, deadProducers>>
      BY <1>8 DEF PauseAnswered, MuteAnswered
    <2>2. CASE PauseAnswered
      BY <1>4, <2>1, <2>2, HeadIs, <1>s DEF PauseAnswered, Shapes
    <2>3. CASE MuteAnswered
      <3>1. producers'[v]["screen"] = producers[v]["screen"]
        <4>1. CASE UNCHANGED producers
          BY <4>1
        <4>2. ASSUME NEW mic, producers' = [producers EXCEPT ![Asker]["mic"] = mic]
              PROVE  producers'[v]["screen"] = producers[v]["screen"]
          BY <1>s, <4>2 DEF Shapes
        <4> QED BY <2>3, <4>1, <4>2 DEF MuteAnswered
      <3> QED BY <2>1, <3>1
    <2> QED BY <1>8, <2>2, <2>3
  <1>9. CASE UNCHANGED <<presenting, producers, deadProducers>>
    BY <1>9
  <1>10. ASSUME NEW u \in Users, JoinRoom(u) \/ Streams(u) \/ Mute(u) PROVE Screened(v)'
    BY <1>9, <1>10 DEF JoinRoom, Streams, CreateTransport, Produce, Consume, Mute, mediaVars, flagVars
  <1>11. CASE EnableScreenShare \/ Refused \/ TransportCreated \/ Observed \/ Consumed \/ ProducerClosed
              \/ UNCHANGED vars
    BY <1>9, <1>11 DEF EnableScreenShare, Refused, TransportCreated, Observed, Consumed,
       ProducerClosed, mediaVars, flagVars, vars
  <1> QED BY <1>1, <1>2, <1>5, <1>6, <1>7, <1>8, <1>10, <1>11
          DEF Next, GroupStreams, GroupControls, CallStreams, CallControls, WorkerAnswers

(* Whoever is shown as presenting has a screen, live or answered too late, *)
(* through grants, stops, forced stops, reconnects and late answers.       *)
THEOREM PresentersShare == Spec => []PresentersHaveScreens
  <1> DEFINE All == \A u \in Users : Screened(u)
  <1>1. Init => All
    BY DEF Init, Screened
  <1>2. MediaInv /\ All /\ [Next]_vars => All'
    BY ScreenedStep
  <1>3. All => PresentersHaveScreens
    BY DEF Screened, PresentersHaveScreens
  <1> HIDE DEF All
  <1> QED BY <1>1, <1>2, <1>3, MediaInvHolds, PTL DEF Spec

(* No frozen tile: whenever a producer closes, and however consumers of it *)
(* come to be meanwhile, each has its notice on the way.                   *)
THEOREM NoFrozenTiles == Spec => []TilesAreLive
  <1>1. MediaInv => TilesAreLive
    <2> SUFFICES ASSUME MediaInv, NEW v \in Users, NEW p \in consumers[v]
                 PROVE  \/ p \in LiveOf(p[1])
                        \/ \E i \in 1..Len(channel) :
                              channel[i].kind = "producerclose" /\ p \in channel[i].of
      BY DEF TilesAreLive
    <2>1. p \in Live \/ Coming(channel, p, 0)
      BY DEF MediaInv, Tiles
    <2> QED BY <2>1 DEF Live, LiveOf, Coming
  <1> QED BY <1>1, MediaInvHolds, PTL

----------------------------------------------------------------------------
(* What clients know and what flags say depends on the order of calls: the *)
(* calls of a session that is over, and the notices of closings, come      *)
(* before a producer of the same name is there or under way again, and it  *)
(* is under way once at most.                                              *)
Past(r)      == r.kind = "producerclose" \/ (r.kind # "consume" /\ r.seat # "current")
Starts(r, p) == r.kind = "produce" /\ r.seat = "current" /\ p \in r.of

(* A call is about one producer of its caller.                             *)
Own(r) ==
    /\ r.kind \notin {"producerclose", "consume"} =>
          \A p \in r.of : r.of = {p} /\ p[1] = r.user
    /\ r.kind = "observe" => r.of = {<<r.user, "mic">>}

Sessions(ch, live) ==
    \A i \in 1..Len(ch) :
        /\ Own(ch[i])
        /\ \A p \in ch[i].of :
              /\ Past(ch[i]) => p \notin live /\ \A j \in 1..Len(ch) : j < i => ~Starts(ch[j], p)
              /\ Starts(ch[i], p) => /\ p \notin live
                                    /\ \A j \in 1..Len(ch) : j # i => ~Starts(ch[j], p)

Ordered == Sessions(channel, Live)

LEMMA OwnAbout ==
    ASSUME NEW kind \in Kinds, NEW u \in Users, NEW sent \in Sources,
           kind = "observe" => sent = "mic"
    PROVE  /\ Own(Request(kind, u, <<u, sent>>))
           /\ Request(kind, u, <<u, sent>>).seat = "current"
           /\ Request(kind, u, <<u, sent>>).of = {<<u, sent>>}
  <1> DEFINE p == <<u, sent>>
  <1>1. p \in Producers /\ p[1] = u /\ (kind = "observe" => p = <<u, "mic">>)
    BY DEF Producers
  <1> HIDE DEF p
  <1> DEFINE r == Request(kind, u, p)
  <1>2. r.kind = kind /\ r.user = u /\ r.of = {p} /\ r.seat = "current"
    BY <1>1, RequestType
  <1> HIDE DEF r
  <1>3. Own(r)
    BY <1>1, <1>2 DEF Own
  <1> QED BY <1>2, <1>3 DEF p, r

LEMMA OrderedIs ==
    ASSUME NEW ch, NEW live, channel' = ch, Live' = live, Sessions(ch, live)
    PROVE  Ordered'
  BY DEF Ordered, Sessions

LEMMA OrderedLess ==
    ASSUME NEW ch, NEW live, NEW fewer, Sessions(ch, live), fewer \subseteq live
    PROVE  Sessions(ch, fewer)
  BY DEF Sessions

LEMMA OrderedAppend ==
    ASSUME NEW ch \in Seq(Requests), NEW r \in Requests, NEW live, Sessions(ch, live), Own(r),
           \A p \in r.of :
              /\ Past(r) => p \notin live /\ \A j \in 1..Len(ch) : ~Starts(ch[j], p)
              /\ Starts(r, p) => p \notin live /\ \A j \in 1..Len(ch) : ~Starts(ch[j], p)
    PROVE  Sessions(Append(ch, r), live)
  <1> DEFINE c == Append(ch, r)
  <1>1. /\ Len(ch) \in Nat /\ Len(c) = Len(ch) + 1 /\ c[Len(ch) + 1] = r
        /\ \A i \in 1..Len(ch) : c[i] = ch[i]
    OBVIOUS
  <1> HIDE DEF c
  <1>2. \A i \in 1..Len(c) : i \in 1..Len(ch) \/ i = Len(ch) + 1
    BY <1>1
  <1> SUFFICES ASSUME NEW i \in 1..Len(c)
               PROVE  /\ Own(c[i])
                      /\ \A p \in c[i].of :
                            /\ Past(c[i]) => /\ p \notin live
                                            /\ \A j \in 1..Len(c) : j < i => ~Starts(c[j], p)
                            /\ Starts(c[i], p) => /\ p \notin live
                                                 /\ \A j \in 1..Len(c) : j # i => ~Starts(c[j], p)
    BY DEF Sessions, c
  <1>3. CASE i \in 1..Len(ch)
    <2>1. /\ Own(ch[i])
          /\ \A p \in ch[i].of :
                /\ Past(ch[i]) => /\ p \notin live
                                 /\ \A j \in 1..Len(ch) : j < i => ~Starts(ch[j], p)
                /\ Starts(ch[i], p) => /\ p \notin live
                                      /\ \A j \in 1..Len(ch) : j # i => ~Starts(ch[j], p)
      BY <1>3 DEF Sessions
    <2>2. ASSUME NEW p \in ch[i].of, Past(ch[i]), NEW j \in 1..Len(c), j < i
          PROVE  ~Starts(c[j], p)
      <3>1. j \in 1..Len(ch)
        BY <1>1, <1>3, <2>2
      <3> QED BY <1>1, <2>1, <2>2, <3>1
    <2>3. ASSUME NEW p \in ch[i].of, Starts(ch[i], p), NEW j \in 1..Len(c), j # i
          PROVE  ~Starts(c[j], p)
      <3>1. CASE j \in 1..Len(ch)
        BY <1>1, <2>1, <2>3, <3>1
      <3>2. CASE j = Len(ch) + 1
        <4>1. c[j] = r
          BY <1>1, <3>2
        <4>2. Starts(r, p) => FALSE
          BY <1>3, <2>3 DEF Starts
        <4> QED BY <4>1, <4>2
      <3> QED BY <1>2, <3>1, <3>2
    <2>4. c[i] = ch[i]
      BY <1>1, <1>3
    <2> QED BY <2>1, <2>2, <2>3, <2>4
  <1>4. CASE i = Len(ch) + 1
    <2>1. c[i] = r
      BY <1>1, <1>4
    <2>2. \A j \in 1..Len(c) : j # i => j \in 1..Len(ch) /\ c[j] = ch[j]
      BY <1>1, <1>2, <1>4
    <2>3. \A j \in 1..Len(c) : j < i => j # i
      BY <1>1, <1>4
    <2> QED BY <2>1, <2>2, <2>3
  <1> QED BY <1>2, <1>3, <1>4

LEMMA OrderedTail ==
    ASSUME NEW ch \in Seq(Requests), ch # <<>>, NEW live, Sessions(ch, live), NEW more,
           \A p \in more : p \in live \/ Starts(Head(ch), p)
    PROVE  Sessions(Tail(ch), more)
  <1> DEFINE t == Tail(ch)
             h == Head(ch)
  <1>1. /\ Len(ch) \in Nat /\ Len(ch) >= 1 /\ Len(t) = Len(ch) - 1
        /\ \A i \in 1..Len(t) : t[i] = ch[i + 1]
        /\ h = ch[1]
    OBVIOUS
  <1>2. \A p \in more : p \in live \/ Starts(h, p)
    OBVIOUS
  <1> HIDE DEF t, h
  <1> SUFFICES ASSUME NEW i \in 1..Len(t)
               PROVE  /\ Own(t[i])
                      /\ \A p \in t[i].of :
                            /\ Past(t[i]) => /\ p \notin more
                                            /\ \A j \in 1..Len(t) : j < i => ~Starts(t[j], p)
                            /\ Starts(t[i], p) => /\ p \notin more
                                                 /\ \A j \in 1..Len(t) : j # i => ~Starts(t[j], p)
    BY DEF Sessions, t
  <1>3. i + 1 \in 1..Len(ch) /\ t[i] = ch[i + 1] /\ 1 \in 1..Len(ch) /\ 1 < i + 1 /\ i + 1 # 1
    BY <1>1
  <1>4. /\ Own(ch[i + 1])
        /\ \A p \in ch[i + 1].of :
              /\ Past(ch[i + 1]) => /\ p \notin live
                                   /\ \A j \in 1..Len(ch) : j < i + 1 => ~Starts(ch[j], p)
              /\ Starts(ch[i + 1], p) => /\ p \notin live
                                        /\ \A j \in 1..Len(ch) : j # i + 1 => ~Starts(ch[j], p)
    BY <1>3 DEF Sessions
  <1>5. \A j \in 1..Len(t) : /\ j + 1 \in 1..Len(ch) /\ t[j] = ch[j + 1]
                             /\ (j < i => j + 1 < i + 1) /\ (j # i => j + 1 # i + 1)
    BY <1>1
  <1>6. \A p \in t[i].of : Past(t[i]) \/ Starts(t[i], p) => ~Starts(h, p)
    BY <1>1, <1>3, <1>4
  <1> QED BY <1>2, <1>3, <1>4, <1>5, <1>6

LEMMA OrderedNotified ==
    ASSUME NEW ch \in Seq(Requests), NEW P \in SUBSET Producers, NEW live, Sessions(ch, live),
           \A p \in P : p \notin live /\ \A j \in 1..Len(ch) : ~Starts(ch[j], p)
    PROVE  Sessions(Notified(ch, P), live)
  <1>1. CASE Watched(P) = {}
    BY <1>1, NotifiedIs
  <1>2. CASE Watched(P) # {}
    <2>1. PICK r \in Requests : /\ r.kind = "producerclose" /\ r.of = Watched(P)
                                /\ Notified(ch, P) = Append(ch, r)
      BY <1>2, NotifiedIs
    <2>2. Own(r) /\ \A p \in r.of : p \in P
      BY <2>1, NotifiedIs DEF Own
    <2> QED BY <2>1, <2>2, OrderedAppend
  <1> QED BY <1>1, <1>2

(* A request in the channel stays there until it is answered.              *)
Has(ch, q) == \E i \in 1..Len(ch) : ch[i] = q

LEMMA HasAppend ==
    ASSUME NEW ch \in Seq(Requests), NEW r \in Requests
    PROVE  Has(Append(ch, r), r) /\ \A q : Has(ch, q) => Has(Append(ch, r), q)
  <1> DEFINE c == Append(ch, r)
  <1>1. /\ Len(ch) \in Nat /\ Len(c) = Len(ch) + 1 /\ c[Len(ch) + 1] = r
        /\ \A i \in 1..Len(ch) : c[i] = ch[i]
    OBVIOUS
  <1> HIDE DEF c
  <1>2. Len(ch) + 1 \in 1..Len(c) /\ \A i \in 1..Len(ch) : i \in 1..Len(c)
    BY <1>1
  <1> QED BY <1>1, <1>2 DEF Has, c

LEMMA HasTail ==
    ASSUME NEW ch \in Seq(Requests), ch # <<>>, NEW q, Has(ch, q), Head(ch) # q
    PROVE  Has(Tail(ch), q)
  <1> DEFINE t == Tail(ch)
  <1>1. /\ Len(ch) \in Nat /\ Len(ch) >= 1 /\ Len(t) = Len(ch) - 1
        /\ \A i \in 1..Len(t) : t[i] = ch[i + 1]
        /\ Head(ch) = ch[1]
    OBVIOUS
  <1> HIDE DEF t
  <1>2. PICK i \in 1..Len(ch) : ch[i] = q
    BY DEF Has
  <1>3. i # 1
    BY <1>1, <1>2
  <1>4. i - 1 \in 1..Len(t) /\ t[i - 1] = ch[i]
    BY <1>1, <1>3
  <1> QED BY <1>2, <1>4 DEF Has, t

LEMMA HasNotified ==
    ASSUME NEW ch \in Seq(Requests), NEW P \in SUBSET Producers, NEW q, Has(ch, q)
    PROVE  Has(Notified(ch, P), q)
  <1>1. CASE Watched(P) = {}
    BY <1>1, NotifiedIs
  <1>2. CASE Watched(P) # {}
    <2>1. PICK r \in Requests : Notified(ch, P) = Append(ch, r)
      BY <1>2, NotifiedIs
    <2>2. Has(Append(ch, r), q)
      BY HasAppend
    <2> QED BY <2>1, <2>2
  <1> QED BY <1>1, <1>2

(* The request for the observer of a live microphone is still to be        *)
(* answered after the step, if it was before.                              *)
Observe(u, s) == Request("observe", u, <<u, s>>)
StillAsked ==
    \A u \in Users, s \in Sources :
        Under(Observe(u, s)) /\ producers'[u][s] # "none" => Under(Observe(u, s))'

LEMMA PropsKept ==
    ASSUME MediaInv, LiveIsKnown, OffMeansOff, StillAsked,
           \A u \in Users : seated'[u] => seated[u],
           \A u \in Users, s \in Sources : producers'[u][s] # "none" => producers[u][s] # "none",
           \A v \in Users : seated'[v] =>
              \A u \in Users, s \in Sources :
                 <<u, s>> \in known[v] => <<u, s>> \in known'[v] \/ producers'[u][s] = "none",
           \A u \in Users : seated'[u] =>
              /\ audioMuted'[u] /\ producers'[u]["mic"] = "on" =>
                    audioMuted[u] /\ producers[u]["mic"] = "on"
              /\ ~videoEnabled'[u] /\ producers'[u]["cam"] = "on" =>
                    ~videoEnabled[u] /\ producers[u]["cam"] = "on"
    PROVE  LiveIsKnown' /\ OffMeansOff'
  <1>1. \A u \in Users, s \in Sources :
          producers'[u][s] # "none" /\ Replied(u, s)' => Replied(u, s)
    BY DEF StillAsked, Observe, Replied, Under
  <1>2. LiveIsKnown'
    <2> SUFFICES ASSUME NEW u \in Users, NEW v \in Users, NEW s \in Sources,
                        seated'[v], u # v, producers'[u][s] # "none", Replied(u, s)'
                 PROVE  <<u, s>> \in known'[v]
      BY DEF LiveIsKnown, Replied, Under
    <2>1. Replied(u, s)
      BY <1>1 DEF Replied, Under
    <2>2. <<u, s>> \in known[v]
      BY <2>1 DEF LiveIsKnown
    <2> QED BY <2>2
  <1>3. OffMeansOff'
    <2> SUFFICES ASSUME NEW u \in Users, seated'[u]
                 PROVE  /\ audioMuted'[u] /\ producers'[u]["mic"] = "on" => ~Replied(u, "mic")'
                        /\ ~videoEnabled'[u] => producers'[u]["cam"] # "on"
      BY DEF OffMeansOff, Replied, Under
    <2>1. seated[u] /\ "mic" \in Sources
      BY DEF Sources
    <2>2. ASSUME audioMuted'[u], producers'[u]["mic"] = "on" PROVE ~Replied(u, "mic")'
      <3>1. ~Replied(u, "mic")
        BY <2>1, <2>2 DEF OffMeansOff
      <3> QED BY <1>1, <2>1, <2>2, <3>1 DEF Replied, Under
    <2>3. ASSUME ~videoEnabled'[u], producers'[u]["cam"] = "on" PROVE FALSE
      BY <2>1, <2>3 DEF OffMeansOff
    <2> QED BY <2>2, <2>3
  <1> QED BY <1>2, <1>3

LEMMA StillAskedOnward ==
    ASSUME MediaInv,
           \/ channel' = channel
           \/ \E r \in Requests : channel' = Append(channel, r)
           \/ \E P \in SUBSET Producers : channel' = Notified(channel, P)
    PROVE  StillAsked
  <1> DEFINE ch == channel'
  <1>1. channel \in Seq(Requests)
    BY InvParts
  <1>2. \A q : Has(channel, q) => Has(ch, q)
    <2>1. CASE ch = channel
      BY <2>1
    <2>2. CASE \E r \in Requests : ch = Append(channel, r)
      BY <1>1, <2>2, HasAppend
    <2>3. CASE \E P \in SUBSET Producers : ch = Notified(channel, P)
      BY <1>1, <2>3, HasNotified
    <2> HIDE DEF ch
    <2> QED BY <2>1, <2>2, <2>3 DEF ch
  <1> QED BY <1>2 DEF Has, StillAsked, Under

LEMMA StillAskedAnswer ==
    ASSUME MediaInv, channel # <<>>,
           \/ channel' = Tail(channel)
           \/ \E r \in Requests : channel' = Append(Tail(channel), r),
           Head(channel).kind # "observe" \/ Head(channel).seat # "current"
    PROVE  StillAsked
  <1> DEFINE ch == channel'
             t == Tail(channel)
  <1>1. channel \in Seq(Requests) /\ t \in Seq(Requests)
    BY InvParts
  <1>2. \A q : Has(channel, q) /\ q # Head(channel) => Has(t, q)
    BY <1>1, HasTail
  <1>3. \A q : Has(t, q) => Has(ch, q)
    <2> HIDE DEF t
    <2>1. CASE ch = t
      BY <2>1
    <2>2. CASE \E r \in Requests : ch = Append(t, r)
      BY <1>1, <2>2, HasAppend
    <2> HIDE DEF ch
    <2> QED BY <2>1, <2>2 DEF ch, t
  <1>4. \A u \in Users, s \in Sources : Observe(u, s) # Head(channel)
    BY DEF Observe, Request
  <1> HIDE DEF ch, t
  <1>5. \A u \in Users, s \in Sources : Has(channel, Observe(u, s)) => Has(ch, Observe(u, s))
    BY <1>2, <1>3, <1>4
  <1> QED BY <1>5 DEF Has, StillAsked, Under, ch

Play == MediaInv /\ Ordered /\ LiveIsKnown /\ OffMeansOff

(* A request, other than to produce, from a caller that has its seat.      *)
Plain(r) == r \in Requests /\ Own(r) /\ ~Past(r) /\ r.kind # "produce"

LEMMA PlainAbout ==
    ASSUME NEW kind \in Kinds \ {"produce", "producerclose"}, NEW u \in Users, NEW s \in Sources,
           kind = "observe" => s = "mic"
    PROVE  Plain(Request(kind, u, <<u, s>>))
  <1>1. <<u, s>> \in Producers
    BY DEF Producers
  <1> DEFINE r == Request(kind, u, <<u, s>>)
  <1>2. r \in Requests /\ r.kind = kind
    BY <1>1, RequestType
  <1>3. Own(r) /\ r.seat = "current"
    BY OwnAbout
  <1> HIDE DEF r
  <1>4. Plain(r)
    BY <1>2, <1>3 DEF Plain, Past
  <1> QED BY <1>4 DEF r

LEMMA OrderedWaits ==
    ASSUME Ordered, channel' = channel, Live' \subseteq Live
    PROVE  Ordered'
  <1> DEFINE live == Live'
  <1>1. live \subseteq Live /\ live = Live'
    OBVIOUS
  <1> HIDE DEF live
  <1>2. Sessions(channel, live)
    BY <1>1, OrderedLess DEF Ordered
  <1> QED BY <1>1, <1>2, OrderedIs

LEMMA OrderedAsks ==
    ASSUME MediaInv, Ordered, NEW r, Plain(r), channel' = Append(channel, r), Live' = Live
    PROVE  Ordered'
  <1>1. channel \in Seq(Requests)
    BY InvParts
  <1>2. Sessions(Append(channel, r), Live)
    BY <1>1, OrderedAppend DEF Ordered, Plain, Starts
  <1> QED BY <1>2, OrderedIs

LEMMA OrderedCloses ==
    ASSUME MediaInv, Ordered, NEW P \in SUBSET Live, Live' \subseteq Live \ P,
           channel' = Notified(channel, P)
    PROVE  Ordered'
  <1> DEFINE live == Live'
  <1>1. live \subseteq Live \ P /\ live = Live'
    OBVIOUS
  <1> HIDE DEF live
  <1>2. channel \in Seq(Requests) /\ P \in SUBSET Producers
    BY InvParts DEF Live
  <1>3. Sessions(channel, live)
    BY <1>1, OrderedLess DEF Ordered
  <1>4. \A p \in P : p \notin live /\ \A j \in 1..Len(channel) : ~Starts(channel[j], p)
    BY <1>1 DEF Ordered, Sessions, Starts
  <1>5. Sessions(Notified(channel, P), live)
    BY <1>2, <1>3, <1>4, OrderedNotified
  <1> QED BY <1>1, <1>5, OrderedIs

LEMMA OrderedAnswers ==
    ASSUME MediaInv, Ordered, channel # <<>>,
           \A p \in Live' : p \in Live \/ Starts(Head(channel), p),
           channel' = Tail(channel) \/ \E r : Plain(r) /\ channel' = Append(Tail(channel), r)
    PROVE  Ordered'
  <1> DEFINE live == Live'
             t == Tail(channel)
  <1>1. \A p \in live : p \in Live \/ Starts(Head(channel), p)
    OBVIOUS
  <1>2. live = Live'
    OBVIOUS
  <1>3. channel \in Seq(Requests) /\ t \in Seq(Requests)
    BY InvParts
  <1>4. t = Tail(channel)
    OBVIOUS
  <1> HIDE DEF live, t
  <1>5. Sessions(t, live)
    BY <1>1, <1>3, <1>4, OrderedTail DEF Ordered
  <1>6. CASE channel' = t
    BY <1>2, <1>5, <1>6, OrderedIs
  <1>7. CASE \E r : Plain(r) /\ channel' = Append(t, r)
    <2>1. PICK r : Plain(r) /\ channel' = Append(t, r)
      BY <1>7
    <2>2. Sessions(Append(t, r), live)
      BY <1>3, <1>5, <2>1, OrderedAppend DEF Plain, Starts
    <2> QED BY <1>2, <2>1, <2>2, OrderedIs
  <1> QED BY <1>4, <1>6, <1>7

LEMMA OrderedClosesAll ==
    ASSUME MediaInv, Ordered, NEW U \in SUBSET Users, NEW seat \in {"rebound", "gone"},
           NEW closes \in BOOLEAN, CloseAllMedia(U, seat, closes)
    PROVE  /\ Ordered'
           /\ \A q : q.user \notin U /\ q.kind # "createTransport" /\ Under(q) =>
                \E i \in 1..Len(channel') : channel'[i] = q
  <1> DEFINE overtaken == [i \in 1..Len(channel) |-> Overtaken(channel[i], U, seat, closes)]
             P == UNION {LiveOf(u) : u \in U}
             live == Live'
  <1>1. channel \in Seq(Requests) /\ Len(channel) \in Nat
        /\ \A i \in 1..Len(channel) :
             channel[i] \in Requests /\ (channel[i].kind = "createTransport" => channel[i].of = {})
    BY InvParts DEF MediaInv, Tagged, Entry
  <1>2. channel' = Notified(overtaken, P)
    BY DEF CloseAllMedia
  <1>3. \A i \in 1..Len(channel) :
          /\ overtaken[i] \in Requests
          /\ overtaken[i].kind = channel[i].kind /\ overtaken[i].of = channel[i].of
          /\ overtaken[i].user = channel[i].user
          /\ \/ overtaken[i] = channel[i]
                /\ \/ channel[i].user \notin U
                   \/ channel[i].seat \in {"gone", "closed"} \/ channel[i].kind = "producerclose"
             \/ overtaken[i].seat = seat /\ channel[i].user \in U /\ channel[i].kind # "producerclose"
             \/ channel[i].kind = "createTransport"
    BY <1>1 DEF Requests, Overtaken
  <1>4. overtaken \in Seq(Requests) /\ Len(overtaken) = Len(channel)
    BY <1>1, <1>3
  <1>5. P \in SUBSET Producers /\ P \subseteq Live /\ \A p \in Live : p[1] \in U <=> p \in P
    BY DEF LiveOf, Live
  <1>6. live \subseteq Live \ P /\ live = Live'
    <2> SUFFICES ASSUME NEW p \in Live' PROVE p \in Live /\ p \notin P
      OBVIOUS
    <2>1. p \in Producers /\ p[1] \in Users /\ p[2] \in Sources /\ producers'[p[1]][p[2]] # "none"
      BY DEF Live, Producers
    <2>2. p[1] \notin U /\ producers'[p[1]] = producers[p[1]]
      BY <2>1 DEF CloseAllMedia, ClosedProducers, NoMedia
    <2> QED BY <2>1, <2>2 DEF Live, LiveOf
  <1> HIDE DEF overtaken, P, live
  <1>7. \A p \in live : p[1] \notin U /\ p \in Live
    BY <1>5, <1>6
  <1>8. \A i \in 1..Len(channel) : \A p : Starts(overtaken[i], p) =>
          Starts(channel[i], p) /\ channel[i].user \notin U
    BY <1>3 DEF Starts
  <1>9. \A i \in 1..Len(channel) :
          /\ Own(channel[i])
          /\ \A p \in channel[i].of :
                /\ Past(channel[i]) => /\ p \notin Live
                                      /\ \A j \in 1..Len(channel) : j < i => ~Starts(channel[j], p)
                /\ Starts(channel[i], p) => /\ p \notin Live
                                           /\ \A j \in 1..Len(channel) : j # i => ~Starts(channel[j], p)
    BY DEF Ordered, Sessions
  <1>10. \A j \in 1..Len(channel) : \A p \in channel[j].of :
           Starts(channel[j], p) => p[1] = channel[j].user
    BY <1>9 DEF Own, Starts
  <1>11. Sessions(overtaken, live)
    <2> SUFFICES ASSUME NEW i \in 1..Len(channel)
                 PROVE  /\ Own(overtaken[i])
                        /\ \A p \in overtaken[i].of :
                              /\ Past(overtaken[i]) => /\ p \notin live
                                   /\ \A j \in 1..Len(channel) : j < i => ~Starts(overtaken[j], p)
                              /\ Starts(overtaken[i], p) => /\ p \notin live
                                   /\ \A j \in 1..Len(channel) : j # i => ~Starts(overtaken[j], p)
      BY <1>4 DEF Sessions
    <2>1. Own(overtaken[i])
      BY <1>3, <1>9 DEF Own
    <2>2. ASSUME NEW p \in overtaken[i].of, Past(overtaken[i])
          PROVE  /\ p \notin live
                 /\ \A j \in 1..Len(channel) : j < i => ~Starts(overtaken[j], p)
      <3>1. CASE Past(channel[i])
        BY <1>3, <1>7, <1>8, <1>9, <2>2, <3>1
      <3>2. CASE ~Past(channel[i])
        <4>1. /\ channel[i].user \in U /\ channel[i].kind \notin {"producerclose", "consume"}
              /\ p \in channel[i].of
          BY <1>1, <1>3, <2>2, <3>2 DEF Past
        <4>2. p[1] \in U
          BY <1>9, <4>1 DEF Own
        <4>3. \A j \in 1..Len(channel) : ~Starts(overtaken[j], p)
          BY <1>8, <1>10, <4>2 DEF Starts
        <4> QED BY <1>7, <4>2, <4>3
      <3> QED BY <3>1, <3>2
    <2>3. ASSUME NEW p \in overtaken[i].of, Starts(overtaken[i], p)
          PROVE  /\ p \notin live
                 /\ \A j \in 1..Len(channel) : j # i => ~Starts(overtaken[j], p)
      BY <1>3, <1>7, <1>8, <1>9, <2>3
    <2> QED BY <2>1, <2>2, <2>3
  <1>12. \A p \in P : p \notin live /\ \A j \in 1..Len(overtaken) : ~Starts(overtaken[j], p)
    BY <1>4, <1>5, <1>6, <1>8, <1>9 DEF Starts
  <1>13. Sessions(Notified(overtaken, P), live)
    BY <1>4, <1>5, <1>11, <1>12, OrderedNotified
  <1>14. Ordered'
    BY <1>2, <1>6, <1>13, OrderedIs
  <1>15. ASSUME NEW q, q.user \notin U, q.kind # "createTransport", Under(q)
         PROVE  \E i \in 1..Len(channel') : channel'[i] = q
    <2>1. PICK i \in 1..Len(channel) : channel[i] = q
      BY <1>15 DEF Under
    <2>2. overtaken[i] = q /\ i \in 1..Len(overtaken)
      BY <1>3, <1>4, <1>15, <2>1
    <2>3. Has(overtaken, q)
      BY <2>2 DEF Has
    <2>4. Has(Notified(overtaken, P), q)
      BY <1>4, <1>5, <2>3, HasNotified
    <2> QED BY <1>2, <2>4 DEF Has
  <1> QED BY <1>14, <1>15

LEMMA PlayJoins ==
    ASSUME Play, NEW u \in Users, JoinRoom(u)
    PROVE  Play'
  <1>1. MediaInv /\ MediaInv'
    BY Joins DEF Play
  <1>2. UNCHANGED <<channel, producers, audioMuted, videoEnabled>> /\ Live' = Live
        /\ seated' = [seated EXCEPT ![u] = TRUE] /\ known' = [known EXCEPT ![u] = ListedFor(u)]
        /\ ~seated[u]
    BY DEF JoinRoom, mediaVars, flagVars, Live
  <1>3. Ordered'
    BY <1>2, OrderedWaits DEF Play
  <1>4. LiveIsKnown'
    <2> SUFFICES ASSUME NEW w \in Users, NEW v \in Users, NEW s \in Sources,
                        seated'[v], w # v, producers[w][s] # "none", Replied(w, s)
                 PROVE  <<w, s>> \in known'[v]
      BY <1>2 DEF LiveIsKnown, Replied, Under
    <2>1. CASE v = u
      <3>1. <<w, s>> \in LiveOf(w)
        BY DEF LiveOf, Producers
      <3>2. <<w, s>> \in ListedFor(v)
        BY <3>1 DEF ListedFor, ListedOf
      <3> QED BY <1>1, <1>2, <2>1, <3>2, InvParts DEF Shapes
    <2>2. CASE v # u
      BY <1>1, <1>2, <2>2, InvParts DEF Shapes, Play, LiveIsKnown
    <2> QED BY <2>1, <2>2
  <1>5. OffMeansOff'
    <2> SUFFICES ASSUME NEW w \in Users, seated'[w]
                 PROVE  /\ audioMuted[w] /\ producers[w]["mic"] = "on" => ~Replied(w, "mic")
                        /\ ~videoEnabled[w] => producers[w]["cam"] # "on"
      BY <1>2 DEF OffMeansOff, Replied, Under
    <2>1. CASE w = u
      BY <1>1, <1>2, <2>1, InvParts DEF Vacated, Sources
    <2>2. CASE w # u
      BY <1>1, <1>2, <2>2, InvParts DEF Shapes, Play, OffMeansOff
    <2> QED BY <2>1, <2>2
  <1> QED BY <1>1, <1>3, <1>4, <1>5 DEF Play

(* The media of U is closed: what is left is still known, and still as its *)
(* user is shown.                                                          *)
LEMMA PlayClosesAll ==
    ASSUME Play, NEW U \in SUBSET Users, NEW seat \in {"rebound", "gone"},
           NEW closes \in BOOLEAN, CloseAllMedia(U, seat, closes),
           \A v \in Users : seated'[v] => seated[v],
           \A v \in Users : seated'[v] =>
              \A u \in Users \ U, s \in Sources :
                 <<u, s>> \in known[v] /\ producers[u][s] # "none" => <<u, s>> \in known'[v],
           \A u \in Users \ U : audioMuted'[u] = audioMuted[u] /\ videoEnabled'[u] = videoEnabled[u]
    PROVE  Ordered' /\ LiveIsKnown' /\ OffMeansOff'
  <1>1. MediaInv /\ Ordered /\ LiveIsKnown /\ OffMeansOff
    BY DEF Play
  <1>2. /\ \A u \in U, s \in Sources : producers'[u][s] = "none"
        /\ \A u \in Users \ U : producers'[u] = producers[u]
    BY DEF CloseAllMedia, ClosedProducers, NoMedia
  <1>3. /\ Ordered'
        /\ \A q : q.user \notin U /\ q.kind # "createTransport" /\ Under(q) =>
             \E i \in 1..Len(channel') : channel'[i] = q
    BY <1>1, OrderedClosesAll
  <1>4. StillAsked
    <2> SUFFICES ASSUME NEW u \in Users, NEW s \in Sources, Under(Observe(u, s)),
                        producers'[u][s] # "none"
                 PROVE  \E i \in 1..Len(channel') : channel'[i] = Observe(u, s)
      BY DEF StillAsked, Under
    <2>1. u \notin U
      BY <1>2
    <2>2. Observe(u, s).user = u /\ Observe(u, s).kind = "observe"
      BY DEF Observe, Request
    <2> QED BY <1>3, <2>1, <2>2
  <1>5. \A u \in Users, s \in Sources : producers'[u][s] # "none" => u \notin U /\ producers[u][s] # "none"
    BY <1>2
  <1>6. "mic" \in Sources /\ "cam" \in Sources
    BY DEF Sources
  <1>7. \A u \in Users : seated'[u] =>
          /\ audioMuted'[u] /\ producers'[u]["mic"] = "on" =>
                audioMuted[u] /\ producers[u]["mic"] = "on"
          /\ ~videoEnabled'[u] /\ producers'[u]["cam"] = "on" =>
                ~videoEnabled[u] /\ producers[u]["cam"] = "on"
    BY <1>2, <1>6
  <1>8. \A v \in Users : seated'[v] =>
          \A u \in Users, s \in Sources :
             <<u, s>> \in known[v] => <<u, s>> \in known'[v] \/ producers'[u][s] = "none"
    BY <1>5
  <1> QED BY <1>1, <1>3, <1>4, <1>5, <1>7, <1>8, PropsKept

LEMMA PlayRejoins ==
    ASSUME Play, NEW u \in Users, Rejoin(u)
    PROVE  Play'
  <1>1. MediaInv /\ MediaInv'
    BY Rejoins DEF Play
  <1>2. /\ CloseAllMedia({u}, "rebound", FALSE) /\ UNCHANGED seated
        /\ known' = [known EXCEPT ![u] = ListedFor(u)]
        /\ audioMuted' = [audioMuted EXCEPT ![u] = TRUE]
        /\ videoEnabled' = [videoEnabled EXCEPT ![u] = FALSE]
    BY DEF Rejoin
  <1>3. \A v \in Users \ {u} : audioMuted'[v] = audioMuted[v] /\ videoEnabled'[v] = videoEnabled[v]
    BY <1>1, <1>2, InvParts DEF Shapes
  <1>4. ASSUME NEW v \in Users, NEW w \in Users \ {u}, NEW s \in Sources,
               <<w, s>> \in known[v], producers[w][s] # "none"
        PROVE  <<w, s>> \in known'[v]
    <2>1. CASE v = u
      <3>1. <<w, s>> \in LiveOf(w)
        BY <1>4 DEF LiveOf, Producers
      <3>2. <<w, s>> \in ListedFor(u)
        BY <3>1 DEF ListedFor, ListedOf
      <3> QED BY <1>1, <1>2, <2>1, <3>2, InvParts DEF Shapes
    <2>2. CASE v # u
      BY <1>1, <1>2, <1>4, <2>2, InvParts DEF Shapes
    <2> QED BY <2>1, <2>2
  <1> DEFINE U == {u}
  <1>5. /\ U \in SUBSET Users /\ CloseAllMedia(U, "rebound", FALSE)
        /\ \A v \in Users : seated'[v] => seated[v]
        /\ \A v \in Users \ U : audioMuted'[v] = audioMuted[v] /\ videoEnabled'[v] = videoEnabled[v]
    BY <1>2, <1>3
  <1>6. \A v \in Users : seated'[v] =>
          \A w \in Users \ U, s \in Sources :
             <<w, s>> \in known[v] /\ producers[w][s] # "none" => <<w, s>> \in known'[v]
    BY <1>4
  <1> HIDE DEF U
  <1>7. Ordered' /\ LiveIsKnown' /\ OffMeansOff'
    BY <1>5, <1>6, PlayClosesAll
  <1> QED BY <1>1, <1>7 DEF Play

LEMMA PlayLeaves ==
    ASSUME Play, \/ \E u \in Users : FinalizeLeave(u) \/ Kick(u)
                 \/ EndMeeting
    PROVE  Play'
  <1>1. MediaInv /\ MediaInv'
    BY Leaves DEF Play
  <1>2. PICK U \in SUBSET Users, closes \in BOOLEAN : Vacate(U, closes)
    BY DEF FinalizeLeave, Kick, EndMeeting
  <1>3. /\ CloseAllMedia(U, "gone", closes)
        /\ \A v \in Users : seated'[v] => seated[v] /\ v \notin U
        /\ known' = [v \in Users |-> IF v \in U THEN {} ELSE {p \in known[v] : p[1] \notin U}]
        /\ audioMuted' = [u \in Users |-> audioMuted[u] \/ u \in U]
        /\ videoEnabled' = [u \in Users |-> videoEnabled[u] /\ u \notin U]
    BY <1>2 DEF Vacate
  <1>4. \A u \in Users \ U : audioMuted'[u] = audioMuted[u] /\ videoEnabled'[u] = videoEnabled[u]
    BY <1>1, <1>3, InvParts DEF Shapes
  <1>5. \A v \in Users : seated'[v] =>
          \A u \in Users \ U, s \in Sources :
             <<u, s>> \in known[v] /\ producers[u][s] # "none" => <<u, s>> \in known'[v]
    BY <1>3
  <1>6. Ordered' /\ LiveIsKnown' /\ OffMeansOff'
    <2>1. CASE closes = TRUE
      <3>1. CloseAllMedia(U, "gone", TRUE)
        BY <1>3, <2>1
      <3> QED BY <1>3, <1>4, <1>5, <3>1, PlayClosesAll
    <2>2. CASE closes = FALSE
      <3>1. CloseAllMedia(U, "gone", FALSE)
        BY <1>3, <2>2
      <3> QED BY <1>3, <1>4, <1>5, <3>1, PlayClosesAll
    <2> QED BY <2>1, <2>2
  <1> QED BY <1>1, <1>6 DEF Play

(* Steps after which the same media is there, seen by the same clients.    *)
LEMMA PlayAsks ==
    ASSUME Play, MediaInv', UNCHANGED <<seated, producers, known>>,
           \/ channel' = channel
           \/ \E r : Plain(r) /\ channel' = Append(channel, r),
           \A u \in Users : seated[u] =>
              /\ audioMuted'[u] /\ producers[u]["mic"] = "on" => audioMuted[u]
              /\ ~videoEnabled'[u] /\ producers[u]["cam"] = "on" => ~videoEnabled[u]
    PROVE  Play'
  <1>1. MediaInv /\ Ordered /\ LiveIsKnown /\ OffMeansOff
    BY DEF Play
  <1>2. Live' = Live
    BY DEF Live
  <1>3. Ordered'
    BY <1>1, <1>2, OrderedWaits, OrderedAsks
  <1>4. StillAsked
    <2>1. channel' = channel \/ \E r \in Requests : channel' = Append(channel, r)
      BY DEF Plain
    <2> QED BY <1>1, <2>1, StillAskedOnward
  <1> QED BY <1>1, <1>3, <1>4, PropsKept DEF Play

LEMMA PlayStreams ==
    ASSUME Play, NEW u \in Users, Streams(u)
    PROVE  Play'
  <1>1. MediaInv /\ MediaInv'
    BY Streaming DEF Play
  <1>2. CASE CreateTransport(u)
    <2> DEFINE r == [kind |-> "createTransport", user |-> u, of |-> {}, seat |-> "current"]
    <2>1. /\ r \in Requests /\ r.kind = "createTransport" /\ r.of = {}
          /\ r.seat = "current"
      BY DEF Requests, Kinds
    <2>2. channel' = Append(channel, r)
          /\ UNCHANGED <<seated, producers, known, audioMuted, videoEnabled>>
      BY <1>2 DEF CreateTransport, Send, mediaVars, flagVars
    <2> HIDE DEF r
    <2>3. Plain(r)
      BY <2>1 DEF Plain, Own, Past
    <2> QED BY <1>1, <2>2, <2>3, PlayAsks
  <1>3. ASSUME NEW p \in Producers, Consume(u, p)
        PROVE  Play'
    <2> DEFINE r == Request("consume", u, p)
    <2>1. r \in Requests /\ r.kind = "consume" /\ r.seat = "current"
      BY RequestType DEF Kinds
    <2>2. channel' = Append(channel, r)
          /\ UNCHANGED <<seated, producers, known, audioMuted, videoEnabled>>
      BY <1>3 DEF Consume, Send, mediaVars, flagVars
    <2> HIDE DEF r
    <2>3. Plain(r)
      BY <2>1 DEF Plain, Own, Past
    <2> QED BY <1>1, <2>2, <2>3, PlayAsks
  <1>4. ASSUME NEW s \in Sources, Produce(u, s)
        PROVE  Play'
    <2> DEFINE p == <<u, s>>
               r == Request("produce", u, p)
    <2>1. "produce" \in Kinds /\ p \in Producers
      BY DEF Kinds, Producers
    <2>2. r \in Requests /\ r.kind = "produce" /\ Own(r) /\ r.of = {p} /\ r.seat = "current"
      BY <2>1, RequestType, OwnAbout
    <2>3. /\ channel' = Append(channel, r)
          /\ UNCHANGED <<seated, producers, known, audioMuted, videoEnabled>>
          /\ producers[u][s] = "none" /\ \A i \in 1..Len(channel) : channel[i] # r
      BY <1>4 DEF Produce, Send, mediaVars, flagVars, Free, Under
    <2>4. channel \in Seq(Requests) /\ \A i \in 1..Len(channel) : channel[i] \in Requests
      BY <1>1, InvParts
    <2>5. ASSUME NEW j \in 1..Len(channel), Starts(channel[j], p)
          PROVE  FALSE
      <3>1. channel[j] \in Requests /\ Own(channel[j])
        BY <2>4 DEF Play, Ordered, Sessions
      <3>2. /\ channel[j].kind = "produce" /\ channel[j].seat = "current"
            /\ channel[j].of = {p} /\ channel[j].user = u
        BY <2>5, <3>1 DEF Starts, Own
      <3>3. channel[j] = [kind |-> "produce", user |-> u, of |-> {p}, seat |-> "current"]
        BY <3>1, <3>2 DEF Requests
      <3>4. channel[j] = r
        BY <3>3 DEF Request
      <3> QED BY <2>3, <3>4
    <2>6. p \notin Live
      BY <2>3 DEF Live
    <2>7. Live' = Live
      BY <2>3 DEF Live
    <2> HIDE DEF p, r
    <2>8. Sessions(Append(channel, r), Live)
      BY <2>2, <2>4, <2>5, <2>6, OrderedAppend DEF Play, Ordered, Past
    <2>9. Ordered'
      BY <2>3, <2>7, <2>8, OrderedIs
    <2>10. StillAsked
      BY <1>1, <2>2, <2>3, StillAskedOnward
    <2> QED BY <1>1, <2>3, <2>9, <2>10, PropsKept DEF Play
  <1> QED BY <1>2, <1>3, <1>4 DEF Streams

LEMMA PlayPauses ==
    ASSUME Play, NEW u \in Users, NEW s \in Sources,
           PauseProducer(u, s) \/ ResumeProducer(u, s)
    PROVE  Play'
  <1>1. MediaInv /\ MediaInv'
    BY Pausing DEF Play
  <1>2. /\ UNCHANGED <<seated, producers, known>> /\ producers[u][s] # "none"
        /\ \/ /\ UNCHANGED <<audioMuted, videoEnabled>>
              /\ \E kind \in {"pause", "resume"} :
                    channel' = Append(channel, Request(kind, u, <<u, s>>))
           \/ /\ channel' = channel
              /\ producers[u][s] # "on" /\ ApplyStateChange(u, s, TRUE)
           \/ /\ channel' = channel
              /\ ApplyStateChange(u, s, FALSE)
    BY DEF PauseProducer, ResumeProducer, Send, mediaVars
  <1>3. ASSUME UNCHANGED <<audioMuted, videoEnabled>>, NEW kind \in {"pause", "resume"},
               channel' = Append(channel, Request(kind, u, <<u, s>>))
        PROVE  Play'
    <2>1. Plain(Request(kind, u, <<u, s>>))
      BY PlainAbout DEF Kinds
    <2> QED BY <1>1, <1>2, <1>3, <2>1, PlayAsks
  <1>4. ASSUME channel' = channel, producers[u][s] # "on", ApplyStateChange(u, s, TRUE)
        PROVE  Play'
    <2>1. \A v \in Users :
            /\ audioMuted'[v] /\ producers[v]["mic"] = "on" => audioMuted[v]
            /\ ~videoEnabled'[v] /\ producers[v]["cam"] = "on" => ~videoEnabled[v]
      BY <1>1, <1>4, InvParts DEF ApplyStateChange, Shapes
    <2> QED BY <1>1, <1>2, <1>4, <2>1, PlayAsks
  <1>5. ASSUME channel' = channel, ApplyStateChange(u, s, FALSE)
        PROVE  Play'
    <2>1. \A v \in Users :
            /\ audioMuted'[v] => audioMuted[v]
            /\ ~videoEnabled'[v] => ~videoEnabled[v]
      BY <1>1, <1>5, InvParts DEF ApplyStateChange, Shapes
    <2> QED BY <1>1, <1>2, <1>5, <2>1, PlayAsks
  <1> QED BY <1>2, <1>3, <1>4, <1>5

(* One producer of u closes, or none.                                      *)
LEMMA PlayCloses ==
    ASSUME Play, MediaInv', NEW u \in Users, NEW s \in Sources, NEW P \in SUBSET {<<u, s>>},
           UNCHANGED seated, P \subseteq Live, producers' = [producers EXCEPT ![u][s] = "none"],
           channel' = Notified(channel, P),
           \A v \in Users : known[v] \ {<<u, s>>} \subseteq known'[v],
           \A v \in Users :
              /\ v # u \/ s # "mic" => audioMuted'[v] = audioMuted[v]
              /\ v # u \/ s # "cam" => videoEnabled'[v] = videoEnabled[v]
    PROVE  Play'
  <1>1. MediaInv /\ Ordered /\ LiveIsKnown /\ OffMeansOff
    BY DEF Play
  <1>2. /\ producers'[u][s] = "none"
        /\ \A v \in Users, t \in Sources : v # u \/ t # s => producers'[v][t] = producers[v][t]
    BY <1>1, InvParts DEF Shapes
  <1>3. \A v \in Users, t \in Sources : producers'[v][t] # "none" => producers[v][t] # "none"
    BY <1>2
  <1> DEFINE closed == <<u, s>>
  <1>4. closed[1] = u /\ closed[2] = s /\ P \subseteq {closed}
    OBVIOUS
  <1> HIDE DEF closed
  <1>5. Live' \subseteq Live \ P
    <2> SUFFICES ASSUME NEW p \in Live' PROVE p \in Live /\ p \notin P
      OBVIOUS
    <2>1. p \in Producers /\ p[1] \in Users /\ p[2] \in Sources /\ producers'[p[1]][p[2]] # "none"
      BY DEF Live, Producers
    <2>2. p # closed
      BY <1>2, <1>4, <2>1
    <2> QED BY <1>3, <1>4, <2>1, <2>2 DEF Live
  <1>6. Ordered'
    BY <1>1, <1>5, OrderedCloses
  <1>7. StillAsked
    <2>1. P \in SUBSET Producers
      BY DEF Live
    <2> QED BY <1>1, <2>1, StillAskedOnward
  <1>8. \A v \in Users, w \in Users, t \in Sources :
          <<w, t>> \in known[v] => <<w, t>> \in known'[v] \/ producers'[w][t] = "none"
    BY <1>2
  <1>9. \A v \in Users :
          /\ audioMuted'[v] /\ producers'[v]["mic"] = "on" =>
                audioMuted[v] /\ producers[v]["mic"] = "on"
          /\ ~videoEnabled'[v] /\ producers'[v]["cam"] = "on" =>
                ~videoEnabled[v] /\ producers[v]["cam"] = "on"
    BY <1>2 DEF Sources
  <1>10. \A v \in Users : seated'[v] => seated[v]
    OBVIOUS
  <1>11. LiveIsKnown' /\ OffMeansOff'
    BY <1>1, <1>3, <1>7, <1>8, <1>9, <1>10, PropsKept
  <1> QED BY <1>6, <1>11 DEF Play

LEMMA PlayClosesProducer ==
    ASSUME Play, NEW u \in Users, NEW s \in Sources, CloseProducer(u, s)
    PROVE  Play'
  <1>1. MediaInv /\ MediaInv'
    BY ClosesProducer DEF Play
  <1> DEFINE P == {<<u, s>>}
  <1>2. /\ UNCHANGED seated /\ producers' = [producers EXCEPT ![u][s] = "none"]
        /\ channel' = Notified(channel, P) /\ producers[u][s] # "none"
        /\ known' = [v \in Users |-> known[v] \ {<<u, s>>}]
        /\ ApplyStateChange(u, s, TRUE)
    BY DEF CloseProducer
  <1>3. P \subseteq Live /\ P \in SUBSET {<<u, s>>}
    BY <1>2 DEF Live, Producers
  <1>4. \A v \in Users :
          /\ v # u \/ s # "mic" => audioMuted'[v] = audioMuted[v]
          /\ v # u \/ s # "cam" => videoEnabled'[v] = videoEnabled[v]
    BY <1>1, <1>2, InvParts DEF ApplyStateChange, Shapes
  <1>5. \A v \in Users : known[v] \ {<<u, s>>} \subseteq known'[v]
    BY <1>2
  <1> HIDE DEF P
  <1> QED BY <1>1, <1>2, <1>3, <1>4, <1>5, PlayCloses

LEMMA PlayScreenOff ==
    ASSUME Play, MediaInv', NEW u \in Users,
           producers' = [producers EXCEPT ![u]["screen"] = "none"],
           UNCHANGED <<seated, audioMuted, videoEnabled, known>>,
           channel' = Notified(channel, LiveOf(u) \cap {<<u, "screen">>})
    PROVE  Play'
  <1> DEFINE P == LiveOf(u) \cap {<<u, "screen">>}
  <1>1. "screen" \in Sources /\ P \in SUBSET {<<u, "screen">>}
    BY DEF Sources
  <1>2. P \subseteq Live
    BY DEF LiveOf, Live
  <1>3. channel' = Notified(channel, P)
    OBVIOUS
  <1> HIDE DEF P
  <1> QED BY <1>1, <1>2, <1>3, PlayCloses

(* Nobody loses a live producer from its list with a stopped one.          *)
LEMMA PlayClosesStopped ==
    ASSUME Play, NEW u \in Users, CloseStopped(u)
    PROVE  Play'
  <1>1. MediaInv /\ MediaInv' /\ Ordered /\ LiveIsKnown /\ OffMeansOff
    BY ClosesStopped DEF Play
  <1>2. UNCHANGED <<seated, producers, audioMuted, videoEnabled, channel>>
    BY DEF CloseStopped
  <1>3. \A v, w \in Users : \A s \in Sources :
          <<w, s>> \in known[v] => <<w, s>> \in known'[v] \/ producers[w][s] = "none"
    BY DEF CloseStopped
  <1>4. Live' = Live
    BY <1>2 DEF Live
  <1>5. Ordered'
    BY <1>1, <1>2, <1>4, OrderedWaits
  <1>6. StillAsked
    BY <1>1, <1>2, StillAskedOnward
  <1>7. LiveIsKnown' /\ OffMeansOff'
    BY <1>1, <1>2, <1>3, <1>6, PropsKept
  <1> QED BY <1>1, <1>5, <1>7 DEF Play

LEMMA PlayControls ==
    ASSUME Play, NEW u \in Users, Controls(u)
    PROVE  Play'
  <1>1. MediaInv /\ MediaInv'
    BY Controlling DEF Play
  <1>2. CASE StartScreenShare(u)
    BY <1>1, <1>2, PlayAsks DEF StartScreenShare, mediaVars, flagVars
  <1>3. CASE StopScreenShare(u)
    BY <1>1, <1>3, PlayScreenOff DEF StopScreenShare
  <1>4. CASE ControlStopped(u)
    BY <1>1, <1>4, PlayAsks DEF ControlStopped, vars, mediaVars, flagVars
  <1> QED BY <1>2, <1>3, <1>4, PlayPauses, PlayClosesProducer, PlayClosesStopped DEF Controls

LEMMA PlayFeatures ==
    ASSUME Play, EnableScreenShare \/ DisableScreenShare
    PROVE  Play'
  <1>1. MediaInv /\ MediaInv'
    BY Features DEF Play
  <1>2. CASE EnableScreenShare
    BY <1>1, <1>2, PlayAsks DEF EnableScreenShare, mediaVars, flagVars
  <1>3. CASE DisableScreenShare
    <2>1. CASE activePresenterId = NoUser \/ ~seated[activePresenterId]
      <3>1. UNCHANGED <<seated, producers, known, channel, audioMuted, videoEnabled>>
        BY <1>3, <2>1 DEF DisableScreenShare
      <3> QED BY <1>1, <3>1, PlayAsks
    <2>2. CASE activePresenterId # NoUser /\ seated[activePresenterId]
      <3>1. PICK u \in Users : u = activePresenterId
        BY <1>1, <2>2, InvParts DEF Shapes
      <3>2. /\ producers' = [producers EXCEPT ![u]["screen"] = "none"]
            /\ UNCHANGED <<seated, audioMuted, videoEnabled, known>>
            /\ channel' = Notified(channel, LiveOf(u) \cap {<<u, "screen">>})
        BY <1>3, <2>2, <3>1 DEF DisableScreenShare, StoppedScreen
      <3> QED BY <1>1, <3>2, PlayScreenOff
    <2> QED BY <2>1, <2>2
  <1> QED BY <1>2, <1>3

LEMMA MuteLoopPlays ==
    ASSUME MediaInv, NEW u \in Users, NEW mic, NEW rest, MuteLoop(u, mic, rest)
    PROVE  /\ channel' = rest \/ \E r : Plain(r) /\ channel' = Append(rest, r)
           /\ \A v \in Users : audioMuted'[v] => audioMuted[v] \/ (v = u /\ mic # "on")
  <1>1. Plain(Request("mute", u, <<u, "mic">>))
    BY PlainAbout DEF Kinds, Sources
  <1>2. \/ channel' = rest
        \/ channel' = Append(rest, Request("mute", u, <<u, "mic">>))
    BY DEF MuteLoop
  <1>3. \/ UNCHANGED audioMuted
        \/ mic # "on" /\ audioMuted' = [audioMuted EXCEPT ![u] = TRUE]
    BY DEF MuteLoop, ToPause
  <1>4. \A v \in Users : audioMuted'[v] => audioMuted[v] \/ (v = u /\ mic # "on")
    BY <1>3, InvParts DEF Shapes
  <1> QED BY <1>1, <1>2, <1>4

LEMMA PlayMutes ==
    ASSUME Play, NEW u \in Users, Mute(u)
    PROVE  Play'
  <1>1. MediaInv /\ MediaInv'
    BY Mutes DEF Play
  <1>2. /\ MuteLoop(u, producers[u]["mic"], channel)
        /\ UNCHANGED <<seated, producers, known, videoEnabled>>
    BY DEF Mute, mediaVars
  <1>3. /\ channel' = channel \/ \E r : Plain(r) /\ channel' = Append(channel, r)
        /\ \A v \in Users : audioMuted'[v] => audioMuted[v] \/ (v = u /\ producers[u]["mic"] # "on")
    BY <1>1, <1>2, MuteLoopPlays
  <1> QED BY <1>1, <1>2, <1>3, PlayAsks

(* An answer that brings no producer, or not yet to anybody's knowledge.   *)
LEMMA PlayAnswers ==
    ASSUME Play, MediaInv', channel # <<>>,
           Head(channel).kind # "observe" \/ Head(channel).seat # "current",
           UNCHANGED seated,
           \A u \in Users, s \in Sources : producers'[u][s] # "none" => producers[u][s] # "none",
           channel' = Tail(channel) \/ \E r : Plain(r) /\ channel' = Append(Tail(channel), r),
           \A v \in Users :
              \A u \in Users, s \in Sources :
                 <<u, s>> \in known[v] => <<u, s>> \in known'[v] \/ producers'[u][s] = "none",
           \A u \in Users :
              /\ audioMuted'[u] /\ producers'[u]["mic"] = "on" =>
                    audioMuted[u] /\ producers[u]["mic"] = "on"
              /\ ~videoEnabled'[u] /\ producers'[u]["cam"] = "on" =>
                    ~videoEnabled[u] /\ producers[u]["cam"] = "on"
    PROVE  Play'
  <1>1. MediaInv /\ Ordered /\ LiveIsKnown /\ OffMeansOff
    BY DEF Play
  <1>2. \A p \in Live' : p \in Live
    BY DEF Live, Producers
  <1>3. Ordered'
    BY <1>1, <1>2, OrderedAnswers
  <1>4. StillAsked
    <2>1. channel' = Tail(channel) \/ \E r \in Requests : channel' = Append(Tail(channel), r)
      BY DEF Plain
    <2> QED BY <1>1, <2>1, StillAskedAnswer
  <1>5. LiveIsKnown' /\ OffMeansOff'
    BY <1>1, <1>4, PropsKept
  <1> QED BY <1>3, <1>5 DEF Play

(* Answers that change nothing clients see.                                *)
LEMMA PlayQuietAnswers ==
    ASSUME Play, Refused \/ TransportCreated \/ Consumed
    PROVE  Play'
  <1>1. MediaInv /\ MediaInv'
    BY Refusals, TransportAnswers, ConsumeAnswers DEF Play
  <1>2. /\ channel # <<>> /\ Head(channel).kind # "observe" /\ channel' = Tail(channel)
        /\ UNCHANGED <<seated, producers, known, audioMuted, videoEnabled>>
    BY DEF Refused, TransportCreated, Consumed, Answers, Answered, mediaVars, flagVars
  <1> QED BY <1>1, <1>2, PlayAnswers

(* A notice is only of producers that are gone.                            *)
LEMMA PlayNotices ==
    ASSUME Play, ProducerClosed
    PROVE  Play'
  <1>1. MediaInv /\ MediaInv'
    BY Notices DEF Play
  <1>2. /\ channel # <<>> /\ Head(channel).kind = "producerclose" /\ channel' = Tail(channel)
        /\ UNCHANGED <<seated, producers, audioMuted, videoEnabled>>
        /\ known' = [v \in Users |-> known[v] \ (consumers[v] \cap Head(channel).of)]
    BY DEF ProducerClosed, Answers, Answered, Forgotten, flagVars
  <1>3. \A p \in Head(channel).of : p \notin Live
    <2>1. 1 \in 1..Len(channel) /\ Head(channel) = channel[1]
      BY <1>1, <1>2, InvParts
    <2> QED BY <1>2, <2>1 DEF Play, Ordered, Sessions, Past
  <1>4. \A u \in Users, s \in Sources : producers[u][s] # "none" => <<u, s>> \notin Head(channel).of
    BY <1>3 DEF Live, Producers
  <1>5. \A v \in Users :
          \A u \in Users, s \in Sources :
             <<u, s>> \in known[v] => <<u, s>> \in known'[v] \/ producers'[u][s] = "none"
    BY <1>2, <1>4
  <1> QED BY <1>1, <1>2, <1>5, PlayAnswers

(* What a call is about, when it is answered.                              *)
LEMMA HeadOwns ==
    ASSUME Play, channel # <<>>,
           Head(channel).kind \notin {"producerclose", "consume", "createTransport"}
    PROVE  /\ Asker \in Users /\ Subject[2] \in Sources /\ Subject = <<Asker, Subject[2]>>
           /\ Head(channel).of = {Subject} /\ Subject \in Producers
           /\ Head(channel).kind = "observe" => Subject = <<Asker, "mic">>
           /\ Past(Head(channel)) => producers[Asker][Subject[2]] = "none"
  <1> DEFINE r == Head(channel)
  <1>1. MediaInv
    BY DEF Play
  <1>2. 1 \in 1..Len(channel) /\ r = channel[1]
    BY <1>1, InvParts
  <1>3. Entry(r, seated)
    BY <1>1, TaggedHead DEF MediaInv
  <1>4. Own(r) /\ \A p \in r.of : Past(r) => p \notin Live
    BY <1>2 DEF Play, Ordered, Sessions
  <1>5. Asker = r.user /\ Subject = CHOOSE p \in r.of : TRUE
    BY DEF Asker, Subject
  <1> HIDE DEF r
  <1>6. r.user \in Users /\ r.of \in SUBSET Producers /\ r.of # {}
    BY <1>3 DEF Entry, Requests, r
  <1>7. Subject \in r.of
    BY <1>5, <1>6
  <1>8. Subject \in Producers /\ r.of = {Subject} /\ Subject[1] = r.user
        /\ (r.kind = "observe" => Subject = <<r.user, "mic">>)
    BY <1>4, <1>6, <1>7 DEF Own, r
  <1>9. Subject = <<Subject[1], Subject[2]>> /\ Subject[2] \in Sources
    BY <1>8 DEF Producers
  <1>10. Past(r) => producers[r.user][Subject[2]] = "none"
    BY <1>4, <1>7, <1>8 DEF Live
  <1> QED BY <1>5, <1>6, <1>8, <1>9, <1>10 DEF r

LEMMA PlayPauseAnswers ==
    ASSUME Play, PauseAnswered
    PROVE  Play'
  <1> DEFINE u == Asker
             s == Subject[2]
             paused == Head(channel).kind = "pause"
  <1>1. MediaInv /\ MediaInv'
    BY PauseAnswers DEF Play
  <1>2. /\ channel # <<>> /\ Head(channel).kind \in {"pause", "resume"} /\ channel' = Tail(channel)
        /\ Head(channel).kind # "observe"
    BY DEF PauseAnswered, Answered
  <1>3. /\ producers' = IF Seat = "current" /\ producers[u][s] # "none"
                        THEN [producers EXCEPT ![u][s] = IF paused THEN "paused" ELSE "on"]
                        ELSE producers
        /\ IF Seat = "gone" THEN UNCHANGED <<audioMuted, videoEnabled>>
           ELSE ApplyStateChange(u, s, paused)
        /\ UNCHANGED <<seated, known>>
    BY DEF PauseAnswered
  <1>4. /\ u \in Users /\ s \in Sources /\ paused \in BOOLEAN
        /\ Seat # "current" => producers[u][s] = "none"
    BY <1>2, HeadOwns DEF Past, Seat
  <1> HIDE DEF u, s, paused
  <1>5. /\ \A v \in Users, t \in Sources :
              \/ producers'[v][t] = producers[v][t]
              \/ v = u /\ t = s /\ producers[v][t] # "none"
        /\ producers'[u][s] \in {"none", IF paused THEN "paused" ELSE "on"}
    BY <1>1, <1>3, <1>4, InvParts DEF Shapes
  <1>6. \A v \in Users, t \in Sources : producers'[v][t] # "none" => producers[v][t] # "none"
    BY <1>5
  <1>7. \A v \in Users :
          /\ audioMuted'[v] = audioMuted[v] \/ (v = u /\ s = "mic" /\ audioMuted'[v] = paused)
          /\ videoEnabled'[v] = videoEnabled[v] \/ (v = u /\ s = "cam" /\ videoEnabled'[v] = ~paused)
    BY <1>1, <1>3, <1>4, InvParts DEF ApplyStateChange, Shapes
  <1>8. /\ producers'[u][s] = "on" => ~paused
        /\ Seat # "gone" /\ s = "mic" => audioMuted'[u] = paused
        /\ Seat # "gone" /\ s = "cam" => videoEnabled'[u] = ~paused
        /\ Seat = "gone" => producers' = producers
    BY <1>1, <1>3, <1>4, <1>5, InvParts DEF ApplyStateChange, Shapes
  <1>9. ASSUME NEW v \in Users, audioMuted'[v], producers'[v]["mic"] = "on"
        PROVE  audioMuted[v] /\ producers[v]["mic"] = "on"
    <2>1. CASE v = u /\ s = "mic"
      <3>1. ~paused
        BY <1>8, <1>9, <2>1
      <3>2. Seat = "gone"
        BY <1>8, <1>9, <2>1, <3>1
      <3> QED BY <1>4, <1>8, <1>9, <2>1, <3>2
    <2>2. CASE ~(v = u /\ s = "mic")
      BY <1>5, <1>7, <1>9, <2>2 DEF Sources
    <2> QED BY <2>1, <2>2
  <1>10. ASSUME NEW v \in Users, ~videoEnabled'[v], producers'[v]["cam"] = "on"
         PROVE  ~videoEnabled[v] /\ producers[v]["cam"] = "on"
    <2>1. CASE v = u /\ s = "cam"
      <3>1. ~paused
        BY <1>8, <1>10, <2>1
      <3>2. Seat = "gone"
        BY <1>8, <1>10, <2>1, <3>1
      <3> QED BY <1>4, <1>8, <1>10, <2>1, <3>2
    <2>2. CASE ~(v = u /\ s = "cam")
      BY <1>5, <1>7, <1>10, <2>2 DEF Sources
    <2> QED BY <2>1, <2>2
  <1> QED BY <1>1, <1>2, <1>3, <1>6, <1>9, <1>10, PlayAnswers

LEMMA PlayMuteAnswers ==
    ASSUME Play, MuteAnswered
    PROVE  Play'
  <1> DEFINE u == Asker
             mic == IF Seat = "current" /\ producers[u]["mic"] # "none"
                    THEN "paused" ELSE producers[u]["mic"]
  <1>1. MediaInv /\ MediaInv'
    BY MuteAnswers DEF Play
  <1>2. channel # <<>> /\ Head(channel).kind = "mute" /\ Head(channel).kind # "observe"
    BY DEF MuteAnswered, Answers
  <1>3. u \in Users /\ "mic" \in Sources /\ "cam" \in Sources
    BY <1>2, HeadOwns DEF Sources
  <1>4. /\ \/ channel' = Tail(channel) /\ UNCHANGED <<producers, audioMuted>>
           \/ /\ producers' = [producers EXCEPT ![u]["mic"] = mic]
              /\ MuteLoop(u, mic, Tail(channel))
        /\ UNCHANGED <<seated, known, videoEnabled>>
    BY DEF MuteAnswered, Answered
  <1>5. mic = producers[u]["mic"] \/ (mic = "paused" /\ producers[u]["mic"] # "none")
    OBVIOUS
  <1> HIDE DEF u, mic
  <1>6. CASE channel' = Tail(channel) /\ UNCHANGED <<producers, audioMuted>>
    BY <1>1, <1>2, <1>4, <1>6, PlayAnswers
  <1>7. CASE /\ producers' = [producers EXCEPT ![u]["mic"] = mic]
             /\ MuteLoop(u, mic, Tail(channel))
    <2>1. /\ channel' = Tail(channel) \/ \E r : Plain(r) /\ channel' = Append(Tail(channel), r)
          /\ \A v \in Users : audioMuted'[v] => audioMuted[v] \/ (v = u /\ mic # "on")
      BY <1>1, <1>3, <1>7, MuteLoopPlays
    <2>2. /\ producers'[u]["mic"] = mic
          /\ \A v \in Users, t \in Sources :
                v # u \/ t # "mic" => producers'[v][t] = producers[v][t]
      BY <1>1, <1>3, <1>7, InvParts DEF Shapes
    <2>3. \A v \in Users, t \in Sources : producers'[v][t] # "none" => producers[v][t] # "none"
      BY <1>5, <2>2
    <2>4. ASSUME NEW v \in Users
          PROVE  /\ audioMuted'[v] /\ producers'[v]["mic"] = "on" =>
                       audioMuted[v] /\ producers[v]["mic"] = "on"
                 /\ ~videoEnabled'[v] /\ producers'[v]["cam"] = "on" =>
                       ~videoEnabled[v] /\ producers[v]["cam"] = "on"
      <3>1. CASE v = u
        BY <1>3, <1>4, <1>5, <2>1, <2>2, <3>1
      <3>2. CASE v # u
        BY <1>3, <1>4, <2>1, <2>2, <3>2
      <3> QED BY <3>1, <3>2
    <2> QED BY <1>1, <1>2, <1>4, <2>1, <2>3, <2>4, PlayAnswers
  <1> QED BY <1>4, <1>6, <1>7

(* Whoever hears of it learns of one producer more.                        *)
LEMMA AnnounceTells ==
    ASSUME MediaInv, NEW u \in Users, NEW s \in Sources, Announce(u, s)
    PROVE  /\ \A v \in Users : known[v] \subseteq known'[v]
           /\ \A v \in Users : seated[v] /\ v # u => <<u, s>> \in known'[v]
  BY DEF Announce

(* The observer has answered: the microphone is announced, and no longer   *)
(* muted.                                                                  *)
LEMMA PlayObserves ==
    ASSUME Play, Observed
    PROVE  Play'
  <1> DEFINE u == Asker
  <1>1. MediaInv /\ MediaInv' /\ LiveIsKnown /\ OffMeansOff /\ Ordered
    BY ObserveAnswers DEF Play
  <1>2. /\ channel # <<>> /\ Head(channel).kind = "observe" /\ channel' = Tail(channel)
        /\ audioMuted' = IF Seat = "gone" THEN audioMuted ELSE [audioMuted EXCEPT ![u] = FALSE]
        /\ Announce(u, "mic")
        /\ UNCHANGED <<seated, producers, videoEnabled>>
    BY DEF Observed, Answers, Answered, mediaVars
  <1>3. u \in Users /\ Head(channel).of = {<<u, "mic">>} /\ "mic" \in Sources /\ "cam" \in Sources
    BY <1>2, HeadOwns DEF Sources
  <1> HIDE DEF u
  <1>4. /\ \A v \in Users : known[v] \subseteq known'[v]
        /\ \A v \in Users : seated[v] /\ v # u => <<u, "mic">> \in known'[v]
    BY <1>1, <1>2, <1>3, AnnounceTells
  <1>5. /\ \A v \in Users : audioMuted'[v] => audioMuted[v]
        /\ Seat # "gone" => ~audioMuted'[u]
    BY <1>1, <1>2, <1>3, InvParts DEF Shapes
  <1>6. CASE Head(channel).seat # "current"
    BY <1>1, <1>2, <1>4, <1>5, <1>6, PlayAnswers
  <1>7. CASE Head(channel).seat = "current"
    <2>1. \A v \in Users, t \in Sources :
            v # u \/ t # "mic" => Observe(v, t) # Head(channel)
      <3> SUFFICES ASSUME NEW v \in Users, NEW t \in Sources, Observe(v, t) = Head(channel)
                   PROVE  v = u /\ t = "mic"
        OBVIOUS
      <3>1. {<<v, t>>} = {<<u, "mic">>}
        BY <1>3 DEF Observe, Request
      <3> DEFINE p == <<v, t>>
                 q == <<u, "mic">>
      <3>2. p[1] = v /\ p[2] = t /\ q[1] = u /\ q[2] = "mic" /\ {p} = {q}
        BY <3>1
      <3> HIDE DEF p, q
      <3>3. p = q
        BY <3>2
      <3> QED BY <3>2, <3>3
    <2>2. channel \in Seq(Requests)
      BY <1>1, InvParts
    <2>3. \A v \in Users, t \in Sources :
            (v # u \/ t # "mic") /\ Has(channel, Observe(v, t)) => Has(Tail(channel), Observe(v, t))
      BY <1>2, <2>1, <2>2, HasTail
    <2>4. \A v \in Users, t \in Sources :
            (v # u \/ t # "mic") /\ Replied(v, t)' => Replied(v, t)
      BY <1>2, <2>3 DEF Has, Observe, Replied, Under
    <2>5. LiveIsKnown'
      <3> SUFFICES ASSUME NEW w \in Users, NEW v \in Users, NEW t \in Sources,
                          seated[v], w # v, producers[w][t] # "none", Replied(w, t)'
                   PROVE  <<w, t>> \in known'[v]
        BY <1>2 DEF LiveIsKnown, Replied, Under
      <3>1. CASE w = u /\ t = "mic"
        BY <1>4, <3>1
      <3>2. CASE w # u \/ t # "mic"
        <4>1. Replied(w, t)
          BY <2>4, <3>2
        <4>2. <<w, t>> \in known[v]
          BY <1>1, <4>1 DEF LiveIsKnown
        <4> QED BY <1>4, <4>2
      <3> QED BY <3>1, <3>2
    <2>6. OffMeansOff'
      <3> SUFFICES ASSUME NEW w \in Users, seated[w]
                   PROVE  /\ audioMuted'[w] /\ producers[w]["mic"] = "on" => ~Replied(w, "mic")'
                          /\ ~videoEnabled[w] => producers[w]["cam"] # "on"
        BY <1>2 DEF OffMeansOff, Replied, Under
      <3>1. ~videoEnabled[w] => producers[w]["cam"] # "on"
        BY <1>1 DEF OffMeansOff
      <3>2. ASSUME audioMuted'[w], producers[w]["mic"] = "on"
            PROVE  ~Replied(w, "mic")'
        <4>1. w # u
          BY <1>5, <1>7, <3>2 DEF Seat
        <4>2. ~Replied(w, "mic")
          BY <1>1, <1>5, <3>2 DEF OffMeansOff
        <4> QED BY <1>3, <2>4, <4>1, <4>2
      <3> QED BY <3>1, <3>2
    <2>7. Ordered'
      <3>1. Live' = Live
        BY <1>2 DEF Live
      <3> QED BY <1>1, <1>2, <3>1, OrderedAnswers
    <2> QED BY <1>1, <2>5, <2>6, <2>7 DEF Play
  <1> QED BY <1>6, <1>7

(* A producer is there: its client's own call brings it, and either it is  *)
(* announced with that step or the observer is asked first.                *)
LEMMA PlayProduces ==
    ASSUME Play, Produced
    PROVE  Play'
  <1> DEFINE seat == Seat
  <1>1. MediaInv /\ MediaInv' /\ LiveIsKnown /\ OffMeansOff /\ Ordered
    BY ProduceAnswers DEF Play
  <1>2. /\ channel # <<>>
        /\ Head(channel).kind \notin {"producerclose", "consume", "createTransport"}
    BY DEF Produced, Answers
  <1>3. PICK u \in Users, s \in Sources : u = Asker /\ s = Subject[2]
    BY <1>2, HeadOwns
  <1>4. /\ channel # <<>> /\ Head(channel).kind = "produce" /\ Head(channel).kind # "observe"
        /\ producers' = IF seat = "current" THEN [producers EXCEPT ![u][s] = "on"] ELSE producers
        /\ channel' = IF s = "mic" /\ seat = "current"
                      THEN Append(Tail(channel), Request("observe", u, <<u, s>>))
                      ELSE Tail(channel)
        /\ IF s = "mic" THEN UNCHANGED known ELSE Announce(u, s)
        /\ videoEnabled' = IF s = "cam" /\ seat # "gone"
                           THEN [videoEnabled EXCEPT ![u] = TRUE] ELSE videoEnabled
        /\ UNCHANGED <<seated, audioMuted>>
    BY <1>3 DEF Produced, Answers
  <1>5. /\ u \in Users /\ s \in Sources /\ Head(channel).of = {<<u, s>>}
        /\ seat = Head(channel).seat /\ "mic" \in Sources /\ "cam" \in Sources
    BY <1>2, <1>3, HeadOwns DEF Seat, Sources
  <1> HIDE DEF seat
  <1>6. /\ \A v \in Users : known[v] \subseteq known'[v]
        /\ s # "mic" => \A v \in Users : seated[v] /\ v # u => <<u, s>> \in known'[v]
    <2>1. CASE s = "mic"
      BY <1>4, <2>1
    <2>2. CASE s # "mic"
      BY <1>1, <1>4, <1>5, <2>2, AnnounceTells
    <2> QED BY <2>1, <2>2
  <1>7. /\ \A v \in Users : ~videoEnabled'[v] => ~videoEnabled[v]
        /\ s = "cam" /\ seat = "current" => videoEnabled'[u]
    BY <1>1, <1>4, <1>5, InvParts DEF Shapes
  <1>8. CASE seat # "current"
    <2>1. producers' = producers /\ channel' = Tail(channel)
      BY <1>4, <1>8
    <2> QED BY <1>1, <1>4, <1>6, <1>7, <2>1, PlayAnswers
  <1>9. CASE seat = "current"
    <2>1. /\ producers'[u][s] = "on"
          /\ \A v \in Users, t \in Sources : v # u \/ t # s => producers'[v][t] = producers[v][t]
      BY <1>1, <1>4, <1>5, <1>9, InvParts DEF Shapes
    <2>2. channel' = Tail(channel) \/ \E r : Plain(r) /\ channel' = Append(Tail(channel), r)
      <3>1. CASE s = "mic"
        <4>1. Plain(Request("observe", u, <<u, s>>))
          BY <1>5, <3>1, PlainAbout DEF Kinds
        <4> QED BY <1>4, <1>9, <3>1, <4>1
      <3>2. CASE s # "mic"
        BY <1>4, <3>2
      <3> QED BY <3>1, <3>2
    <2>3. \A p \in Live' : p \in Live \/ Starts(Head(channel), p)
      <3> SUFFICES ASSUME NEW p \in Live', p \notin Live PROVE Starts(Head(channel), p)
        OBVIOUS
      <3>1. p \in Producers /\ p[1] \in Users /\ p[2] \in Sources /\ p = <<p[1], p[2]>>
            /\ producers'[p[1]][p[2]] # "none" /\ producers[p[1]][p[2]] = "none"
        BY DEF Live, Producers
      <3>2. p[1] = u /\ p[2] = s
        BY <2>1, <3>1
      <3>3. p \in Head(channel).of
        BY <1>5, <3>1, <3>2
      <3> QED BY <1>4, <1>5, <1>9, <3>3 DEF Starts
    <2>4. Ordered'
      BY <1>1, <1>4, <2>2, <2>3, OrderedAnswers
    <2>5. StillAsked
      <3>1. channel' = Tail(channel) \/ \E r \in Requests : channel' = Append(Tail(channel), r)
        BY <2>2 DEF Plain
      <3> QED BY <1>1, <1>4, <3>1, StillAskedAnswer
    <2>6. s = "mic" => ~Replied(u, "mic")'
      <3> SUFFICES ASSUME s = "mic" PROVE ~Replied(u, "mic")'
        OBVIOUS
      <3> DEFINE r == Request("observe", u, <<u, "mic">>)
                 t == Tail(channel)
      <3>1. channel' = Append(t, r)
        BY <1>4, <1>9
      <3>2. r \in Requests
        BY <1>5, PlainAbout DEF Plain, Kinds
      <3>3. t \in Seq(Requests)
        BY <1>1, <1>4, InvParts
      <3> HIDE DEF r, t
      <3>4. Has(Append(t, r), r)
        BY <3>2, <3>3, HasAppend
      <3> QED BY <3>1, <3>4 DEF Has, Replied, Under, r
    <2>7. \A v \in Users, t \in Sources :
            (v # u \/ t # s) /\ producers[v][t] # "none" /\ Replied(v, t)' => Replied(v, t)
      BY <2>1, <2>5 DEF StillAsked, Observe, Replied, Under
    <2>8. LiveIsKnown'
      <3> SUFFICES ASSUME NEW w \in Users, NEW v \in Users, NEW t \in Sources,
                          seated[v], w # v, producers'[w][t] # "none", Replied(w, t)'
                   PROVE  <<w, t>> \in known'[v]
        BY <1>4 DEF LiveIsKnown, Replied, Under
      <3>1. CASE w = u /\ t = s
        BY <1>6, <2>6, <3>1
      <3>2. CASE w # u \/ t # s
        <4>1. producers[w][t] # "none" /\ Replied(w, t)
          BY <2>1, <2>7, <3>2
        <4>2. <<w, t>> \in known[v]
          BY <1>1, <4>1 DEF LiveIsKnown
        <4> QED BY <1>6, <4>2
      <3> QED BY <3>1, <3>2
    <2>9. OffMeansOff'
      <3> SUFFICES ASSUME NEW w \in Users, seated[w]
                   PROVE  /\ audioMuted[w] /\ producers'[w]["mic"] = "on" => ~Replied(w, "mic")'
                          /\ ~videoEnabled'[w] => producers'[w]["cam"] # "on"
        BY <1>4 DEF OffMeansOff, Replied, Under
      <3>1. ASSUME audioMuted[w], producers'[w]["mic"] = "on"
            PROVE  ~Replied(w, "mic")'
        <4>1. CASE w = u /\ s = "mic"
          BY <2>6, <4>1
        <4>2. CASE w # u \/ s # "mic"
          <5>1. producers[w]["mic"] = "on"
            BY <1>5, <2>1, <3>1, <4>2
          <5>2. ~Replied(w, "mic")
            BY <1>1, <3>1, <5>1 DEF OffMeansOff
          <5> QED BY <1>5, <2>7, <4>2, <5>1, <5>2
        <4> QED BY <4>1, <4>2
      <3>2. ASSUME ~videoEnabled'[w], producers'[w]["cam"] = "on"
            PROVE  FALSE
        <4>1. w # u \/ s # "cam"
          BY <1>7, <1>9, <3>2
        <4>2. producers[w]["cam"] = "on" /\ ~videoEnabled[w]
          BY <1>5, <1>7, <2>1, <3>2, <4>1
        <4> QED BY <1>1, <4>2 DEF OffMeansOff
      <3> QED BY <3>1, <3>2
    <2> QED BY <1>1, <2>4, <2>8, <2>9 DEF Play
  <1> QED BY <1>8, <1>9

LEMMA PlayInit == Init => Play
  <1> SUFFICES ASSUME Init PROVE Play
    OBVIOUS
  <1>1. MediaInv
    BY MediaInvInit
  <1>2. Ordered
    BY DEF Init, Ordered, Sessions
  <1>3. LiveIsKnown /\ OffMeansOff
    BY DEF Init, LiveIsKnown, OffMeansOff
  <1> QED BY <1>1, <1>2, <1>3 DEF Play

LEMMA PlayStep == Play /\ [Next]_vars => Play'
  <1> SUFFICES ASSUME Play, [Next]_vars PROVE Play'
    OBVIOUS
  <1>1. CASE UNCHANGED vars
    <2>1. MediaInv'
      BY <1>1, MediaInvStep DEF Play
    <2> QED BY <1>1, <2>1, PlayAsks DEF vars, mediaVars, flagVars
  <1>2. ASSUME NEW u \in Users,
               \/ JoinRoom(u) \/ Rejoin(u) \/ FinalizeLeave(u) \/ Kick(u) \/ GroupStreams(u)
               \/ GroupControls(u) \/ CallStreams(u) \/ CallControls(u) \/ Mute(u)
        PROVE  Play'
    BY <1>2, PlayJoins, PlayRejoins, PlayLeaves, PlayStreams, PlayControls, PlayMutes
       DEF GroupStreams, GroupControls, CallStreams, CallControls
  <1>3. CASE EndMeeting
    BY <1>3, PlayLeaves
  <1>4. CASE EnableScreenShare \/ DisableScreenShare
    BY <1>4, PlayFeatures
  <1>5. CASE WorkerAnswers
    BY <1>5, PlayQuietAnswers, PlayProduces, PlayObserves, PlayPauseAnswers, PlayMuteAnswers,
       PlayNotices DEF WorkerAnswers
  <1> QED BY <1>1, <1>2, <1>3, <1>4, <1>5 DEF Next

LEMMA PlayHolds == Spec => []Play
  BY PlayInit, PlayStep, PTL DEF Spec

(* Between existingProducers and newProducer every client in the meeting   *)
(* learns of every live producer, whenever it joins or reconnects and in   *)
(* whatever order the calls under way are answered.                        *)
THEOREM LiveProducersAreKnown == Spec => []LiveIsKnown
  <1>1. Play => LiveIsKnown
    BY DEF Play
  <1> QED BY <1>1, PlayHolds, PTL

(* No sound from a participant shown as muted and no picture from a camera *)
(* shown as off, however pauses, resumes, forced mutes, closes, reconnects *)
(* and late answers overlap.                                               *)
THEOREM WhatIsOffIsOff == Spec => []OffMeansOff
  <1>1. Play => OffMeansOff
    BY DEF Play
  <1> QED BY <1>1, PlayHolds, PTL
=============================================================================
