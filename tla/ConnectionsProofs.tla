-------------------------- MODULE ConnectionsProofs --------------------------
(* The invariants of Connections, where no two connections of a peer       *)
(* overlap: who waits for which stream, and what is next on a wire.        *)
EXTENDS Connections, SequenceTheorems, TLAPS

(* The peer set files a connection under the address it leads to. *)
Filed == \A a \in Addrs : peers[a] # None => AddrOf[peers[a]] = a

(* Nothing of a peer is queued behind one of its streams: the goroutine    *)
(* that announced the stream waits.                                        *)
StreamLast ==
    \A j, k \in DOMAIN rpcs :
        rpcs[j].kind = "stream" /\ k > j => rpcs[k].from # rpcs[j].from

(* What must follow a unit, whatever was sent when. *)
Follows(u, v) ==
    \/ u.kind = "announce" /\ v = Part("tag", u.id, 0)
    \/ u.kind = "tag" /\ v = Part("body", u.id, 1)
    \/ u.kind = "body" /\ u.piece < Pieces /\ v = Part("body", u.id, u.piece + 1)
    \/ u.kind = "body" /\ u.piece = Pieces /\ v.kind = "announce"

Ordered(w) == \A k \in 1 .. Len(w) - 1 : Follows(w[k], w[k + 1])

(* No transfer on the wire has been cut off. *)
Whole(w) == w # <<>> => w[Len(w)].kind = "body" /\ w[Len(w)].piece = Pieces

(* The last announcement of a peer, handled or still in the queue. *)
IsAnnouncement(f, a) == f.kind = "announce" /\ f.from = a

Announced(a, t) ==
    \/ \E k \in DOMAIN rpcs :
         /\ IsAnnouncement(rpcs[k], a) /\ rpcs[k].id = t
         /\ \A j \in DOMAIN rpcs : j > k => ~IsAnnouncement(rpcs[j], a)
    \/ pending[a] = t /\ \A j \in DOMAIN rpcs : ~IsAnnouncement(rpcs[j], a)

(* The unit that comes next is the one its reader expects. *)
Awaited(c, u) ==
    /\ st[c] = "reading" =>
         u.kind = "announce" \/ (u.kind = "tag" /\ Announced(AddrOf[c], u.id))
    /\ st[c] = "waiting" /\ wg[c] = 0 => u.kind = "announce"
    /\ rcv.conn = c => u = Part("body", rcv.id, Pieces - rcv.left + 1)
    /\ wg[c] = 1 /\ rcv.conn # c =>
         u.kind = "body" /\ u.piece = 1 /\ Announced(AddrOf[c], u.id)

InOrder(c) ==
    /\ Ordered(wire[c])
    /\ ~lost[c] => Whole(wire[c])
    /\ ~lost[c] /\ wg[c] = 1 => wire[c] # <<>>
    /\ wire[c] # <<>> => Awaited(c, Head(wire[c]))

Unused == \A c \in Conns : st[c] = "new" => wire[c] = <<>>

(* A connection both ends of which keep to the protocol. *)
Steady(c) == Live(c) /\ c \notin short \cup unread

AllInOrder == \A c \in Conns : Steady(c) => InOrder(c)

-----------------------------------------------------------------------------
(* The queue.                                                              *)

LEMMA QueueGrows ==
    ASSUME rpcs \in Seq(Frame), NEW f \in Frame, rpcs' = Append(rpcs, f)
    PROVE  /\ rpcs' \in Seq(Frame) /\ Len(rpcs) \in Nat
           /\ DOMAIN rpcs = 1 .. Len(rpcs) /\ DOMAIN rpcs' = 1 .. Len(rpcs) + 1
           /\ \A k \in 1 .. Len(rpcs) : rpcs'[k] = rpcs[k]
           /\ rpcs'[Len(rpcs) + 1] = f
  BY AppendProperties

LEMMA QueueShrinks ==
    ASSUME rpcs \in Seq(Frame), rpcs # <<>>, rpcs' = Tail(rpcs)
    PROVE  /\ rpcs' \in Seq(Frame) /\ Len(rpcs) \in Nat \ {0}
           /\ DOMAIN rpcs = 1 .. Len(rpcs) /\ DOMAIN rpcs' = 1 .. Len(rpcs) - 1
           /\ \A k \in 1 .. Len(rpcs) - 1 : rpcs'[k] = rpcs[k + 1]
           /\ Head(rpcs) = rpcs[1] /\ rpcs[1] \in Frame
  BY HeadTailProperties

(* A frame that joins the queue. *)
LEMMA StreamsGrow ==
    ASSUME rpcs \in Seq(Frame), NEW f \in Frame, rpcs' = Append(rpcs, f), NEW a
    PROVE  Streams(a)' = IF f.kind = "stream" /\ f.from = a
                         THEN Streams(a) \cup {Len(rpcs) + 1} ELSE Streams(a)
<1>1. \A k : k \in Streams(a)' <=>
               \/ k \in Streams(a)
               \/ k = Len(rpcs) + 1 /\ f.kind = "stream" /\ f.from = a
  BY QueueGrows DEF Streams
<1>2. QED  BY <1>1

LEMMA StreamLastGrows ==
    ASSUME rpcs \in Seq(Frame), NEW f \in Frame, rpcs' = Append(rpcs, f),
           StreamLast, Streams(f.from) = {}
    PROVE  StreamLast'
<1> SUFFICES ASSUME NEW j \in DOMAIN rpcs', NEW k \in DOMAIN rpcs',
                    rpcs'[j].kind = "stream", k > j
             PROVE  rpcs'[k].from # rpcs'[j].from
  BY DEF StreamLast
<1>1. j \in DOMAIN rpcs /\ rpcs'[j] = rpcs[j]
  BY QueueGrows
<1>2. CASE k \in DOMAIN rpcs
  BY <1>1, <1>2, QueueGrows DEF StreamLast
<1>3. CASE k \notin DOMAIN rpcs
  BY <1>1, <1>3, QueueGrows DEF Streams
<1>4. QED  BY <1>2, <1>3

LEMMA AnnouncedGrows ==
    ASSUME rpcs \in Seq(Frame), NEW f \in Frame, rpcs' = Append(rpcs, f),
           pending' = pending, NEW a, NEW t
    PROVE  /\ f.kind = "announce" => Announced(f.from, f.id)'
           /\ ~IsAnnouncement(f, a) /\ Announced(a, t) => Announced(a, t)'
<1>1. f.kind = "announce" => Announced(f.from, f.id)'
  BY QueueGrows DEF Announced, IsAnnouncement
<1>2. ASSUME ~IsAnnouncement(f, a), Announced(a, t)
      PROVE  Announced(a, t)'
  <2>1. \A j \in DOMAIN rpcs' : IsAnnouncement(rpcs'[j], a) =>
            j \in DOMAIN rpcs /\ rpcs'[j] = rpcs[j]
    BY <1>2, QueueGrows DEF IsAnnouncement
  <2>2. \A j \in DOMAIN rpcs : j \in DOMAIN rpcs' /\ rpcs'[j] = rpcs[j]
    BY QueueGrows
  <2>3. CASE pending[a] = t /\ \A j \in DOMAIN rpcs : ~IsAnnouncement(rpcs[j], a)
    BY <2>1, <2>3 DEF Announced
  <2>4. CASE \E k \in DOMAIN rpcs :
                /\ IsAnnouncement(rpcs[k], a) /\ rpcs[k].id = t
                /\ \A j \in DOMAIN rpcs : j > k => ~IsAnnouncement(rpcs[j], a)
    <3>1. PICK k \in DOMAIN rpcs :
                /\ IsAnnouncement(rpcs[k], a) /\ rpcs[k].id = t
                /\ \A j \in DOMAIN rpcs : j > k => ~IsAnnouncement(rpcs[j], a)
      BY <2>4
    <3>2. /\ k \in DOMAIN rpcs' /\ IsAnnouncement(rpcs'[k], a) /\ rpcs'[k].id = t
          /\ \A j \in DOMAIN rpcs' : j > k => ~IsAnnouncement(rpcs'[j], a)
      BY <3>1, <2>1, <2>2
    <3>3. QED  BY <3>2 DEF Announced
  <2>5. QED  BY <1>2, <2>3, <2>4 DEF Announced
<1>3. QED  BY <1>1, <1>2

(* A frame that leaves the queue. *)
LEMMA StreamsShrink ==
    ASSUME rpcs \in Seq(Frame), rpcs # <<>>, rpcs' = Tail(rpcs), NEW a,
           \A j, k \in Streams(a) : j = k
    PROVE  /\ \A j, k \in Streams(a)' : j = k
           /\ Head(rpcs).kind = "stream" /\ Head(rpcs).from = a
                => 1 \in Streams(a) /\ Streams(a)' = {}
           /\ Head(rpcs).kind # "stream" \/ Head(rpcs).from # a
                => (Streams(a)' # {} <=> Streams(a) # {})
<1>1. \A k : k \in Streams(a)' <=> k \in 1 .. Len(rpcs) - 1 /\ k + 1 \in Streams(a)
  BY QueueShrinks DEF Streams
<1>2. 1 \in Streams(a) <=> Head(rpcs).kind = "stream" /\ Head(rpcs).from = a
  BY QueueShrinks DEF Streams
<1>3. \A k \in Streams(a) : k \in 1 .. Len(rpcs)
  BY QueueShrinks DEF Streams
<1>4. \A k \in Streams(a) : k # 1 => k - 1 \in Streams(a)'
  BY <1>1, <1>3, QueueShrinks
<1>5. \A j, k \in Streams(a)' : j = k
  <2> SUFFICES ASSUME NEW j \in Streams(a)', NEW k \in Streams(a)'
               PROVE  j = k
    OBVIOUS
  <2>1. j \in Int /\ k \in Int /\ j + 1 = k + 1
    BY <1>1, QueueShrinks
  <2>2. QED  BY <2>1
<1>6. ASSUME 1 \in Streams(a)
      PROVE  Streams(a)' = {}
  <2>1. ASSUME NEW k \in Streams(a)'
        PROVE  FALSE
    <3>1. k \in 1 .. Len(rpcs) - 1 /\ k + 1 = 1
      BY <1>1, <1>6, <2>1
    <3>2. QED  BY <3>1, QueueShrinks
  <2>2. QED  BY <2>1
<1>7. ASSUME 1 \notin Streams(a)
      PROVE  Streams(a)' # {} <=> Streams(a) # {}
  BY <1>1, <1>4, <1>7
<1>8. QED  BY <1>2, <1>5, <1>6, <1>7

LEMMA StreamLastShrinks ==
    ASSUME rpcs \in Seq(Frame), rpcs # <<>>, rpcs' = Tail(rpcs), StreamLast
    PROVE  StreamLast'
<1> SUFFICES ASSUME NEW j \in DOMAIN rpcs', NEW k \in DOMAIN rpcs',
                    rpcs'[j].kind = "stream", k > j
             PROVE  rpcs'[k].from # rpcs'[j].from
  BY DEF StreamLast
<1>1. j + 1 \in DOMAIN rpcs /\ k + 1 \in DOMAIN rpcs /\ k + 1 > j + 1
  BY QueueShrinks
<1>2. rpcs'[j] = rpcs[j + 1] /\ rpcs'[k] = rpcs[k + 1]
  BY QueueShrinks
<1>3. QED  BY <1>1, <1>2 DEF StreamLast

LEMMA AnnouncedShrinks ==
    ASSUME rpcs \in Seq(Frame), rpcs # <<>>, rpcs' = Tail(rpcs), NEW a, NEW t,
           Announced(a, t),
           pending'[a] = IF IsAnnouncement(Head(rpcs), a) THEN Head(rpcs).id ELSE pending[a]
    PROVE  Announced(a, t)'
<1>1. \A j \in DOMAIN rpcs' : j + 1 \in DOMAIN rpcs /\ rpcs'[j] = rpcs[j + 1]
  BY QueueShrinks
<1>2. CASE pending[a] = t /\ \A j \in DOMAIN rpcs : ~IsAnnouncement(rpcs[j], a)
  <2>1. ~IsAnnouncement(Head(rpcs), a)
    BY <1>2, QueueShrinks
  <2>2. \A j \in DOMAIN rpcs' : ~IsAnnouncement(rpcs'[j], a)
    BY <1>1, <1>2
  <2>3. QED  BY <1>2, <2>1, <2>2 DEF Announced
<1>3. CASE \E k \in DOMAIN rpcs :
              /\ IsAnnouncement(rpcs[k], a) /\ rpcs[k].id = t
              /\ \A j \in DOMAIN rpcs : j > k => ~IsAnnouncement(rpcs[j], a)
  <2>1. PICK k \in DOMAIN rpcs :
              /\ IsAnnouncement(rpcs[k], a) /\ rpcs[k].id = t
              /\ \A j \in DOMAIN rpcs : j > k => ~IsAnnouncement(rpcs[j], a)
    BY <1>3
  <2>2. CASE k = 1
    <3>1. pending'[a] = t
      BY <2>1, <2>2, QueueShrinks
    <3>2. \A j \in DOMAIN rpcs' : j + 1 > k
      BY <2>2, QueueShrinks
    <3>3. \A j \in DOMAIN rpcs' : ~IsAnnouncement(rpcs'[j], a)
      BY <1>1, <2>1, <3>2
    <3>4. QED  BY <3>1, <3>3 DEF Announced
  <2>3. CASE k # 1
    <3>1. k - 1 \in DOMAIN rpcs' /\ rpcs'[k - 1] = rpcs[k]
      BY <2>1, <2>3, QueueShrinks
    <3>2. \A j \in DOMAIN rpcs' : j > k - 1 => j + 1 > k
      BY <2>1, QueueShrinks
    <3>3. \A j \in DOMAIN rpcs' : j > k - 1 => ~IsAnnouncement(rpcs'[j], a)
      BY <1>1, <2>1, <3>2
    <3>4. QED  BY <2>1, <3>1, <3>3 DEF Announced
  <2>4. QED  BY <2>2, <2>3
<1>4. QED  BY <1>2, <1>3 DEF Announced

(* What a stream at the head of the queue was announced as. *)
LEMMA HeadAnnounced ==
    ASSUME rpcs \in Seq(Frame), rpcs # <<>>, StreamLast,
           Head(rpcs).kind = "stream", NEW t, Announced(Head(rpcs).from, t)
    PROVE  pending[Head(rpcs).from] = t
<1>1. 1 \in DOMAIN rpcs /\ Head(rpcs) = rpcs[1] /\ DOMAIN rpcs = 1 .. Len(rpcs)
  BY HeadTailProperties
<1>2. \A k \in DOMAIN rpcs : k = 1 \/ k > 1
  BY <1>1
<1>3. \A k \in DOMAIN rpcs : ~IsAnnouncement(rpcs[k], Head(rpcs).from)
  BY <1>1, <1>2 DEF StreamLast, IsAnnouncement
<1>4. QED  BY <1>3 DEF Announced

-----------------------------------------------------------------------------
(* The wires.                                                              *)

LEMMA TransferShape ==
    ASSUME NEW t \in Transfers, NEW n \in 0 .. Pieces
    PROVE  /\ Transfer(t, n) \in Seq(Unit) /\ Len(Transfer(t, n)) = n + 2
           /\ Transfer(t, n)[1] = Part("announce", t, 0)
           /\ Transfer(t, n)[2] = Part("tag", t, 0)
           /\ \A k \in 3 .. n + 2 : Transfer(t, n)[k] = Part("body", t, k - 2)
<1> DEFINE a == <<Part("announce", t, 0), Part("tag", t, 0)>>
           b == [k \in 1 .. n |-> Part("body", t, k)]
<1>1. Pieces \in Nat \ {0}
  BY ConnectionsAssumption
<1>2. /\ a \in Seq(Unit) /\ Len(a) = 2
      /\ a[1] = Part("announce", t, 0) /\ a[2] = Part("tag", t, 0)
  BY <1>1 DEF Unit, Part
<1>3. \A k \in 1 .. n : Part("body", t, k) \in Unit
  BY <1>1 DEF Unit, Part
<1>4. b \in Seq(Unit)
  BY <1>1, <1>3, IsASeq
<1>5. Len(b) = n /\ \A k \in 1 .. n : b[k] = Part("body", t, k)
  BY <1>1, <1>4, LenProperties
<1>6. Transfer(t, n) = a \o b
  BY DEF Transfer
<1> HIDE DEF a, b
<1>7. /\ a \o b \in Seq(Unit) /\ Len(a \o b) = Len(a) + Len(b)
      /\ \A i \in 1 .. Len(a) + Len(b) :
           (a \o b)[i] = IF i <= Len(a) THEN a[i] ELSE b[i - Len(a)]
  BY <1>2, <1>4, ConcatProperties, Zenon
<1>8. QED  BY <1>1, <1>2, <1>5, <1>6, <1>7

LEMMA WireRead ==
    ASSUME NEW w \in Seq(Unit), w # <<>>
    PROVE  /\ Tail(w) \in Seq(Unit) /\ Head(w) \in Unit
           /\ Ordered(w) => Ordered(Tail(w))
           /\ Whole(w) => Whole(Tail(w))
           /\ Ordered(w) /\ Tail(w) # <<>> => Follows(Head(w), Head(Tail(w)))
           /\ Whole(w) /\ Tail(w) = <<>> => Head(w).kind = "body" /\ Head(w).piece = Pieces
<1> DEFINE v == Tail(w)
<1>1. /\ Len(w) \in Nat \ {0} /\ Head(w) = w[1] /\ Head(w) \in Unit
      /\ v \in Seq(Unit) /\ Len(v) = Len(w) - 1
      /\ \A i \in 1 .. Len(w) - 1 : v[i] = w[i + 1]
  BY HeadTailProperties
<1> HIDE DEF v
<1>2. v # <<>> => Len(w) - 1 \in Nat \ {0} /\ Head(v) = w[2]
  <2> HAVE v # <<>>
  <2>1. Len(v) \in Nat \ {0} /\ Head(v) = v[1]
    BY <1>1, HeadTailProperties
  <2>2. QED  BY <1>1, <2>1
<1>3. v = <<>> => Len(w) = 1
  BY <1>1
<1>4. Ordered(w) => Ordered(v)
  BY <1>1 DEF Ordered
<1>5. Whole(w) => Whole(v)
  BY <1>1, <1>2 DEF Whole
<1>6. Ordered(w) /\ v # <<>> => Follows(Head(w), Head(v))
  BY <1>1, <1>2 DEF Ordered
<1>7. Whole(w) /\ v = <<>> => Head(w).kind = "body" /\ Head(w).piece = Pieces
  BY <1>1, <1>3 DEF Whole
<1>8. QED  BY <1>1, <1>4, <1>5, <1>6, <1>7 DEF v

LEMMA WireSent ==
    ASSUME NEW w \in Seq(Unit), NEW t \in Transfers
    PROVE  /\ w \o Transfer(t, Pieces) \in Seq(Unit) /\ w \o Transfer(t, Pieces) # <<>>
           /\ Ordered(w) /\ Whole(w) => Ordered(w \o Transfer(t, Pieces))
           /\ Whole(w \o Transfer(t, Pieces))
           /\ w = <<>> => Head(w \o Transfer(t, Pieces)) = Part("announce", t, 0)
           /\ w # <<>> => Head(w \o Transfer(t, Pieces)) = Head(w)
<1> DEFINE s == Transfer(t, Pieces)
           v == w \o s
<1>1. Pieces \in Nat \ {0}
  BY ConnectionsAssumption
<1>2. /\ s \in Seq(Unit) /\ Len(s) = Pieces + 2
      /\ s[1] = Part("announce", t, 0)
      /\ s[2] = Part("tag", t, 0)
      /\ \A k \in 3 .. Pieces + 2 : s[k] = Part("body", t, k - 2)
  BY <1>1, TransferShape
<1> HIDE DEF s
<1>3. /\ v \in Seq(Unit) /\ Len(w) \in Nat /\ Len(v) = Len(w) + Len(s)
      /\ \A i \in 1 .. Len(w) + Len(s) : v[i] = IF i <= Len(w) THEN w[i] ELSE s[i - Len(w)]
  BY <1>2, ConcatProperties
<1> HIDE DEF v
<1>4. v # <<>> /\ Head(v) = v[1]
  BY <1>1, <1>2, <1>3, HeadTailProperties
<1>5. Whole(v)
  <2>1. Len(v) = Len(w) + Pieces + 2 /\ Len(v) > Len(w) /\ Len(v) - Len(w) = Pieces + 2
    BY <1>1, <1>2, <1>3
  <2>2. v[Len(v)] = s[Pieces + 2] /\ Pieces + 2 \in 3 .. Pieces + 2
    BY <1>1, <1>2, <1>3, <2>1
  <2>3. v[Len(v)] = Part("body", t, Pieces)
    BY <1>1, <1>2, <2>2
  <2>4. QED  BY <2>3 DEF Whole, Part
<1>6. ASSUME Ordered(w), Whole(w), NEW k \in 1 .. Len(v) - 1
      PROVE  Follows(v[k], v[k + 1])
  <2>1. CASE k < Len(w)
    <3>1. v[k] = w[k] /\ v[k + 1] = w[k + 1] /\ k \in 1 .. Len(w) - 1
      BY <1>1, <1>2, <1>3, <2>1
    <3>2. QED  BY <1>6, <3>1 DEF Ordered
  <2>2. CASE k = Len(w)
    <3>1. v[k] = w[Len(w)] /\ v[k + 1] = s[1] /\ w # <<>>
      BY <1>1, <1>2, <1>3, <2>2
    <3>2. QED  BY <1>2, <1>6, <3>1 DEF Whole, Follows, Part
  <2>3. CASE k > Len(w)
    <3> DEFINE j == k - Len(w)
    <3>1. v[k] = s[j] /\ v[k + 1] = s[j + 1] /\ j \in 1 .. Pieces + 1
      BY <1>1, <1>2, <1>3, <2>3
    <3>2. CASE j = 1
      BY <1>2, <3>1, <3>2 DEF Follows, Part
    <3>3. CASE j = 2
      BY <1>1, <1>2, <3>1, <3>3 DEF Follows, Part
    <3>4. CASE j > 2
      <4>1. s[j] = Part("body", t, j - 2) /\ s[j + 1] = Part("body", t, j - 2 + 1) /\ j - 2 < Pieces
        BY <1>1, <1>2, <3>1, <3>4
      <4>2. QED  BY <3>1, <4>1 DEF Follows, Part
    <3>5. QED  BY <3>1, <3>2, <3>3, <3>4
  <2>4. QED  BY <1>3, <2>1, <2>2, <2>3
<1>7. w = <<>> => Head(v) = Part("announce", t, 0)
  BY <1>1, <1>2, <1>3, <1>4
<1>8. w # <<>> => Head(v) = Head(w)
  BY <1>1, <1>2, <1>3, <1>4, HeadTailProperties
<1>9. QED  BY <1>3, <1>4, <1>5, <1>6, <1>7, <1>8 DEF s, v, Ordered

LEMMA WireCut ==
    ASSUME NEW w \in Seq(Unit), NEW k \in 0 .. Len(w)
    PROVE  /\ SubSeq(w, 1, k) \in Seq(Unit)
           /\ Ordered(w) => Ordered(SubSeq(w, 1, k))
           /\ SubSeq(w, 1, k) # <<>> => w # <<>> /\ Head(SubSeq(w, 1, k)) = Head(w)
<1> DEFINE v == SubSeq(w, 1, k)
<1>1. Len(w) \in Nat /\ \A i \in 1 .. k : w[i] \in Unit
  OBVIOUS
<1>2. /\ v \in Seq(Unit) /\ Len(v) = k
      /\ \A i \in 1 .. k : v[i] = w[i]
  BY <1>1, SubSeqProperties
<1> HIDE DEF v
<1>3. Ordered(w) => Ordered(v)
  BY <1>1, <1>2 DEF Ordered
<1>4. v # <<>> => w # <<>> /\ Head(v) = Head(w)
  <2> HAVE v # <<>>
  <2>1. Len(v) > 0 /\ Head(v) = v[1]
    BY <1>2, HeadTailProperties
  <2>2. Len(w) > 0 /\ v[1] = w[1]
    BY <1>1, <1>2, <2>1
  <2>3. w # <<>>
    BY <2>2
  <2>4. QED  BY <2>1, <2>2, <2>3, HeadTailProperties
<1>5. QED  BY <1>2, <1>3, <1>4 DEF v

(* A wire on which the sender gave up half way is one. *)
LEMMA WireShort ==
    ASSUME NEW w \in Seq(Unit), NEW t \in Transfers, NEW n \in 0 .. Pieces
    PROVE  w \o Transfer(t, n) \in Seq(Unit)
  BY TransferShape

(* So is what is left when a unit is read in part. *)
LEMMA WireTorn ==
    ASSUME NEW w \in Seq(Unit), NEW u \in Unit, NEW rest \in Rests(u)
    PROVE  rest \o w \in Seq(Unit)
<1> DEFINE p == Part("body", u.id, 0)
<1>1. p \in Unit
  BY ConnectionsAssumption DEF Part, Unit
<1>2. rest = <<>> \/ rest = <<p>>
  BY DEF Rests
<1> HIDE DEF p
<1>3. CASE rest = <<>>
  BY <1>3
<1>4. CASE rest = <<p>>
  <2>1. <<p>> \in Seq(Unit)
    BY <1>1
  <2>2. QED  BY <1>4, <2>1
<1>5. QED  BY <1>2, <1>3, <1>4

(* Any rest of a wire is one. *)
LEMMA WireRest ==
    ASSUME NEW w \in Seq(Unit), NEW k \in 1 .. Len(w)
    PROVE  SubSeq(w, k + 1, Len(w)) \in Seq(Unit)
<1>1. Len(w) \in Nat /\ \A i \in k + 1 .. Len(w) : w[i] \in Unit
  OBVIOUS
<1>2. QED  BY <1>1, SubSeqProperties

-----------------------------------------------------------------------------
(* Types.                                                                  *)

LEMMA TypeInit == Init => TypeOK
<1> SUFFICES ASSUME Init
             PROVE  TypeOK
  OBVIOUS
<1>1. 0 \in 0 .. MaxSends /\ 0 \in 0 .. MaxFaults
  BY ConnectionsAssumption
<1>2. <<>> \in Seq(Unit) /\ <<>> \in Seq(Frame)
  OBVIOUS
<1>3. QED  BY <1>1, <1>2 DEF Init, TypeOK

(* What the loop is reading, if anything. *)
LEMMA Receiving ==
    ASSUME TypeOK
    PROVE  /\ rcv = Idle => rcv.conn = None /\ \A c \in Conns : rcv.conn # c
           /\ rcv # Idle => /\ rcv.conn \in Conns /\ rcv.id \in Transfers
                            /\ rcv.left \in 1 .. Pieces /\ rcv.good \in BOOLEAN
           /\ rcv.conn \in Conns => rcv # Idle
  BY ConnectionsAssumption DEF TypeOK, Idle

LEMMA TypeStep ==
    ASSUME TypeOK, [Next]_vars
    PROVE  TypeOK'
<1> USE ConnectionsAssumption DEF TypeOK, skews
<1>1. ASSUME NEW c \in Conns, OnPeer(c)
      PROVE  TypeOK'
  BY <1>1 DEF OnPeer
<1>2. ASSUME NEW c \in Conns, Lose(c)
      PROVE  TypeOK'
  <2>1. wire' \in [Conns -> Seq(Unit)]
    <3>1. PICK k \in 0 .. Len(wire[c]) : wire' = [wire EXCEPT ![c] = SubSeq(@, 1, k)]
      BY <1>2 DEF Lose
    <3>2. SubSeq(wire[c], 1, k) \in Seq(Unit)
      BY WireCut
    <3>3. QED  BY <3>1, <3>2
  <2>2. lost' \in [Conns -> BOOLEAN]
    BY <1>2 DEF Lose
  <2>3. QED  BY <1>2, <2>1, <2>2 DEF Lose
<1>3. ASSUME NEW c \in Conns, NEW t \in Transfers, SendFile(c, t)
      PROVE  TypeOK'
  <2>1. wire[c] \o Transfer(t, Pieces) \in Seq(Unit)
    BY WireSent
  <2>2. wire' \in [Conns -> Seq(Unit)] /\ via' \in [Transfers -> Conns \cup {None}]
    BY <1>3, <2>1 DEF SendFile, Sent
  <2>3. QED  BY <1>3, <2>2 DEF SendFile, Sent
<1>21. ASSUME NEW c \in Conns, NEW t \in Transfers, SendFails(c, t)
       PROVE  TypeOK'
  <2>1. PICK k \in 0 .. Pieces - 1 : Sent(c, t, k)
    BY <1>21 DEF SendFails
  <2>2. wire[c] \o Transfer(t, k) \in Seq(Unit)
    BY WireShort
  <2>3. wire' \in [Conns -> Seq(Unit)] /\ via' \in [Transfers -> Conns \cup {None}]
    BY <2>1, <2>2 DEF Sent
  <2>4. faults' \in 0 .. MaxFaults /\ short' \subseteq Conns /\ unread' \subseteq Conns
    BY <1>21 DEF SendFails
  <2>5. QED  BY <2>1, <2>3, <2>4 DEF Sent
<1>4. ASSUME NEW c \in Conns, wire[c] # <<>>
      PROVE  Tail(wire[c]) \in Seq(Unit) /\ Head(wire[c]) \in Unit
  BY <1>4, WireRead
<1>5. ASSUME NEW f \in Frame
      PROVE  Append(rpcs, f) \in Seq(Frame)
  OBVIOUS
<1>6. \A c \in Conns : AddrOf[c] \in Addrs
  OBVIOUS
<1>7. ASSUME NEW c \in Conns, ReadMessage(c)
      PROVE  TypeOK'
  <2>1. wire[c] # <<>>
    BY <1>7 DEF ReadMessage, Next1
  <2>2. Head(wire[c]).id \in 0 .. MaxSends
    BY <1>4, <2>1 DEF Unit, Transfers
  <2>3. [kind |-> "announce", from |-> AddrOf[c], id |-> Head(wire[c]).id] \in Frame
    BY <1>6, <2>2 DEF Frame
  <2>4. rpcs' \in Seq(Frame)
    BY <1>5, <1>7, <2>3 DEF ReadMessage, Enqueue
  <2>5. wire' \in [Conns -> Seq(Unit)]
    BY <1>4, <1>7, <2>1 DEF ReadMessage
  <2>6. QED  BY <1>7, <2>4, <2>5 DEF ReadMessage
<1>8. ASSUME NEW c \in Conns, ReadStream(c)
      PROVE  TypeOK'
  <2>1. wire[c] # <<>>
    BY <1>8 DEF ReadStream, Next1
  <2>2. [kind |-> "stream", from |-> AddrOf[c], id |-> 0] \in Frame
    BY <1>6 DEF Frame
  <2>3. rpcs' \in Seq(Frame)
    BY <1>5, <1>8, <2>2 DEF ReadStream, Enqueue
  <2>4. wire' \in [Conns -> Seq(Unit)]
    BY <1>4, <1>8, <2>1 DEF ReadStream
  <2>5. wg' \in [Conns -> Nat]
    BY <1>8 DEF ReadStream
  <2>6. QED  BY <1>8, <2>3, <2>4, <2>5 DEF ReadStream
<1>9. ASSUME NEW c \in Conns, ReadGarbage(c)
      PROVE  TypeOK'
  <2>1. [kind |-> "garbage", from |-> AddrOf[c], id |-> 0] \in Frame
    BY <1>6 DEF Frame
  <2>2. rpcs' \in Seq(Frame)
    BY <1>5, <1>9, <2>1 DEF ReadGarbage, Enqueue
  <2>3. wire' \in [Conns -> Seq(Unit)]
    <3>0. PICK k \in 1 .. Len(wire[c]) : \E rest \in Rests(wire[c][k]) :
            wire' = [wire EXCEPT ![c] = rest \o SubSeq(@, k + 1, Len(@))]
      BY <1>9 DEF ReadGarbage
    <3>1. PICK rest \in Rests(wire[c][k]) :
            wire' = [wire EXCEPT ![c] = rest \o SubSeq(@, k + 1, Len(@))]
      BY <3>0
    <3>2. SubSeq(wire[c], k + 1, Len(wire[c])) \in Seq(Unit)
      BY WireRest
    <3>3. wire[c][k] \in Unit
      OBVIOUS
    <3>4. rest \o SubSeq(wire[c], k + 1, Len(wire[c])) \in Seq(Unit)
      BY <3>2, <3>3, WireTorn
    <3>5. QED  BY <3>1, <3>4
  <2>4. QED  BY <1>9, <2>2, <2>3 DEF ReadGarbage
<1>10. ASSUME NEW c \in Conns, ReadFails(c) \/ Resume(c) \/ OnPeerDisconnect(c)
       PROVE  TypeOK'
  BY <1>10 DEF ReadFails, Resume, OnPeerDisconnect
<1>11. ASSUME rpcs # <<>>
       PROVE  Tail(rpcs) \in Seq(Frame) /\ Head(rpcs) \in Frame
  BY <1>11, HeadTailProperties
<1>12. ASSUME HandleStoreFile \/ DropGarbage
       PROVE  TypeOK'
  <2>1. rpcs' \in Seq(Frame) /\ Head(rpcs) \in Frame
    BY <1>11, <1>12 DEF HandleStoreFile, DropGarbage, NextFrame
  <2>2. pending' \in [Addrs -> 0 .. MaxSends]
    BY <1>12, <2>1 DEF HandleStoreFile, DropGarbage, Frame
  <2>3. QED  BY <1>12, <2>1, <2>2 DEF HandleStoreFile, DropGarbage
<1>13. ASSUME NEW c \in Conns, CloseStream(c)
       PROVE  wg' \in [Conns -> Nat] /\ panicked' \in BOOLEAN
  <2>1. CASE wg[c] = 0
    BY <1>13, <2>1 DEF CloseStream
  <2>2. CASE wg[c] # 0
    <3>1. wg' = [wg EXCEPT ![c] = @ - 1] /\ panicked' = FALSE
      BY <1>13, <2>2 DEF CloseStream
    <3>2. wg[c] - 1 \in Nat
      BY <2>2
    <3>3. QED  BY <3>1, <3>2
  <2>3. QED  BY <2>1, <2>2
<1>14. ASSUME HandleStream
       PROVE  TypeOK'
  <2> DEFINE a == Head(rpcs).from
             c == peers[a]
             t == pending[a]
  <2>1. rpcs' \in Seq(Frame) /\ a \in Addrs
    BY <1>11, <1>14 DEF HandleStream, NextFrame, Frame
  <2>2. c \in Conns \cup {None} /\ t \in 0 .. MaxSends /\ pending' \in [Addrs -> 0 .. MaxSends]
    BY <1>14, <2>1 DEF HandleStream
  <2>3. /\ wg' \in [Conns -> Nat] /\ panicked' \in BOOLEAN
        /\ rcv' \in [conn : Conns, id : Transfers, left : 1 .. Pieces, good : BOOLEAN] \cup {Idle}
    <3>1. \/ c = None /\ UNCHANGED <<rcv, wg, panicked>>
          \/ c # None /\ t = 0 /\ CloseStream(c) /\ rcv' = rcv
          \/ /\ c # None /\ t # 0
             /\ rcv' = [conn |-> c, id |-> t, left |-> Pieces, good |-> TRUE]
             /\ UNCHANGED <<wg, panicked>>
      BY <1>14 DEF HandleStream
    <3> HIDE DEF c, t
    <3>2. CASE c = None /\ UNCHANGED <<rcv, wg, panicked>>
      BY <3>2
    <3>3. CASE c # None /\ t = 0 /\ CloseStream(c) /\ rcv' = rcv
      BY <1>13, <2>2, <3>3
    <3>4. CASE /\ c # None /\ t # 0
               /\ rcv' = [conn |-> c, id |-> t, left |-> Pieces, good |-> TRUE]
               /\ UNCHANGED <<wg, panicked>>
      BY <2>2, <3>4 DEF Transfers
    <3>5. QED  BY <3>1, <3>2, <3>3, <3>4
  <2>4. QED  BY <1>14, <2>1, <2>2, <2>3 DEF HandleStream
<1>15. ASSUME rcv # Idle, wire[rcv.conn] # <<>>
       PROVE  [wire EXCEPT ![rcv.conn] = Tail(@)] \in [Conns -> Seq(Unit)]
  BY <1>4, <1>15, Receiving
<1>16. ASSUME ReadPiece
       PROVE  TypeOK'
  <2>1. wire' \in [Conns -> Seq(Unit)]
    BY <1>15, <1>16 DEF ReadPiece, MayRead
  <2>2. rcv' \in [conn : Conns, id : Transfers, left : 1 .. Pieces, good : BOOLEAN] \cup {Idle}
    <3>1. rcv \in [conn : Conns, id : Transfers, left : 1 .. Pieces, good : BOOLEAN] /\ rcv.left > 1
      BY <1>16 DEF ReadPiece, MayRead
    <3>2. rcv' = [rcv EXCEPT !.left = @ - 1]
      BY <1>16 DEF ReadPiece
    <3>3. rcv.left - 1 \in 1 .. Pieces
      BY <3>1
    <3>4. QED  BY <3>1, <3>2, <3>3
  <2>3. QED  BY <1>16, <2>1, <2>2 DEF ReadPiece
<1>22. ASSUME ReadAmiss
       PROVE  TypeOK'
  <2>1. PICK n \in 0 .. rcv.left, rest \in Rests(Head(wire[rcv.conn])) :
          /\ wire' = [wire EXCEPT ![rcv.conn] = rest \o Tail(@)]
          /\ IF n = rcv.left
               THEN CloseStream(rcv.conn) /\ rcv' = Idle
               ELSE /\ rcv' = [rcv EXCEPT !.left = @ - n, !.good = FALSE]
                    /\ UNCHANGED <<wg, panicked>>
    BY <1>22 DEF ReadAmiss
  <2>2. rcv # Idle /\ wire[rcv.conn] # <<>> /\ rcv.conn \in Conns
    BY <1>22, Receiving DEF ReadAmiss, MayRead
  <2>3. rest \o Tail(wire[rcv.conn]) \in Seq(Unit)
    BY <1>4, <2>2, WireTorn
  <2>4. wire' \in [Conns -> Seq(Unit)]
    BY <2>1, <2>3
  <2>5. /\ wg' \in [Conns -> Nat] /\ panicked' \in BOOLEAN
        /\ rcv' \in [conn : Conns, id : Transfers, left : 1 .. Pieces, good : BOOLEAN] \cup {Idle}
    <3>1. CASE n = rcv.left
      BY <1>13, <2>1, <2>2, <3>1
    <3>2. CASE n # rcv.left
      <4>1. rcv' = [rcv EXCEPT !.left = @ - n, !.good = FALSE] /\ UNCHANGED <<wg, panicked>>
        BY <2>1, <3>2
      <4>2. rcv \in [conn : Conns, id : Transfers, left : 1 .. Pieces, good : BOOLEAN]
        BY <2>2
      <4>3. rcv.left - n \in 1 .. Pieces
        BY <3>2, <4>2
      <4>4. QED  BY <4>1, <4>2, <4>3
    <3>3. QED  BY <3>1, <3>2
  <2>6. UNCHANGED <<st, lost, peers, rpcs, pending, kept, via, skews>>
    BY <1>22 DEF ReadAmiss
  <2>7. QED  BY <2>4, <2>5, <2>6
<1>17. ASSUME ReadLastPiece
       PROVE  TypeOK'
  <2>1. wire' \in [Conns -> Seq(Unit)]
    BY <1>15, <1>17 DEF ReadLastPiece, MayRead
  <2>2. wg' \in [Conns -> Nat] /\ panicked' \in BOOLEAN
    BY <1>13, <1>17, Receiving DEF ReadLastPiece, MayRead
  <2>3. kept' \subseteq Transfers
    BY <1>17, Receiving DEF ReadLastPiece, MayRead
  <2>4. QED  BY <1>17, <2>1, <2>2, <2>3 DEF ReadLastPiece
<1>18. ASSUME Truncated \/ WriteFails
       PROVE  TypeOK'
  <2>1. wg' \in [Conns -> Nat] /\ panicked' \in BOOLEAN
    BY <1>13, <1>18, Receiving DEF Truncated, WriteFails
  <2>2. faults' \in 0 .. MaxFaults /\ short' \subseteq Conns /\ unread' \subseteq Conns
    BY <1>18, Receiving DEF Truncated, WriteFails
  <2>3. QED  BY <1>18, <2>1, <2>2 DEF Truncated, WriteFails
<1>19. CASE UNCHANGED vars
  BY <1>19 DEF vars
<1>20. QED
  BY <1>1, <1>2, <1>3, <1>7, <1>8, <1>9, <1>10, <1>12, <1>14, <1>16, <1>17, <1>18, <1>19,
     <1>21, <1>22
     DEF Next, HandleConn, Loop

-----------------------------------------------------------------------------
(* Who waits for which stream.                                             *)

Waits == ~panicked /\ Listed /\ OneStream /\ OneReader /\ Filed /\ StreamLast

(* A goroutine that does not wait has no stream anywhere. *)
LEMMA NoStream ==
    ASSUME TypeOK, Waits, NEW c \in Conns, st[c] # "waiting"
    PROVE  /\ wg[c] = 0 /\ rcv.conn # c
           /\ Open(c) => Streams(AddrOf[c]) = {}
  BY ConnectionsAssumption DEF TypeOK, Waits, OneStream

(* Who is listed for an address that has a stream is waiting for it. *)
LEMMA StreamWaits ==
    ASSUME TypeOK, Waits, NEW a \in Addrs, Streams(a) # {}
    PROVE  /\ peers[a] \in Conns /\ AddrOf[peers[a]] = a /\ Open(peers[a])
           /\ wg[peers[a]] = 1 /\ st[peers[a]] = "waiting" /\ rcv.conn # peers[a]
<1>1. peers[a] \in Conns /\ AddrOf[peers[a]] = a /\ rcv.conn # peers[a]
  BY DEF TypeOK, Waits, OneReader, Filed
<1>2. Open(peers[a])
  BY <1>1 DEF Waits, Listed
<1>3. QED  BY <1>1, <1>2 DEF Waits, OneStream

(* What is being read is what its goroutine waits for. *)
LEMMA ReadingWaits ==
    ASSUME TypeOK, Waits, rcv # Idle
    PROVE  /\ rcv.conn \in Conns /\ wg[rcv.conn] = 1 /\ st[rcv.conn] = "waiting"
           /\ peers[AddrOf[rcv.conn]] = rcv.conn /\ Streams(AddrOf[rcv.conn]) = {}
<1>1. rcv.conn \in Conns /\ AddrOf[rcv.conn] \in Addrs
  BY Receiving, ConnectionsAssumption
<1>2. wg[rcv.conn] = 1 /\ st[rcv.conn] = "waiting"
  BY <1>1 DEF Waits, OneStream
<1>3. peers[AddrOf[rcv.conn]] = rcv.conn
  BY <1>1, <1>2 DEF Waits, Listed, Open
<1>4. QED  BY <1>1, <1>2, <1>3 DEF Waits, OneReader

(* The loop has done with a stream it was reading. *)
LEMMA ReadingEnds ==
    ASSUME TypeOK, Waits, rcv # Idle, CloseStream(rcv.conn), rcv' = Idle,
           UNCHANGED <<st, peers, rpcs>>
    PROVE  Waits' /\ wg' = [wg EXCEPT ![rcv.conn] = 0]
<1> DEFINE c == rcv.conn
<1>1. /\ c \in Conns /\ wg[c] = 1 /\ st[c] = "waiting"
      /\ peers[AddrOf[c]] = c /\ Streams(AddrOf[c]) = {}
  BY ReadingWaits
<1>2. wg' = [wg EXCEPT ![c] = 0] /\ ~panicked'
  BY <1>1 DEF CloseStream
<1>3. \A a \in Addrs : Streams(a)' = Streams(a)
  BY DEF Streams
<1>4. Listed' /\ Filed' /\ StreamLast'
  BY DEF Waits, Listed, Filed, StreamLast, Open
<1>5. \A d \in Conns : rcv'.conn # d
  BY ConnectionsAssumption DEF Idle
<1>6. OneReader'
  <2>1. \A a \in Addrs : peers[a] # None => rcv'.conn # peers'[a]
    BY <1>5 DEF TypeOK
  <2>2. QED  BY <1>3, <2>1 DEF Waits, OneReader
<1>7. OneStream'
  <2> SUFFICES ASSUME NEW d \in Conns
               PROVE  /\ wg'[d] \in {0, 1}
                      /\ wg'[d] = 1 => st'[d] = "waiting"
                      /\ wg'[d] = 1 <=> \/ rcv'.conn = d
                                        \/ Open(d)' /\ Streams(AddrOf[d])' # {}
    BY DEF OneStream
  <2>1. Streams(AddrOf[d])' = Streams(AddrOf[d]) /\ (Open(d)' <=> Open(d))
    BY <1>3, ConnectionsAssumption DEF Open
  <2>2. CASE d = c
    BY <1>1, <1>2, <1>5, <2>1, <2>2 DEF TypeOK
  <2>3. CASE d # c
    <3>1. wg'[d] = wg[d] /\ rcv.conn # d
      BY <1>2, <2>3 DEF TypeOK
    <3>2. QED  BY <1>5, <2>1, <3>1 DEF Waits, OneStream
  <2>4. QED  BY <2>2, <2>3
<1>8. QED  BY <1>2, <1>4, <1>6, <1>7 DEF Waits

LEMMA WaitsInit == Init => Waits
<1> SUFFICES ASSUME Init
             PROVE  Waits
  OBVIOUS
<1>0. DOMAIN rpcs = {}
  BY DEF Init
<1>1. \A a : Streams(a) = {}
  BY <1>0 DEF Streams
<1>2. \A c \in Conns : ~Open(c) /\ peers[AddrOf[c]] = None /\ c # None /\ rcv.conn # c
  BY ConnectionsAssumption DEF Init, Open, Idle
<1>3. QED
  BY <1>0, <1>1, <1>2 DEF Init, Waits, Listed, OneStream, OneReader, Filed, StreamLast

LEMMA WaitsStep ==
    ASSUME ~Overlap, TypeOK, Waits, [Next]_vars
    PROVE  Waits'
<1>1. TypeOK'
  BY TypeStep
<1>2. \A c \in Conns : AddrOf[c] \in Addrs /\ c # None
  BY ConnectionsAssumption
<1>3. ASSUME UNCHANGED <<st, wg, peers, rpcs, panicked, rcv>>
      PROVE  Waits'
  BY <1>3 DEF Waits, Listed, OneStream, OneReader, Filed, StreamLast, Open, Streams
<1>4. ASSUME NEW c \in Conns, OnPeer(c)
      PROVE  Waits'
  <2> DEFINE a == AddrOf[c]
  <2>1. /\ st[c] = "new" /\ st' = [st EXCEPT ![c] = "reading"]
        /\ peers' = [peers EXCEPT ![a] = c] /\ ~panicked'
        /\ UNCHANGED <<wg, rpcs, rcv>>
    BY <1>4 DEF OnPeer
  <2>2. \A o \in Conns : AddrOf[o] = a => ~Open(o)
    BY <1>4 DEF OnPeer
  <2>3. Streams(a) = {}
    BY <1>2, <2>2, StreamWaits
  <2>4. \A b \in Addrs : Streams(b)' = Streams(b)
    BY <2>1 DEF Streams
  <2>5. \A d \in Conns : Open(d)' <=> d = c \/ Open(d)
    BY <2>1 DEF TypeOK, Open
  <2>6. \A b \in Addrs : peers'[b] = IF b = a THEN c ELSE peers[b]
    BY <2>1 DEF TypeOK
  <2>7. Listed'
    BY <1>2, <2>2, <2>5, <2>6 DEF Waits, Listed
  <2>8. OneStream'
    <3> SUFFICES ASSUME NEW d \in Conns
                 PROVE  /\ wg'[d] \in {0, 1}
                        /\ wg'[d] = 1 => st'[d] = "waiting"
                        /\ wg'[d] = 1 <=> \/ rcv'.conn = d
                                          \/ Open(d)' /\ Streams(AddrOf[d])' # {}
      BY DEF OneStream
    <3>1. CASE d = c
      <4>1. wg[c] = 0 /\ rcv.conn # c
        BY <2>1, NoStream
      <4>2. QED  BY <1>2, <2>1, <2>3, <2>4, <3>1, <4>1
    <3>2. CASE d # c
      <4>1. st'[d] = st[d]
        BY <2>1, <3>2 DEF TypeOK
      <4>2. QED  BY <1>2, <2>1, <2>4, <2>5, <3>2, <4>1 DEF Waits, OneStream
    <3>3. QED  BY <3>1, <3>2
  <2>9. OneReader'
    BY <2>1, <2>3, <2>4, <2>6 DEF Waits, OneReader
  <2>10. Filed' /\ StreamLast'
    BY <2>1, <2>6 DEF Waits, Filed, StreamLast
  <2>11. QED  BY <2>1, <2>7, <2>8, <2>9, <2>10 DEF Waits
<1>5. ASSUME NEW c \in Conns, ReadFails(c) \/ Resume(c)
      PROVE  Waits'
  <2>1. /\ Open(c) /\ wg[c] = 0 /\ st' = [st EXCEPT ![c] = st'[c]]
        /\ st'[c] \in {"reading", "closing"}
        /\ UNCHANGED <<wg, peers, rpcs, panicked, rcv>>
    BY <1>5, NoStream DEF ReadFails, Resume, Released, Open, TypeOK
  <2>2. \A d \in Conns : (Open(d)' <=> Open(d)) /\ (wg[d] = 1 => st'[d] = st[d])
    BY <2>1 DEF TypeOK, Open
  <2>3. \A a \in Addrs : Streams(a)' = Streams(a)
    BY <2>1 DEF Streams
  <2>4. OneStream'
    BY <1>2, <2>1, <2>2, <2>3 DEF Waits, OneStream
  <2>5. Listed' /\ OneReader' /\ Filed' /\ StreamLast'
    BY <2>1, <2>2, <2>3 DEF Waits, Listed, OneReader, Filed, StreamLast
  <2>6. QED  BY <2>1, <2>4, <2>5 DEF Waits
<1>6. ASSUME NEW c \in Conns, OnPeerDisconnect(c)
      PROVE  Waits'
  <2> DEFINE a == AddrOf[c]
  <2>1. /\ st[c] = "closing" /\ st' = [st EXCEPT ![c] = "closed"]
        /\ peers' = [peers EXCEPT ![a] = None] /\ ~panicked'
        /\ UNCHANGED <<wg, rpcs, rcv>>
    BY <1>6 DEF OnPeerDisconnect, Waits
  <2>2. Open(c) /\ wg[c] = 0 /\ rcv.conn # c /\ Streams(a) = {} /\ peers[a] = c
    BY <2>1, NoStream DEF Open, Waits, Listed
  <2>3. \A b \in Addrs : Streams(b)' = Streams(b)
    BY <2>1 DEF Streams
  <2>4. \A d \in Conns : Open(d)' <=> d # c /\ Open(d)
    BY <2>1 DEF TypeOK, Open
  <2>5. \A b \in Addrs : peers'[b] = IF b = a THEN None ELSE peers[b]
    BY <2>1 DEF TypeOK
  <2>6. Listed'
    BY <1>2, <2>2, <2>4, <2>5 DEF Waits, Listed
  <2>7. OneStream'
    <3>1. \A d \in Conns : d # c => st'[d] = st[d]
      BY <2>1 DEF TypeOK
    <3>2. QED  BY <1>2, <2>1, <2>2, <2>3, <2>4, <3>1 DEF Waits, OneStream
  <2>8. OneReader'
    BY <2>1, <2>2, <2>3, <2>5 DEF Waits, OneReader
  <2>9. Filed' /\ StreamLast'
    BY <2>1, <2>5 DEF Waits, Filed, StreamLast
  <2>10. QED  BY <2>1, <2>6, <2>7, <2>8, <2>9 DEF Waits
<1>7. ASSUME NEW c \in Conns, ReadMessage(c) \/ ReadGarbage(c)
      PROVE  Waits'
  <2>1. /\ st[c] = "reading" /\ Open(c)
        /\ UNCHANGED <<st, wg, peers, panicked, rcv>>
    BY <1>7 DEF ReadMessage, ReadGarbage, Next1, Open
  <2>2. PICK f \in Frame : /\ rpcs' = Append(rpcs, f)
                           /\ f.kind # "stream" /\ f.from = AddrOf[c]
    <3>1. CASE ReadMessage(c)
      <4>1. Head(wire[c]) \in Unit
        BY <3>1, WireRead DEF ReadMessage, Next1, TypeOK
      <4>2. [kind |-> "announce", from |-> AddrOf[c], id |-> Head(wire[c]).id] \in Frame
        BY <1>2, <4>1, ConnectionsAssumption DEF Unit, Frame, Transfers
      <4>3. QED  BY <3>1, <4>2 DEF ReadMessage, Enqueue
    <3>2. CASE ReadGarbage(c)
      <4>1. [kind |-> "garbage", from |-> AddrOf[c], id |-> 0] \in Frame
        BY <1>2, ConnectionsAssumption DEF Frame
      <4>2. QED  BY <3>2, <4>1 DEF ReadGarbage, Enqueue
    <3>3. QED  BY <1>7, <3>1, <3>2
  <2>3. rpcs \in Seq(Frame) /\ Streams(AddrOf[c]) = {}
    BY <2>1, NoStream DEF TypeOK
  <2>4. \A a \in Addrs : Streams(a)' = Streams(a)
    BY <2>2, <2>3, StreamsGrow
  <2>5. StreamLast'
    BY <2>2, <2>3, StreamLastGrows DEF Waits
  <2>6. QED
    BY <1>2, <2>1, <2>4, <2>5 DEF Waits, Listed, OneStream, OneReader, Filed, Open
<1>8. ASSUME NEW c \in Conns, ReadStream(c)
      PROVE  Waits'
  <2> DEFINE a == AddrOf[c]
  <2>1. /\ st[c] = "reading" /\ Open(c) /\ st' = [st EXCEPT ![c] = "waiting"]
        /\ UNCHANGED <<peers, panicked, rcv>>
    BY <1>8 DEF ReadStream, Next1, Open
  <2>2. wg[c] = 0 /\ rcv.conn # c /\ Streams(a) = {} /\ peers[a] = c
    BY <2>1, NoStream DEF Waits, Listed
  <2>3. wg' = [wg EXCEPT ![c] = 1]
    BY <1>8, <2>2 DEF ReadStream, TypeOK
  <2> DEFINE f == [kind |-> "stream", from |-> a, id |-> 0]
  <2>4. f \in Frame /\ rpcs' = Append(rpcs, f) /\ rpcs \in Seq(Frame)
    BY <1>2, <1>8, ConnectionsAssumption DEF Frame, ReadStream, Enqueue, TypeOK
  <2>5. f.kind = "stream" /\ f.from = a
    OBVIOUS
  <2> HIDE DEF f
  <2>6. \A b \in Addrs : Streams(b)' = IF b = a THEN {Len(rpcs) + 1} ELSE Streams(b)
    BY <2>2, <2>4, <2>5, StreamsGrow
  <2>7. StreamLast'
    BY <2>2, <2>4, <2>5, StreamLastGrows DEF Waits
  <2>8. \A d \in Conns : Open(d)' <=> Open(d)
    BY <2>1 DEF TypeOK, Open
  <2>9. OneStream'
    <3> SUFFICES ASSUME NEW d \in Conns
                 PROVE  /\ wg'[d] \in {0, 1}
                        /\ wg'[d] = 1 => st'[d] = "waiting"
                        /\ wg'[d] = 1 <=> \/ rcv'.conn = d
                                          \/ Open(d)' /\ Streams(AddrOf[d])' # {}
      BY DEF OneStream
    <3>1. CASE d = c
      <4>1. wg'[d] = 1 /\ st'[d] = "waiting" /\ Open(d)' /\ Streams(AddrOf[d])' # {}
        BY <1>2, <2>1, <2>3, <2>6, <2>8, <3>1 DEF TypeOK
      <4>2. QED  BY <4>1
    <3>2. CASE d # c /\ AddrOf[d] = a
      <4>1. ~Open(d)
        BY <2>2, <3>2 DEF Waits, Listed
      <4>2. st'[d] = st[d] /\ wg'[d] = wg[d]
        BY <2>1, <2>3, <3>2 DEF TypeOK
      <4>3. QED  BY <2>1, <2>8, <4>1, <4>2 DEF Waits, OneStream
    <3>3. CASE AddrOf[d] # a
      <4>1. st'[d] = st[d] /\ wg'[d] = wg[d] /\ Streams(AddrOf[d])' = Streams(AddrOf[d])
        BY <1>2, <2>1, <2>3, <2>6, <3>3 DEF TypeOK
      <4>2. QED  BY <2>1, <2>8, <4>1 DEF Waits, OneStream
    <3>4. QED  BY <3>1, <3>2, <3>3
  <2>10. OneReader'
    BY <1>2, <2>1, <2>2, <2>6 DEF Waits, OneReader
  <2>11. Listed' /\ Filed'
    BY <2>1, <2>8 DEF Waits, Listed, Filed
  <2>12. QED  BY <2>1, <2>7, <2>9, <2>10, <2>11 DEF Waits
<1>9. ASSUME rpcs # <<>>, rpcs' = Tail(rpcs), NEW a \in Addrs
      PROVE  /\ \A j, k \in Streams(a)' : j = k
             /\ Head(rpcs).kind = "stream" /\ Head(rpcs).from = a
                  => Streams(a) # {} /\ Streams(a)' = {}
             /\ Head(rpcs).kind # "stream" \/ Head(rpcs).from # a
                  => (Streams(a)' # {} <=> Streams(a) # {})
  BY <1>9, StreamsShrink DEF TypeOK, Waits, OneReader
<1>10. ASSUME rpcs # <<>>, rpcs' = Tail(rpcs)
       PROVE  StreamLast' /\ Head(rpcs) \in Frame
  BY <1>10, StreamLastShrinks, QueueShrinks DEF TypeOK, Waits
<1>11. ASSUME HandleStoreFile \/ DropGarbage
       PROVE  Waits'
  <2>1. /\ rpcs # <<>> /\ rpcs' = Tail(rpcs) /\ Head(rpcs).kind # "stream"
        /\ UNCHANGED <<st, wg, peers, panicked, rcv>>
    BY <1>11 DEF HandleStoreFile, DropGarbage, NextFrame
  <2>2. \A a \in Addrs : /\ Streams(a)' # {} <=> Streams(a) # {}
                         /\ \A j, k \in Streams(a)' : j = k
    BY <1>9, <2>1
  <2>3. QED
    BY <1>2, <1>10, <2>1, <2>2 DEF Waits, Listed, OneStream, OneReader, Filed, Open
<1>12. ASSUME HandleStream
       PROVE  Waits'
  <2>1. /\ rpcs # <<>> /\ rpcs' = Tail(rpcs) /\ Head(rpcs).kind = "stream" /\ rcv = Idle
        /\ UNCHANGED <<st, peers>>
    BY <1>12 DEF HandleStream, NextFrame
  <2> PICK a \in Addrs : a = Head(rpcs).from
    BY <1>10, <2>1 DEF Frame
  <2>2. Streams(a) # {} /\ Streams(a)' = {}
    BY <1>9, <2>1
  <2> PICK c \in Conns : c = peers[a]
    BY <2>2, StreamWaits
  <2>3. AddrOf[c] = a /\ Open(c) /\ wg[c] = 1 /\ st[c] = "waiting"
    BY <2>2, StreamWaits
  <2>4. \A d \in Conns : rcv.conn # d
    BY <2>1, Receiving
  <2>5. \A b \in Addrs : /\ \A j, k \in Streams(b)' : j = k
                         /\ b # a => (Streams(b)' # {} <=> Streams(b) # {})
    BY <1>9, <2>1
  <2>6. /\ ~panicked'
        /\ \/ rcv' = rcv /\ wg' = [wg EXCEPT ![c] = 0]
           \/ rcv'.conn = c /\ wg' = wg
    <3>1. \/ c # None /\ pending[a] = 0 /\ CloseStream(c) /\ rcv' = rcv
          \/ /\ c # None /\ pending[a] # 0
             /\ rcv' = [conn |-> c, id |-> pending[a], left |-> Pieces, good |-> TRUE]
             /\ UNCHANGED <<wg, panicked>>
      BY <1>2, <1>12 DEF HandleStream
    <3>2. QED  BY <2>3, <3>1 DEF CloseStream, Waits
  <2>7. \A d \in Conns : /\ Open(d)' <=> Open(d)
                         /\ Open(d) /\ AddrOf[d] = a => d = c
    BY <2>1 DEF Open, Waits, Listed
  <2>8. OneStream'
    <3> SUFFICES ASSUME NEW d \in Conns
                 PROVE  /\ wg'[d] \in {0, 1}
                        /\ wg'[d] = 1 => st'[d] = "waiting"
                        /\ wg'[d] = 1 <=> \/ rcv'.conn = d
                                          \/ Open(d)' /\ Streams(AddrOf[d])' # {}
      BY DEF OneStream
    <3>1. CASE d = c
      <4>1. Streams(AddrOf[d])' = {} /\ st'[d] = "waiting"
        BY <2>1, <2>2, <2>3, <3>1
      <4>2. CASE rcv' = rcv /\ wg' = [wg EXCEPT ![c] = 0]
        BY <2>4, <3>1, <4>1, <4>2 DEF TypeOK
      <4>3. CASE rcv'.conn = c /\ wg' = wg
        BY <2>3, <3>1, <4>1, <4>3
      <4>4. QED  BY <2>6, <4>2, <4>3
    <3>2. CASE d # c
      <4>1. wg'[d] = wg[d] /\ rcv'.conn # d /\ rcv.conn # d /\ st'[d] = st[d]
        BY <2>1, <2>4, <2>6, <3>2 DEF TypeOK
      <4>2. Open(d) => (Streams(AddrOf[d])' # {} <=> Streams(AddrOf[d]) # {})
        BY <1>2, <2>5, <2>7, <3>2
      <4>3. QED  BY <2>7, <4>1, <4>2 DEF Waits, OneStream
    <3>3. QED  BY <3>1, <3>2
  <2>9. OneReader'
    <3> SUFFICES ASSUME NEW b \in Addrs
                 PROVE  /\ \A j, k \in Streams(b)' : j = k
                        /\ Streams(b)' # {} => peers'[b] # None /\ rcv'.conn # peers'[b]
      BY DEF OneReader
    <3>1. ASSUME Streams(b)' # {}
          PROVE  peers'[b] # None /\ rcv'.conn # peers'[b]
      <4>1. b # a /\ Streams(b) # {}
        BY <2>2, <2>5, <3>1
      <4>2. peers[b] \in Conns /\ AddrOf[peers[b]] = b
        BY <4>1, StreamWaits
      <4>3. peers[b] # c
        BY <2>3, <4>1, <4>2
      <4>4. QED  BY <1>2, <2>1, <2>4, <2>6, <4>2, <4>3
    <3>2. QED  BY <2>5, <3>1
  <2>10. Listed' /\ Filed' /\ StreamLast'
    BY <1>10, <2>1, <2>7 DEF Waits, Listed, Filed
  <2>11. QED  BY <2>6, <2>8, <2>9, <2>10 DEF Waits
<1>13. ASSUME rcv # Idle, rcv'.conn = rcv.conn, UNCHANGED <<st, wg, peers, rpcs, panicked>>
       PROVE  Waits'
  BY <1>13 DEF Waits, Listed, OneStream, OneReader, Filed, StreamLast, Open, Streams
<1>18. ASSUME ReadPiece
       PROVE  Waits'
  <2>1. rcv # Idle /\ rcv' = [rcv EXCEPT !.left = @ - 1] /\ UNCHANGED <<st, wg, peers, rpcs, panicked>>
    BY <1>18 DEF ReadPiece, MayRead
  <2>2. rcv \in [conn : Conns, id : Transfers, left : 1 .. Pieces, good : BOOLEAN]
    BY <2>1 DEF TypeOK
  <2>3. QED  BY <1>13, <2>1, <2>2
<1>19. ASSUME ReadAmiss
       PROVE  Waits'
  <2>1. /\ rcv # Idle /\ UNCHANGED <<st, peers, rpcs>>
        /\ \/ CloseStream(rcv.conn) /\ rcv' = Idle
           \/ /\ \E n : rcv' = [rcv EXCEPT !.left = @ - n, !.good = FALSE]
              /\ UNCHANGED <<wg, panicked>>
    BY <1>19 DEF ReadAmiss, MayRead
  <2>2. rcv \in [conn : Conns, id : Transfers, left : 1 .. Pieces, good : BOOLEAN]
    BY <2>1 DEF TypeOK
  <2>3. QED  BY <1>13, <2>1, <2>2, ReadingEnds
<1>14. ASSUME ReadLastPiece \/ Truncated \/ WriteFails
       PROVE  Waits'
  BY <1>14, ReadingEnds DEF ReadLastPiece, Truncated, WriteFails, MayRead
<1>15. ASSUME NEW c \in Conns, Lose(c) \/ \E t \in Transfers : SendFile(c, t) \/ SendFails(c, t)
       PROVE  Waits'
  BY <1>3, <1>15 DEF Lose, SendFile, SendFails, Sent
<1>16. CASE UNCHANGED vars
  BY <1>3, <1>16 DEF vars
<1>17. QED
  BY <1>4, <1>5, <1>6, <1>7, <1>8, <1>11, <1>12, <1>14, <1>15, <1>16, <1>18, <1>19
     DEF Next, HandleConn, Loop

-----------------------------------------------------------------------------
(* What is next on a wire.                                                 *)

(* A step that does not concern a connection. *)
LEMMA Undisturbed ==
    ASSUME TypeOK, NEW c \in Conns, InOrder(c),
           wire'[c] = wire[c], lost'[c] = lost[c], wg'[c] = wg[c], st'[c] = st[c],
           rcv'.conn = c <=> rcv.conn = c, rcv.conn = c => rcv' = rcv,
           \A t \in Transfers : Announced(AddrOf[c], t) => Announced(AddrOf[c], t)'
    PROVE  InOrder(c)'
<1>1. wire[c] # <<>> => Head(wire[c]).id \in Transfers
  BY WireRead DEF TypeOK, Unit
<1>2. Ordered(wire[c])' /\ (~lost'[c] => Whole(wire[c])') /\ (~lost'[c] /\ wg'[c] = 1 => wire'[c] # <<>>)
  BY DEF InOrder, Ordered, Whole
<1>3. wire'[c] # <<>> => Awaited(c, Head(wire[c]))'
  <2> HAVE wire'[c] # <<>>
  <2> DEFINE u == Head(wire[c])
  <2>1. Awaited(c, u) /\ u.id \in Transfers /\ Head(wire'[c]) = u
    BY <1>1 DEF InOrder
  <2>2. Announced(AddrOf[c], u.id) => Announced(AddrOf[c], u.id)'
    <3>1. PICK t \in Transfers : t = u.id
      BY <2>1
    <3>2. u' = u
      OBVIOUS
    <3>3. Announced(AddrOf[c], t)' => Announced(AddrOf[c], u.id)'
      BY <3>1, <3>2 DEF Announced
    <3>4. QED  BY <3>1, <3>3
  <2>3. QED  BY <2>1, <2>2 DEF Awaited
<1>4. QED  BY <1>2, <1>3 DEF InOrder

LEMMA AnnouncedKept ==
    ASSUME UNCHANGED <<rpcs, pending>>, NEW a, NEW t, Announced(a, t)
    PROVE  Announced(a, t)'
  BY DEF Announced

(* Two open connections lead to two peers. *)
LEMMA Apart ==
    ASSUME Waits, NEW c \in Conns, NEW d \in Conns, Open(c), Open(d), c # d
    PROVE  AddrOf[c] # AddrOf[d]
  BY DEF Waits, Listed

(* Nothing is sent before a connection is open. *)
LEMMA UnusedStep ==
    ASSUME TypeOK, Waits, Unused, [Next]_vars
    PROVE  Unused'
<1> SUFFICES ASSUME NEW d \in Conns, st'[d] = "new"
             PROVE  wire'[d] = <<>>
  BY DEF Unused
<1>1. CASE UNCHANGED <<st, wire>>
  BY <1>1 DEF Unused
<1>2. ASSUME NEW c \in Conns, HandleConn(c) \/ OnPeer(c)
      PROVE  wire'[d] = <<>>
  <2>1. st'[d] = "new" => st[d] = "new" /\ d # c
    BY <1>2 DEF OnPeer, HandleConn, ReadMessage, ReadStream, ReadGarbage, ReadFails,
       Resume, OnPeerDisconnect, Next1, TypeOK
  <2>2. d # c => wire'[d] = wire[d]
    BY <1>2 DEF OnPeer, HandleConn, ReadMessage, ReadStream, ReadGarbage, ReadFails,
       Resume, OnPeerDisconnect, Next1, TypeOK
  <2>3. QED  BY <2>1, <2>2 DEF Unused
<1>3. ASSUME NEW c \in Conns, Lose(c) \/ \E t \in Transfers : SendFile(c, t) \/ SendFails(c, t)
      PROVE  wire'[d] = <<>>
  <2>1. Live(c) /\ st' = st /\ (d # c => wire'[d] = wire[d])
    BY <1>3 DEF Lose, SendFile, SendFails, Sent, TypeOK
  <2>2. QED  BY <2>1 DEF Live, Unused
<1>4. ASSUME ReadPiece \/ ReadLastPiece \/ ReadAmiss
      PROVE  wire'[d] = <<>>
  <2>1. /\ st' = st /\ rcv # Idle
        /\ \E w : wire' = [wire EXCEPT ![rcv.conn] = w]
    BY <1>4 DEF ReadPiece, ReadLastPiece, ReadAmiss, MayRead
  <2>2. d # rcv.conn
    BY <2>1, ReadingWaits
  <2>3. QED  BY <2>1, <2>2 DEF Unused, TypeOK
<1>5. ASSUME HandleStoreFile \/ DropGarbage \/ HandleStream \/ Truncated \/ WriteFails
      PROVE  wire'[d] = <<>>
  BY <1>1, <1>5 DEF HandleStoreFile, DropGarbage, HandleStream, Truncated, WriteFails
<1>6. QED  BY <1>1, <1>2, <1>3, <1>4, <1>5 DEF Next, Loop, vars

(* The units a goroutine and the loop read, one after the other. *)
LEMMA OrderStep ==
    ASSUME ~Overlap, TypeOK, Waits, Unused, AllInOrder, [Next]_vars
    PROVE  AllInOrder'
<1> SUFFICES ASSUME NEW d \in Conns, Steady(d)'
             PROVE  InOrder(d)'
  BY DEF AllInOrder
<1>1. TypeOK' /\ Waits'
  BY TypeStep, WaitsStep
<1>2. Live(d)' /\ d \notin short \cup unread
  <2>1. short \subseteq short' /\ unread \subseteq unread'
    <3>1. CASE UNCHANGED <<short, unread>>
      BY <3>1
    <3>2. \A c \in Conns, t \in Transfers : SendFails(c, t) => short \subseteq short' /\ unread' = unread
      BY DEF SendFails
    <3>3. WriteFails => unread \subseteq unread' /\ short' = short
      BY DEF WriteFails
    <3>4. \A c \in Conns : OnPeer(c) \/ HandleConn(c) \/ Lose(c) => UNCHANGED <<short, unread>>
      BY DEF HandleConn, OnPeer, ReadMessage, ReadStream, ReadGarbage, ReadFails, Resume,
         OnPeerDisconnect, Lose, skews
    <3>5. \A c \in Conns, t \in Transfers : SendFile(c, t) => UNCHANGED <<short, unread>>
      BY DEF SendFile, skews
    <3>6. Loop \/ UNCHANGED vars => UNCHANGED <<short, unread>>
      BY DEF Loop, HandleStoreFile, DropGarbage, HandleStream, ReadPiece, ReadLastPiece,
         ReadAmiss, Truncated, vars, skews
    <3>7. QED  BY <3>1, <3>2, <3>3, <3>4, <3>5, <3>6 DEF Next
  <2>2. QED  BY <2>1 DEF Steady
<1>3. Live(d) => InOrder(d) /\ Open(d)
  BY <1>2 DEF AllInOrder, Steady, Live, Open
<1>4. \A c \in Conns : AddrOf[c] \in Addrs /\ wire[c] \in Seq(Unit)
  BY ConnectionsAssumption DEF TypeOK
<1>5. ASSUME NEW c \in Conns, NEW t \in Transfers, SendFile(c, t)
      PROVE  InOrder(d)'
  <2>1. /\ Live(c) /\ ~lost[c] /\ wire' = [wire EXCEPT ![c] = @ \o Transfer(t, Pieces)]
        /\ UNCHANGED <<st, lost, wg, rpcs, pending, rcv>>
    BY <1>5 DEF SendFile, Sent
  <2>2. Live(d) /\ InOrder(d)
    BY <1>2, <1>3, <2>1 DEF Live
  <2>3. \A a \in Addrs, s \in Transfers : Announced(a, s) => Announced(a, s)'
    BY <2>1, AnnouncedKept
  <2>4. CASE d # c
    BY <1>4, <2>1, <2>2, <2>3, <2>4, Undisturbed DEF TypeOK
  <2>5. CASE d = c
    <3> DEFINE w == wire[c]
               v == w \o Transfer(t, Pieces)
    <3>1. wire'[d] = v /\ w \in Seq(Unit)
      BY <1>4, <2>1, <2>5 DEF TypeOK
    <3>2. Ordered(w) /\ Whole(w) /\ (wg[c] = 1 => w # <<>>) /\ (w # <<>> => Awaited(c, Head(w)))
      BY <2>1, <2>2, <2>5 DEF InOrder
    <3>3. /\ Ordered(v) /\ Whole(v) /\ v # <<>>
          /\ w = <<>> => Head(v) = Part("announce", t, 0)
          /\ w # <<>> => Head(v) = Head(w)
      BY <3>1, <3>2, WireSent
    <3> HIDE DEF v
    <3>4. Ordered(wire[d])' /\ Whole(wire[d])' /\ wire'[d] # <<>>
      BY <3>1, <3>3 DEF Ordered, Whole
    <3>5. Awaited(d, Head(wire[d]))'
      <4>1. CASE w = <<>>
        <5>1. wg'[d] = 0 /\ rcv'.conn # d
          <6>1. wg[c] # 1
            BY <3>2, <4>1
          <6>2. QED  BY <2>1, <2>5, <6>1 DEF Waits, OneStream
        <5>2. Head(wire'[d]).kind = "announce"
          BY <3>1, <3>3, <4>1 DEF Part
        <5>3. QED  BY <5>1, <5>2 DEF Awaited
      <4>2. CASE w # <<>>
        <5>1. Head(wire'[d]) = Head(wire[d]) /\ Awaited(d, Head(wire[d]))
          BY <2>5, <3>1, <3>2, <3>3, <4>2
        <5>2. Announced(AddrOf[d], Head(wire[d]).id) => Announced(AddrOf[d], Head(wire[d]).id)'
          BY <2>1, <5>1 DEF Announced
        <5>3. QED  BY <2>1, <5>1, <5>2 DEF Awaited
      <4>3. QED  BY <4>1, <4>2
    <3>6. QED  BY <3>4, <3>5 DEF InOrder
  <2>6. QED  BY <2>4, <2>5
<1>20. ASSUME NEW c \in Conns, NEW t \in Transfers, SendFails(c, t)
       PROVE  InOrder(d)'
  <2>1. PICK k \in 0 .. Pieces - 1 : Sent(c, t, k)
    BY <1>20 DEF SendFails
  <2>2. /\ wire' = [wire EXCEPT ![c] = @ \o Transfer(t, k)]
        /\ UNCHANGED <<st, lost, wg, rpcs, pending, rcv>>
    BY <2>1 DEF Sent
  <2>3. d # c
    BY <1>20 DEF SendFails, Steady
  <2>4. Live(d) /\ InOrder(d) /\ wire'[d] = wire[d]
    BY <1>2, <1>3, <2>2, <2>3 DEF Live, TypeOK
  <2>5. QED  BY <1>4, <2>2, <2>4, AnnouncedKept, Undisturbed
<1>6. ASSUME NEW c \in Conns, Lose(c)
      PROVE  InOrder(d)'
  <2>1. PICK k \in 0 .. Len(wire[c]) : wire' = [wire EXCEPT ![c] = SubSeq(@, 1, k)]
    BY <1>6 DEF Lose
  <2>2. /\ Live(c) /\ lost' = [lost EXCEPT ![c] = TRUE]
        /\ UNCHANGED <<st, wg, rpcs, pending, rcv>>
    BY <1>6 DEF Lose
  <2>3. Live(d) /\ InOrder(d)
    BY <1>2, <1>3, <2>2 DEF Live
  <2>4. \A a \in Addrs, s \in Transfers : Announced(a, s) => Announced(a, s)'
    BY <2>2, AnnouncedKept
  <2>5. CASE d # c
    BY <1>4, <2>1, <2>2, <2>3, <2>4, <2>5, Undisturbed DEF TypeOK
  <2>6. CASE d = c
    <3> DEFINE v == SubSeq(wire[d], 1, k)
    <3>1. wire'[d] = v /\ lost'[d] /\ Ordered(wire[d])
      BY <2>1, <2>2, <2>3, <2>6 DEF TypeOK, InOrder
    <3>2. Ordered(v) /\ (v # <<>> => wire[d] # <<>> /\ Head(v) = Head(wire[d]))
      BY <1>4, <2>6, <3>1, WireCut
    <3> HIDE DEF v
    <3>3. Ordered(wire[d])'
      BY <3>1, <3>2 DEF Ordered
    <3>4. ASSUME wire'[d] # <<>>
          PROVE  Awaited(d, Head(wire[d]))'
      <4>1. Head(wire'[d]) = Head(wire[d]) /\ Awaited(d, Head(wire[d]))
        BY <2>3, <3>1, <3>2, <3>4 DEF InOrder
      <4>2. Announced(AddrOf[d], Head(wire[d]).id) => Announced(AddrOf[d], Head(wire[d]).id)'
        BY <2>2, <4>1 DEF Announced
      <4>3. QED  BY <2>2, <4>1, <4>2 DEF Awaited
    <3>5. QED  BY <3>1, <3>3, <3>4 DEF InOrder
  <2>7. QED  BY <2>5, <2>6
<1>7. ASSUME NEW c \in Conns, OnPeer(c)
      PROVE  InOrder(d)'
  <2>1. /\ st[c] = "new" /\ st' = [st EXCEPT ![c] = "reading"]
        /\ UNCHANGED <<wire, lost, wg, rpcs, pending, rcv>>
    BY <1>7 DEF OnPeer
  <2>2. CASE d = c
    <3>1. wire'[d] = <<>> /\ wg'[d] = 0
      BY <2>1, <2>2, NoStream DEF Unused
    <3>2. QED  BY <3>1 DEF InOrder, Ordered, Whole
  <2>3. CASE d # c
    <3>1. st'[d] = st[d] /\ Live(d)
      BY <1>2, <2>1, <2>3 DEF TypeOK, Live
    <3>2. InOrder(d) /\ \A t \in Transfers : Announced(AddrOf[d], t) => Announced(AddrOf[d], t)'
      BY <1>2, <1>3, <2>1, <3>1, AnnouncedKept
    <3>3. QED  BY <2>1, <3>1, <3>2, Undisturbed
  <2>4. QED  BY <2>2, <2>3
<1>8. ASSUME NEW c \in Conns, st[c] = "reading", wire[c] # <<>>
      PROVE  /\ Head(wire[c]) \in Unit /\ Live(c) /\ Open(c) /\ wg[c] = 0 /\ rcv.conn # c
             /\ d = c =>
                  /\ InOrder(c)
                  /\ \/ Head(wire[c]).kind = "announce"
                     \/ Head(wire[c]).kind = "tag" /\ Announced(AddrOf[c], Head(wire[c]).id)
  BY <1>3, <1>4, <1>8, WireRead, NoStream DEF Live, Open, InOrder, Awaited
<1>9. ASSUME NEW c \in Conns, ReadMessage(c)
      PROVE  InOrder(d)'
  <2> DEFINE u == Head(wire[c])
             f == [kind |-> "announce", from |-> AddrOf[c], id |-> u.id]
             w == Tail(wire[c])
  <2>1. /\ st[c] = "reading" /\ wire[c] # <<>> /\ u.kind = "announce"
        /\ rpcs' = Append(rpcs, f) /\ wire' = [wire EXCEPT ![c] = w]
        /\ UNCHANGED <<st, lost, wg, pending, rcv>>
    BY <1>9 DEF ReadMessage, Next1, Enqueue
  <2>2. u \in Unit /\ (d = c => InOrder(c)) /\ Live(c) /\ Open(c) /\ wg[c] = 0 /\ rcv.conn # c
    BY <1>8, <2>1
  <2>3. f \in Frame /\ u.id \in Transfers /\ f.kind = "announce" /\ f.from = AddrOf[c] /\ f.id = u.id
    BY <1>4, <2>2, ConnectionsAssumption DEF Unit, Frame, Transfers
  <2>4. PICK t \in Transfers : t = u.id
    BY <2>3
  <2>5. Announced(AddrOf[c], t)'
    <3>1. PICK g \in Frame : g = f
      BY <2>3
    <3>2. g.kind = "announce" /\ g.from = AddrOf[c] /\ g.id = t /\ rpcs' = Append(rpcs, g)
      BY <2>1, <2>3, <2>4, <3>1
    <3>3. Announced(g.from, g.id)'
      BY <2>1, <3>2, AnnouncedGrows DEF TypeOK
    <3>4. QED  BY <3>2, <3>3
  <2>6. CASE d = c
    <3>1. /\ w \in Seq(Unit) /\ Ordered(w) /\ (~lost[c] => Whole(w))
          /\ w # <<>> => Follows(u, Head(w))
      BY <1>4, <2>1, <2>2, <2>6, WireRead DEF InOrder
    <3> HIDE DEF w, u
    <3>2. wire'[d] = w
      BY <2>1, <2>6 DEF TypeOK
    <3>3. Ordered(wire[d])' /\ (~lost'[d] => Whole(wire[d])') /\ wg'[d] = 0 /\ rcv'.conn # d /\ st'[d] = "reading"
      BY <2>1, <2>2, <2>6, <3>1, <3>2 DEF Ordered, Whole
    <3>4. ASSUME wire'[d] # <<>>
          PROVE  Awaited(d, Head(wire[d]))'
      <4>1. Head(wire'[d]) = Part("tag", t, 0)
        BY <2>1, <2>4, <3>1, <3>2, <3>4 DEF Follows
      <4>2. Head(wire'[d]).kind = "tag" /\ Head(wire'[d]).id = t
        BY <4>1 DEF Part
      <4>3. Announced(AddrOf[d], Head(wire[d]).id)'
        BY <2>5, <2>6, <4>2 DEF Announced
      <4>4. QED  BY <3>3, <4>2, <4>3 DEF Awaited
    <3>5. QED  BY <3>3, <3>4 DEF InOrder
  <2>7. CASE d # c
    <3>1. Live(d) /\ InOrder(d) /\ AddrOf[d] # AddrOf[c]
      BY <1>2, <1>3, <2>1, <2>2, <2>7, Apart DEF Live
    <3>2. \A s \in Transfers : Announced(AddrOf[d], s) => Announced(AddrOf[d], s)'
      BY <2>1, <2>3, <3>1, AnnouncedGrows DEF TypeOK, IsAnnouncement
    <3>3. QED  BY <2>1, <2>7, <3>1, <3>2, Undisturbed DEF TypeOK
  <2>8. QED  BY <2>6, <2>7
<1>10. ASSUME NEW c \in Conns, ReadStream(c)
       PROVE  InOrder(d)'
  <2> DEFINE u == Head(wire[c])
             f == [kind |-> "stream", from |-> AddrOf[c], id |-> 0]
             w == Tail(wire[c])
  <2>1. /\ st[c] = "reading" /\ wire[c] # <<>> /\ u.kind # "announce"
        /\ rpcs' = Append(rpcs, f) /\ wire' = [wire EXCEPT ![c] = w]
        /\ wg' = [wg EXCEPT ![c] = @ + 1] /\ st' = [st EXCEPT ![c] = "waiting"]
        /\ UNCHANGED <<lost, pending, rcv>>
    BY <1>10 DEF ReadStream, Next1, Enqueue
  <2>2. /\ u \in Unit /\ Live(c) /\ wg[c] = 0 /\ rcv.conn # c
        /\ d = c => InOrder(c) /\ u.kind = "tag" /\ Announced(AddrOf[c], u.id)
    BY <1>8, <2>1
  <2>3. f \in Frame /\ u.id \in Transfers /\ \A a : ~IsAnnouncement(f, a)
    BY <1>4, <2>2, ConnectionsAssumption DEF Unit, Frame, IsAnnouncement
  <2>4. \A a \in Addrs, s \in Transfers : Announced(a, s) => Announced(a, s)'
    BY <2>1, <2>3, AnnouncedGrows DEF TypeOK
  <2>5. PICK t \in Transfers : t = u.id
    BY <2>3
  <2>6. d = c => Announced(AddrOf[c], t)'
    BY <1>4, <2>2, <2>4, <2>5
  <2>7. CASE d = c
    <3>1. /\ w \in Seq(Unit) /\ Ordered(w) /\ (~lost[c] => Whole(w) /\ w # <<>>)
          /\ w # <<>> => Follows(u, Head(w))
      BY <1>4, <2>1, <2>2, <2>7, WireRead DEF InOrder
    <3> HIDE DEF w, u
    <3>2. wire'[d] = w
      BY <2>1, <2>7 DEF TypeOK
    <3>3. /\ Ordered(wire[d])' /\ (~lost'[d] => Whole(wire[d])' /\ wire'[d] # <<>>)
          /\ wg'[d] = 1 /\ rcv'.conn # d /\ st'[d] = "waiting"
      BY <2>1, <2>2, <2>7, <3>1, <3>2 DEF Ordered, Whole, TypeOK
    <3>4. ASSUME wire'[d] # <<>>
          PROVE  Awaited(d, Head(wire[d]))'
      <4>1. Head(wire'[d]) = Part("body", t, 1)
        BY <2>2, <2>5, <2>7, <3>1, <3>2, <3>4 DEF Follows
      <4>2. Head(wire'[d]).kind = "body" /\ Head(wire'[d]).piece = 1 /\ Head(wire'[d]).id = t
        BY <4>1 DEF Part
      <4>3. Announced(AddrOf[d], Head(wire[d]).id)'
        BY <2>6, <2>7, <4>2 DEF Announced
      <4>4. QED  BY <3>3, <4>2, <4>3 DEF Awaited
    <3>5. QED  BY <3>3, <3>4 DEF InOrder
  <2>8. CASE d # c
    <3>1. st'[d] = st[d] /\ Live(d) /\ InOrder(d)
      BY <1>2, <1>3, <2>1, <2>8 DEF Live, TypeOK
    <3>2. QED  BY <1>4, <2>1, <2>4, <2>8, <3>1, Undisturbed DEF TypeOK
  <2>9. QED  BY <2>7, <2>8
<1>11. ASSUME NEW c \in Conns, ReadGarbage(c)
       PROVE  InOrder(d)'
  <2> DEFINE f == [kind |-> "garbage", from |-> AddrOf[c], id |-> 0]
  <2>1. /\ st[c] = "reading" /\ wire[c] # <<>> /\ Head(wire[c]).kind = "body"
        /\ rpcs' = Append(rpcs, f) /\ \E w : wire' = [wire EXCEPT ![c] = w]
        /\ UNCHANGED <<st, lost, wg, pending, rcv>>
    BY <1>11 DEF ReadGarbage, Next1, Enqueue
  <2>2. d # c
    BY <1>8, <2>1
  <2>3. f \in Frame /\ \A a : ~IsAnnouncement(f, a)
    BY <1>4, ConnectionsAssumption DEF Frame, IsAnnouncement
  <2> HIDE DEF f
  <2>4. \A a \in Addrs, s \in Transfers : Announced(a, s) => Announced(a, s)'
    BY <2>1, <2>3, AnnouncedGrows DEF TypeOK
  <2>5. Live(d) /\ InOrder(d) /\ wire'[d] = wire[d]
    BY <1>2, <1>3, <2>1, <2>2 DEF Live, TypeOK
  <2>6. QED  BY <1>4, <2>1, <2>4, <2>5, Undisturbed
<1>12. ASSUME NEW c \in Conns, ReadFails(c) \/ OnPeerDisconnect(c)
       PROVE  InOrder(d)'
  <2>1. /\ \E s \in {"closing", "closed"} : st' = [st EXCEPT ![c] = s]
        /\ UNCHANGED <<wire, lost, wg, rpcs, pending, rcv>>
    BY <1>12 DEF ReadFails, OnPeerDisconnect
  <2>2. d # c /\ st'[d] = st[d] /\ Live(d)
    BY <1>2, <2>1 DEF Live, TypeOK
  <2>3. InOrder(d) /\ \A t \in Transfers : Announced(AddrOf[d], t) => Announced(AddrOf[d], t)'
    BY <1>2, <1>3, <2>1, <2>2, AnnouncedKept
  <2>4. QED  BY <2>1, <2>2, <2>3, Undisturbed
<1>13. ASSUME NEW c \in Conns, Resume(c)
       PROVE  InOrder(d)'
  <2>1. /\ st[c] = "waiting" /\ wg[c] = 0 /\ st' = [st EXCEPT ![c] = "reading"]
        /\ UNCHANGED <<wire, lost, wg, rpcs, pending, rcv>>
    BY <1>13 DEF Resume, Released
  <2>2. Live(d) /\ InOrder(d)
    BY <1>2, <1>3, <2>1 DEF Live, TypeOK
  <2>3. CASE d = c
    <3>1. rcv.conn # d /\ st'[d] = "reading"
      BY <2>1, <2>3 DEF TypeOK, Waits, OneStream
    <3>2. wire[d] # <<>> => Head(wire[d]).kind = "announce"
      BY <2>1, <2>2, <2>3 DEF InOrder, Awaited
    <3>3. wire'[d] # <<>> => Awaited(d, Head(wire[d]))'
      BY <2>1, <2>3, <3>1, <3>2 DEF Awaited
    <3>4. Ordered(wire[d])' /\ (~lost'[d] => Whole(wire[d])') /\ (~lost'[d] /\ wg'[d] = 1 => wire'[d] # <<>>)
      BY <2>1, <2>2 DEF InOrder, Ordered, Whole
    <3>5. QED  BY <3>3, <3>4 DEF InOrder
  <2>4. CASE d # c
    <3>1. st'[d] = st[d] /\ \A t \in Transfers : Announced(AddrOf[d], t) => Announced(AddrOf[d], t)'
      BY <2>1, <2>4, AnnouncedKept DEF TypeOK
    <3>2. QED  BY <2>1, <2>2, <3>1, Undisturbed
  <2>5. QED  BY <2>3, <2>4
<1>14. ASSUME HandleStoreFile \/ DropGarbage
       PROVE  InOrder(d)'
  <2>1. /\ rpcs # <<>> /\ rpcs' = Tail(rpcs) /\ Head(rpcs) \in Frame
        /\ UNCHANGED <<st, wire, lost, wg, rcv>>
    BY <1>14, QueueShrinks DEF HandleStoreFile, DropGarbage, NextFrame, TypeOK
  <2>2. Live(d) /\ InOrder(d)
    BY <1>2, <1>3, <2>1 DEF Live
  <2>3. \A a \in Addrs : pending'[a] = IF IsAnnouncement(Head(rpcs), a) THEN Head(rpcs).id ELSE pending[a]
    BY <1>14, <2>1 DEF HandleStoreFile, DropGarbage, NextFrame, IsAnnouncement, TypeOK
  <2>4. \A a \in Addrs, t \in Transfers : Announced(a, t) => Announced(a, t)'
    BY <2>1, <2>3, AnnouncedShrinks DEF TypeOK
  <2>5. QED  BY <1>4, <2>1, <2>2, <2>4, Undisturbed
<1>15. ASSUME HandleStream
       PROVE  InOrder(d)'
  <2>1. /\ rpcs # <<>> /\ rpcs' = Tail(rpcs) /\ Head(rpcs).kind = "stream" /\ rcv = Idle
        /\ Head(rpcs) \in Frame /\ UNCHANGED <<st, wire, lost, peers>>
    BY <1>15, QueueShrinks DEF HandleStream, NextFrame, TypeOK
  <2>2. PICK a \in Addrs : a = Head(rpcs).from
    BY <2>1 DEF Frame
  <2>3. Streams(a) # {}
    <3>1. 1 \in DOMAIN rpcs /\ Head(rpcs) = rpcs[1]
      BY <2>1, QueueShrinks DEF TypeOK
    <3>2. 1 \in Streams(a)
      BY <2>1, <2>2, <3>1 DEF Streams
    <3>3. QED  BY <3>2
  <2>4. PICK c \in Conns : c = peers[a]
    BY <2>3, StreamWaits
  <2>5. AddrOf[c] = a /\ Open(c) /\ wg[c] = 1 /\ st[c] = "waiting"
    BY <2>3, <2>4, StreamWaits
  <2>6. \A e \in Conns : rcv.conn # e
    BY <2>1, Receiving
  <2>7. pending' = [pending EXCEPT ![a] = 0]
    BY <1>15, <2>2 DEF HandleStream
  <2>8. \/ pending[a] = 0 /\ CloseStream(c) /\ rcv' = rcv
        \/ /\ pending[a] # 0 /\ wg' = wg
           /\ rcv' = [conn |-> c, id |-> pending[a], left |-> Pieces, good |-> TRUE]
    BY <1>15, <2>2, <2>4, ConnectionsAssumption DEF HandleStream
  <2>9. Live(d) /\ InOrder(d) /\ Open(d)
    BY <1>2, <1>3, <2>1 DEF Live
  <2>10. CASE d # c
    <3>1. AddrOf[d] # a
      BY <2>5, <2>9, <2>10, Apart
    <3>2. pending'[AddrOf[d]] = pending[AddrOf[d]] /\ ~IsAnnouncement(Head(rpcs), AddrOf[d])
      BY <1>4, <2>1, <2>7, <3>1 DEF IsAnnouncement, TypeOK
    <3>3. \A t \in Transfers : Announced(AddrOf[d], t) => Announced(AddrOf[d], t)'
      BY <1>4, <2>1, <3>2, AnnouncedShrinks DEF TypeOK
    <3>4. wg'[d] = wg[d] /\ rcv'.conn # d /\ rcv.conn # d
      BY <2>6, <2>8, <2>10 DEF CloseStream, TypeOK
    <3>5. QED  BY <2>1, <2>9, <3>3, <3>4, Undisturbed
  <2>11. CASE d = c
    <3> DEFINE u == Head(wire[c])
    <3>1. wire[c] # <<>> => u = Part("body", pending[a], 1) /\ pending[a] \in Transfers
      <4> HAVE wire[c] # <<>>
      <4>1. u.kind = "body" /\ u.piece = 1 /\ Announced(a, u.id) /\ u \in Unit
        BY <1>4, <2>5, <2>6, <2>9, <2>11, WireRead DEF InOrder, Awaited
      <4>2. pending[a] = u.id
        BY <2>1, <2>2, <4>1, HeadAnnounced DEF TypeOK, Waits
      <4> HIDE DEF u
      <4>3. QED  BY <4>1, <4>2 DEF Unit, Part
    <3>2. Ordered(wire[d])' /\ (~lost'[d] => Whole(wire[d])') /\ (~lost'[d] => wire'[d] # <<>>)
      BY <2>1, <2>5, <2>9, <2>11 DEF InOrder, Ordered, Whole
    <3>3. CASE pending[a] = 0 /\ CloseStream(c) /\ rcv' = rcv
      <4>1. wire'[d] = <<>>
        BY <2>1, <2>11, <3>1, <3>3 DEF Transfers
      <4>2. QED  BY <3>2, <4>1 DEF InOrder
    <3>4. CASE /\ pending[a] # 0 /\ wg' = wg
               /\ rcv' = [conn |-> c, id |-> pending[a], left |-> Pieces, good |-> TRUE]
      <4>1. /\ rcv'.conn = d /\ rcv'.id = pending[a] /\ Pieces - rcv'.left + 1 = 1
            /\ wg'[d] = 1 /\ st'[d] = "waiting"
        BY <2>1, <2>5, <2>11, <3>4, ConnectionsAssumption
      <4>2. wire'[d] # <<>> => Head(wire'[d]) = Part("body", pending[a], 1)
        BY <2>1, <2>11, <3>1
      <4>3. wire'[d] # <<>> => Awaited(d, Head(wire[d]))'
        BY <4>1, <4>2 DEF Awaited, Part
      <4>4. QED  BY <3>2, <4>3 DEF InOrder
    <3>5. QED  BY <2>8, <3>3, <3>4
  <2>12. QED  BY <2>10, <2>11
<1>16. ASSUME ReadPiece \/ ReadLastPiece
       PROVE  InOrder(d)'
  <2>1. PICK c \in Conns : c = rcv.conn
    BY <1>16, ReadingWaits DEF ReadPiece, ReadLastPiece, MayRead
  <2> DEFINE u == Head(wire[c])
             w == Tail(wire[c])
  <2>2. /\ rcv # Idle /\ wire[c] # <<>> /\ wire' = [wire EXCEPT ![c] = w]
        /\ UNCHANGED <<st, lost, rpcs, pending>>
    BY <1>16, <2>1 DEF ReadPiece, ReadLastPiece, MayRead
  <2>3. wg[c] = 1 /\ st[c] = "waiting"
    BY <2>1, <2>2, ReadingWaits
  <2>4. Live(d) /\ InOrder(d)
    BY <1>2, <1>3, <2>2, <2>3 DEF Live
  <2>5. \A a \in Addrs, t \in Transfers : Announced(a, t) => Announced(a, t)'
    BY <2>2, AnnouncedKept
  <2>6. rcv \in [conn : Conns, id : Transfers, left : 1 .. Pieces, good : BOOLEAN]
    BY <2>2 DEF TypeOK
  <2>7. \/ /\ rcv.left > 1 /\ wg' = wg
           /\ rcv'.conn = c /\ rcv'.id = rcv.id /\ rcv'.left = rcv.left - 1
        \/ rcv.left = 1 /\ wg' = [wg EXCEPT ![c] = 0] /\ rcv' = Idle
    <3>1. CASE ReadPiece
      <4>1. rcv' = [rcv EXCEPT !.left = @ - 1] /\ rcv.left > 1 /\ wg' = wg
        BY <3>1 DEF ReadPiece
      <4>2. QED  BY <2>1, <2>6, <4>1
    <3>2. CASE ReadLastPiece
      <4>1. wg' = [wg EXCEPT ![c] = 0]
        BY <2>1, <2>2, <3>2, ReadingEnds DEF ReadLastPiece
      <4>2. QED  BY <3>2, <4>1 DEF ReadLastPiece
    <3>3. QED  BY <1>16, <3>1, <3>2
  <2>8. \A e \in Conns : Idle.conn # e
    BY ConnectionsAssumption DEF Idle
  <2>9. CASE d # c
    <3>1. wire'[d] = wire[d] /\ wg'[d] = wg[d] /\ rcv.conn # d /\ rcv'.conn # d
      BY <2>1, <2>2, <2>7, <2>8, <2>9 DEF TypeOK
    <3>2. QED  BY <1>4, <2>2, <2>4, <2>5, <3>1, Undisturbed
  <2>10. CASE d = c
    <3>1. u = Part("body", rcv.id, Pieces - rcv.left + 1)
      BY <2>1, <2>2, <2>4, <2>10 DEF InOrder, Awaited
    <3>2. u.kind = "body" /\ u.id = rcv.id /\ u.piece = Pieces - rcv.left + 1
      BY <3>1 DEF Part
    <3>3. /\ w \in Seq(Unit) /\ Ordered(w)
          /\ ~lost[c] => Whole(w) /\ (w = <<>> => u.piece = Pieces)
          /\ w # <<>> => Follows(u, Head(w))
      BY <1>4, <2>2, <2>4, <2>10, WireRead DEF InOrder
    <3> HIDE DEF u, w
    <3>4. wire'[d] = w /\ Ordered(wire[d])' /\ (~lost'[d] => Whole(wire[d])') /\ st'[d] = "waiting"
      BY <2>2, <2>3, <2>10, <3>3 DEF TypeOK, Ordered, Whole
    <3>5. CASE /\ rcv.left > 1 /\ wg' = wg
               /\ rcv'.conn = c /\ rcv'.id = rcv.id /\ rcv'.left = rcv.left - 1
      <4>1. /\ Pieces \in Nat /\ rcv.left \in Nat /\ u.piece < Pieces /\ u.piece # Pieces
            /\ Pieces - (rcv.left - 1) + 1 = u.piece + 1
        BY <2>6, <3>2, <3>5, ConnectionsAssumption
      <4>2. ~lost'[d] => wire'[d] # <<>>
        BY <2>2, <2>10, <3>3, <3>4, <4>1
      <4>3. wire'[d] # <<>> => Head(wire'[d]) = Part("body", rcv'.id, Pieces - rcv'.left + 1)
        BY <3>2, <3>3, <3>4, <3>5, <4>1 DEF Follows
      <4>4. wg'[d] = 1 /\ rcv'.conn = d
        BY <2>3, <2>10, <3>5
      <4>5. wire'[d] # <<>> => Awaited(d, Head(wire[d]))'
        BY <3>4, <4>3, <4>4 DEF Awaited
      <4>6. QED  BY <3>4, <4>2, <4>5 DEF InOrder
    <3>6. CASE rcv.left = 1 /\ wg' = [wg EXCEPT ![c] = 0] /\ rcv' = Idle
      <4>1. wg'[d] = 0 /\ rcv'.conn # d
        BY <2>8, <2>10, <3>6 DEF TypeOK
      <4>2. u.piece = Pieces
        BY <3>2, <3>6, ConnectionsAssumption
      <4>3. wire'[d] # <<>> => Head(wire'[d]).kind = "announce"
        BY <3>2, <3>3, <3>4, <4>2, ConnectionsAssumption DEF Follows
      <4>4. wire'[d] # <<>> => Awaited(d, Head(wire[d]))'
        BY <3>4, <4>1, <4>3 DEF Awaited
      <4>5. QED  BY <3>4, <4>1, <4>4 DEF InOrder
    <3>7. QED  BY <2>7, <3>5, <3>6
  <2>11. QED  BY <2>9, <2>10
<1>21. ASSUME ReadAmiss \/ WriteFails
       PROVE  InOrder(d)'
  <2>1. rcv # Idle /\ UNCHANGED <<st, lost, rpcs, pending, peers>>
    BY <1>21 DEF ReadAmiss, WriteFails, MayRead
  <2>2. PICK c \in Conns : c = rcv.conn /\ wg[c] = 1 /\ st[c] = "waiting"
    BY <2>1, ReadingWaits
  <2>3. d # c
    <3>1. CASE ReadAmiss
      <4>1. wire[c] # <<>> /\ Head(wire[c]) # Part("body", rcv.id, Pieces - rcv.left + 1)
        BY <2>2, <3>1 DEF ReadAmiss, MayRead, Expected
      <4>2. ~InOrder(c) /\ Live(c)
        BY <2>2, <4>1 DEF InOrder, Awaited, Live
      <4>3. QED  BY <1>3, <4>2
    <3>2. CASE WriteFails
      BY <2>2, <3>2 DEF WriteFails, Steady
    <3>3. QED  BY <1>21, <3>1, <3>2
  <2>4. rcv'.conn # d /\ rcv.conn # d /\ wire'[d] = wire[d] /\ wg'[d] = wg[d]
    <3>1. \/ CloseStream(c) /\ rcv' = Idle
          \/ wg' = wg /\ \E n : rcv' = [rcv EXCEPT !.left = @ - n, !.good = FALSE]
      BY <1>21, <2>2 DEF ReadAmiss, WriteFails
    <3>2. rcv \in [conn : Conns, id : Transfers, left : 1 .. Pieces, good : BOOLEAN]
      BY <2>1 DEF TypeOK
    <3>3. rcv.conn # d /\ d # None
      BY <2>2, <2>3, ConnectionsAssumption
    <3>6. rcv'.conn # d
      <4>1. CASE rcv' = Idle
        BY <3>3, <4>1 DEF Idle
      <4>2. CASE \E n : rcv' = [rcv EXCEPT !.left = @ - n, !.good = FALSE]
        <5>1. PICK n : rcv' = [rcv EXCEPT !.left = @ - n, !.good = FALSE]
          BY <4>2
        <5>2. rcv'.conn = rcv.conn
          BY <3>2, <5>1
        <5>3. QED  BY <3>3, <5>2
      <4>3. QED  BY <3>1, <4>1, <4>2
    <3>7. wg'[d] = wg[d]
      BY <2>3, <3>1 DEF CloseStream, TypeOK
    <3>4. wire' = wire \/ \E w : wire' = [wire EXCEPT ![c] = w]
      BY <1>21, <2>2 DEF ReadAmiss, WriteFails
    <3>5. QED  BY <2>3, <3>3, <3>4, <3>6, <3>7 DEF TypeOK
  <2>5. Live(d) /\ InOrder(d)
    BY <1>2, <1>3, <2>1 DEF Live
  <2>6. QED  BY <1>4, <2>1, <2>4, <2>5, AnnouncedKept, Undisturbed
<1>17. ASSUME Truncated
       PROVE  InOrder(d)'
  <2>1. PICK c \in Conns : c = rcv.conn
    BY <1>17, ReadingWaits DEF Truncated
  <2>2. /\ wire[c] = <<>> /\ lost[c] /\ rcv' = Idle /\ wg' = [wg EXCEPT ![c] = 0]
        /\ UNCHANGED <<st, wire, lost, rpcs, pending>>
    BY <1>17, <2>1, ReadingEnds DEF Truncated
  <2>3. Live(d) /\ InOrder(d)
    BY <1>2, <1>3, <2>2 DEF Live
  <2>4. CASE d = c
    BY <2>2, <2>4 DEF InOrder, Ordered, Whole
  <2>5. CASE d # c
    <3>1. wg'[d] = wg[d] /\ rcv.conn # d /\ rcv'.conn # d
      BY <2>1, <2>2, <2>5, ConnectionsAssumption DEF TypeOK, Idle
    <3>2. QED  BY <1>4, <2>2, <2>3, <3>1, AnnouncedKept, Undisturbed
  <2>6. QED  BY <2>4, <2>5
<1>18. CASE UNCHANGED vars
  <2>1. Live(d) /\ InOrder(d)
    BY <1>2, <1>3, <1>18 DEF Live, vars
  <2>2. QED  BY <1>4, <1>18, <2>1, AnnouncedKept, Undisturbed DEF vars
<1>19. QED
  BY <1>5, <1>6, <1>7, <1>9, <1>10, <1>11, <1>12, <1>13, <1>14, <1>15, <1>16, <1>17, <1>18,
     <1>20, <1>21
     DEF Next, HandleConn, Loop

-----------------------------------------------------------------------------
IInv == TypeOK /\ Waits /\ Unused /\ AllInOrder

LEMMA IInvHolds ==
    ASSUME ~Overlap
    PROVE  Spec => []IInv
<1>1. Init => IInv
  BY TypeInit, WaitsInit DEF Init, IInv, Unused, AllInOrder, Steady, Live
<1>2. IInv /\ [Next]_vars => IInv'
  BY TypeStep, WaitsStep, UnusedStep, OrderStep DEF IInv
<1>3. QED  BY <1>1, <1>2, PTL DEF Spec

(* server.go:148-150, p2p/tcp_transport.go:118-132: where no two           *)
(* connections of a peer overlap, a goroutine that has met a stream waits  *)
(* for that stream alone, and CloseStream is called once for it and on the *)
(* connection it came from: the counter never goes below zero.             *)
THEOREM StreamsReleasedOnce ==
    ASSUME ~Overlap
    PROVE  Spec => []ConnInv
<1>1. IInv => ConnInv
  BY DEF IInv, Waits, ConnInv
<1>2. QED  BY <1>1, IInvHolds, PTL

(* server.go:142-163: on a connection on which no sender gave up half way  *)
(* and this node did not stop reading half way, what the loop reads is the *)
(* next piece of the transfer that was announced there last, however       *)
(* frames, bodies and connections of other peers come between, those that  *)
(* are out of step included.                                               *)
THEOREM BodiesInStep ==
    ASSUME ~Overlap
    PROVE  Spec => []InStep
<1>1. IInv => InStep
  <2> SUFFICES ASSUME IInv, rcv # Idle, wire[rcv.conn] # <<>>, rcv.conn \notin short \cup unread
               PROVE  Expected
    BY DEF InStep
  <2>1. rcv.conn \in Conns /\ Steady(rcv.conn)
    BY ReadingWaits DEF IInv, Live, Steady
  <2>2. Awaited(rcv.conn, Head(wire[rcv.conn]))
    BY <2>1 DEF IInv, AllInOrder, InOrder
  <2>3. QED  BY <2>2 DEF Awaited, Expected
<1>2. QED  BY <1>1, IInvHolds, PTL
=============================================================================
