----------------------------- MODULE FetchProofs -----------------------------
(* The invariants of Fetch: no answer is counted twice or overlooked, and  *)
(* one peer streams. Every query, answer and unread offer is a token of a  *)
(* call and a peer; the books of a call say which peers were asked (A),    *)
(* which answers were taken (B), and which are in the buffer (C).          *)
EXTENDS Fetch, FiniteSetTheorems, SequenceTheorems, TLAPS

(* An element of s is in M; only one is. *)
Meets(s, M) == \E p \in DOMAIN s : s[p] \in M
Once(s, M)  == \A p, q \in DOMAIN s : s[p] \in M /\ s[q] \in M => p = q

Units(k, r) == {u \in Unit : u.kind = k /\ u.req = r}

Asks(r, j)  == Meets(wire[Asker[r]][j], Units("query", r))
Says(r, j)  == Meets(wire[j][Asker[r]], Units("offer", r))
Heard(r, j) == Meets(get[r].offers, {j} \X Digest0)

(* No connection of a node with itself, and a transfer has contents.       *)
Hollow == {u \in Unit : u.kind = "transfer" /\ u.digest = None}

Placed ==
    /\ \A i \in Nodes : wire[i][i] = <<>> /\ (loop[i].st # "idle" => loop[i].peer # i)
    /\ \A i, j \in Nodes : ~Meets(wire[i][j], Hollow)

(* Who sends what to whom. *)
Sides(r) ==
    \A i, j \in Nodes :
        /\ Meets(wire[i][j], Units("query", r)) => i = Asker[r]
        /\ Meets(wire[i][j], Units("offer", r)) => j = Asker[r]
        /\ Meets(wire[i][j], Units("fetch", r)) => j = get[r].from

(* A peer has at most one token of a call. *)
OneToken(r, j) ==
    /\ Once(wire[Asker[r]][j], Units("query", r))
    /\ Once(wire[j][Asker[r]], Units("offer", r))
    /\ Once(get[r].offers, {j} \X Digest0)
    /\ ~(Asks(r, j) /\ Says(r, j)) /\ ~(Asks(r, j) /\ Heard(r, j)) /\ ~(Says(r, j) /\ Heard(r, j))

Declined(r, j) == \A d \in Digests : <<j, d>> \notin offered[r]

(* What is said on the wire or in the buffer is what was noted of the peer.*)
Noted(r, j, d) == IF d = None THEN Declined(r, j) ELSE <<j, d>> \in offered[r]

Truthful(r, j) ==
    /\ Asks(r, j) => Declined(r, j)
    /\ \A d \in Digest0 :
         /\ Meets(wire[j][Asker[r]], {Msg("offer", r, d)}) => Noted(r, j, d)
         /\ Meets(get[r].offers, {<<j, d>>}) => Noted(r, j, d)

Deciding(r) == get[r].st \in {"new", "asking", "offers"}

Books(r, A, B, C) ==
    /\ B \subseteq A /\ C \subseteq A \ B
    /\ Cardinality(A) = get[r].asked /\ Cardinality(B) = get[r].replies
    /\ Cardinality(C) = Len(get[r].offers)
    /\ A \cap get[r].todo = {} /\ Cardinality(A \cup get[r].todo) <= get[r].cap
    /\ \A j \in Nodes : /\ Asks(r, j) \/ Says(r, j) => j \in A \ (B \cup C)
                        /\ Heard(r, j) => j \in C
    /\ Deciding(r) => \A j \in Nodes : ~Declined(r, j) => j \in A \ B

Ledger(r) ==
    /\ get[r].st \in {"new", "returned"} =>
         get[r].todo = {} /\ get[r].offers = <<>> /\ get[r].asked = 0 /\ get[r].replies = 0
    /\ get[r].st # "returned" =>
         get[r].outcome = "open" /\ \E A, B, C \in SUBSET Nodes : Books(r, A, B, C)

Nobody(r) ==
    get[r].outcome = "nobody" => \A j \in Nodes : Declined(r, j) /\ ~Asks(r, j)

Streams(r) ==
    /\ Deciding(r) => get[r].from = None
    /\ served[r] \subseteq {get[r].from}
    /\ get[r].from # None => <<get[r].from, get[r].digest>> \in offered[r]

CallInv(r) ==
    /\ Sides(r) /\ \A j \in Nodes : OneToken(r, j) /\ Truthful(r, j)
    /\ Ledger(r) /\ Nobody(r) /\ Streams(r)

FInv == TypeOK /\ Placed /\ \A r \in Requests : CallInv(r)

-----------------------------------------------------------------------------
(* Sequences.                                                              *)

LEMMA TailMeets ==
    ASSUME NEW S, NEW s \in Seq(S), s # <<>>, NEW M
    PROVE  /\ Tail(s) \in Seq(S) /\ Head(s) \in S /\ Len(Tail(s)) = Len(s) - 1 /\ Len(s) > 0
           /\ Meets(Tail(s), M) => Meets(s, M)
           /\ Head(s) \in M => Meets(s, M)
           /\ Once(s, M) => Once(Tail(s), M)
           /\ Once(s, M) /\ Head(s) \in M => ~Meets(Tail(s), M)
<1>1. /\ Len(s) \in Nat /\ Len(s) > 0 /\ DOMAIN s = 1 .. Len(s)
      /\ Tail(s) \in Seq(S) /\ Len(Tail(s)) = Len(s) - 1
      /\ DOMAIN Tail(s) = 1 .. (Len(s) - 1) /\ Head(s) = s[1] /\ Head(s) \in S
  OBVIOUS
<1>2. \A p \in 1 .. (Len(s) - 1) : Tail(s)[p] = s[p + 1] /\ p + 1 \in DOMAIN s /\ p + 1 # 1
  BY <1>1
<1>3. 1 \in DOMAIN s
  BY <1>1
<1>4. ASSUME Once(s, M)
      PROVE  Once(Tail(s), M)
  <2> SUFFICES ASSUME NEW p \in DOMAIN Tail(s), NEW q \in DOMAIN Tail(s),
                      Tail(s)[p] \in M, Tail(s)[q] \in M
               PROVE  p = q
    BY DEF Once
  <2>1. p \in 1 .. (Len(s) - 1) /\ q \in 1 .. (Len(s) - 1)
    BY <1>1
  <2>2. s[p + 1] \in M /\ s[q + 1] \in M /\ p + 1 \in DOMAIN s /\ q + 1 \in DOMAIN s
    BY <1>2, <2>1
  <2>3. p + 1 = q + 1
    BY <1>4, <2>2 DEF Once
  <2>4. QED  BY <1>1, <2>1, <2>3
<1>5. ASSUME Once(s, M), Head(s) \in M, NEW p \in DOMAIN Tail(s), Tail(s)[p] \in M
      PROVE  FALSE
  <2>1. s[p + 1] \in M /\ p + 1 \in DOMAIN s /\ p + 1 # 1
    BY <1>1, <1>2, <1>5
  <2>2. QED  BY <1>1, <1>3, <1>5, <2>1 DEF Once
<1>6. Meets(Tail(s), M) => Meets(s, M)
  BY <1>1, <1>2 DEF Meets
<1>7. QED  BY <1>1, <1>3, <1>4, <1>5, <1>6 DEF Meets

LEMMA AppendMeets ==
    ASSUME NEW S, NEW s \in Seq(S), NEW m \in S, NEW M
    PROVE  /\ Append(s, m) \in Seq(S) /\ Len(Append(s, m)) = Len(s) + 1
           /\ Meets(Append(s, m), M) <=> Meets(s, M) \/ m \in M
           /\ Once(s, M) /\ ~(Meets(s, M) /\ m \in M) => Once(Append(s, m), M)
<1>1. /\ Len(s) \in Nat /\ DOMAIN s = 1 .. Len(s)
      /\ Append(s, m) \in Seq(S) /\ Len(Append(s, m)) = Len(s) + 1
      /\ DOMAIN Append(s, m) = 1 .. (Len(s) + 1) /\ Append(s, m)[Len(s) + 1] = m
  OBVIOUS
<1>2. \A p \in 1 .. Len(s) : Append(s, m)[p] = s[p] /\ p \in DOMAIN Append(s, m)
  BY <1>1
<1>3. \A p \in DOMAIN Append(s, m) : p \in DOMAIN s \/ p = Len(s) + 1
  BY <1>1
<1>4. Len(s) + 1 \in DOMAIN Append(s, m)
  BY <1>1
<1>5. Meets(Append(s, m), M) <=> Meets(s, M) \/ m \in M
  BY <1>1, <1>2, <1>3, <1>4 DEF Meets
<1>6. Once(s, M) /\ ~(Meets(s, M) /\ m \in M) => Once(Append(s, m), M)
  BY <1>1, <1>2, <1>3 DEF Once, Meets
<1>7. QED  BY <1>1, <1>5, <1>6

LEMMA EmptyMeets == \A M : ~Meets(<<>>, M) /\ Once(<<>>, M)
<1>1. DOMAIN <<>> = {}
  OBVIOUS
<1>2. QED  BY <1>1 DEF Meets, Once

LEMMA OnceCount ==
    ASSUME NEW S, NEW s \in Seq(S), NEW M, Once(s, M)
    PROVE  LET T == {p \in DOMAIN s : s[p] \in M}
           IN  /\ IsFiniteSet(T) /\ Cardinality(T) = IF Meets(s, M) THEN 1 ELSE 0
               /\ (T = {} <=> ~Meets(s, M))
<1> DEFINE T == {p \in DOMAIN s : s[p] \in M}
<1>1. T = {} <=> ~Meets(s, M)
  BY DEF Meets
<1>2. CASE Meets(s, M)
  <2>1. PICK p \in DOMAIN s : s[p] \in M
    BY <1>2 DEF Meets
  <2>2. T = {p}
    BY <2>1 DEF Once
  <2>3. IsFiniteSet({p}) /\ Cardinality({p}) = 1
    BY FS_Singleton
  <2>4. IsFiniteSet(T) /\ Cardinality(T) = 1
    BY <2>2, <2>3
  <2>5. QED  BY <1>1, <1>2, <2>4
<1>3. CASE ~Meets(s, M)
  BY <1>1, <1>3, FS_EmptySet
<1>4. QED  BY <1>2, <1>3, <1>1

-----------------------------------------------------------------------------
(* What a step may do to a connection.                                     *)

Shrinks(i, j) ==
    \/ wire'[i][j] = wire[i][j] \/ wire'[i][j] = <<>>
    \/ wire[i][j] # <<>> /\ wire'[i][j] = Tail(wire[i][j])

Grows(i, j, m) == m \in Unit /\ wire'[i][j] = Append(wire[i][j], m)

LEMMA WireIs ==
    ASSUME TypeOK, NEW i \in Nodes, NEW j \in Nodes
    PROVE  /\ wire[i] \in [Nodes -> Seq(Unit)] /\ wire[i][j] \in Seq(Unit)
           /\ wire[i][j] # <<>> => Head(wire[i][j]) \in Unit
  BY DEF TypeOK

LEMMA ShrinkMeets ==
    ASSUME TypeOK, NEW i \in Nodes, NEW j \in Nodes, Shrinks(i, j), NEW M
    PROVE  /\ Meets(wire'[i][j], M) => Meets(wire[i][j], M)
           /\ Once(wire[i][j], M) => Once(wire'[i][j], M)
<1>1. wire[i][j] \in Seq(Unit)
  BY WireIs
<1>2. CASE wire'[i][j] = wire[i][j]
  BY <1>2
<1>3. CASE wire'[i][j] = <<>>
  BY <1>3, EmptyMeets
<1>4. CASE wire[i][j] # <<>> /\ wire'[i][j] = Tail(wire[i][j])
  BY <1>1, <1>4, TailMeets
<1>5. QED  BY <1>2, <1>3, <1>4 DEF Shrinks

LEMMA GrowMeets ==
    ASSUME TypeOK, NEW i \in Nodes, NEW j \in Nodes, NEW m, Grows(i, j, m), NEW M
    PROVE  /\ Meets(wire'[i][j], M) => Meets(wire[i][j], M) \/ m \in M
           /\ Once(wire[i][j], M) /\ ~(Meets(wire[i][j], M) /\ m \in M) => Once(wire'[i][j], M)
<1>1. wire[i][j] \in Seq(Unit) /\ m \in Unit
  BY WireIs DEF Grows
<1>2. QED  BY <1>1, AppendMeets DEF Grows

(* A message is sent, taken, or taken and answered. *)
LEMMA Sent ==
    ASSUME TypeOK, NEW i \in Nodes, NEW j \in Nodes, NEW m \in Unit, wire' = Put(i, j, m)
    PROVE  /\ Grows(i, j, m)
           /\ \A k, l \in Nodes : ~(k = i /\ l = j) => wire'[k][l] = wire[k][l]
           /\ wire' \in [Nodes -> [Nodes -> Seq(Unit)]]
<1>1. wire \in [Nodes -> [Nodes -> Seq(Unit)]] /\ wire[i][j] \in Seq(Unit)
  BY WireIs DEF TypeOK
<1>2. Append(wire[i][j], m) \in Seq(Unit)
  BY <1>1
<1>3. PICK s \in Seq(Unit) : s = Append(wire[i][j], m)
  BY <1>2
<1>4. wire' = [wire EXCEPT ![i][j] = s]
  BY <1>3 DEF Put
<1>5. QED  BY <1>1, <1>3, <1>4 DEF Grows

LEMMA Taken ==
    ASSUME TypeOK, NEW i \in Nodes, NEW j \in Nodes, wire[j][i] # <<>>, wire' = Take(i, j)
    PROVE  /\ wire'[j][i] = Tail(wire[j][i]) /\ Shrinks(j, i)
           /\ \A k, l \in Nodes : ~(k = j /\ l = i) => wire'[k][l] = wire[k][l]
           /\ wire' \in [Nodes -> [Nodes -> Seq(Unit)]]
<1>1. wire \in [Nodes -> [Nodes -> Seq(Unit)]] /\ wire[j][i] \in Seq(Unit)
  BY WireIs DEF TypeOK
<1>2. Tail(wire[j][i]) \in Seq(Unit)
  BY <1>1
<1>3. PICK s \in Seq(Unit) : s = Tail(wire[j][i])
  BY <1>2
<1>4. wire' = [wire EXCEPT ![j][i] = s]
  BY <1>3 DEF Take
<1>5. QED  BY <1>1, <1>3, <1>4 DEF Shrinks

LEMMA AnsweredTo ==
    ASSUME TypeOK, Placed, NEW i \in Nodes, NEW j \in Nodes, NEW m \in Unit,
           wire[j][i] # <<>>, wire' = Answer(i, j, m)
    PROVE  /\ i # j /\ wire'[j][i] = Tail(wire[j][i]) /\ Shrinks(j, i) /\ Grows(i, j, m)
           /\ \A k, l \in Nodes :
                ~(k = j /\ l = i) /\ ~(k = i /\ l = j) => wire'[k][l] = wire[k][l]
           /\ wire' \in [Nodes -> [Nodes -> Seq(Unit)]]
<1>1. /\ wire \in [Nodes -> [Nodes -> Seq(Unit)]] /\ wire[j][i] \in Seq(Unit)
      /\ wire[i][j] \in Seq(Unit) /\ i # j
  BY WireIs DEF TypeOK, Placed
<1>2. Tail(wire[j][i]) \in Seq(Unit) /\ Append(wire[i][j], m) \in Seq(Unit)
  BY <1>1
<1>3. PICK s \in Seq(Unit) : s = Tail(wire[j][i])
  BY <1>2
<1>4. PICK t \in Seq(Unit) : t = Append(wire[i][j], m)
  BY <1>2
<1>5. wire' = [wire EXCEPT ![j][i] = s, ![i][j] = t]
  BY <1>1, <1>3, <1>4 DEF Answer
<1>6. /\ wire'[j][i] = s /\ wire'[i][j] = t
      /\ \A k, l \in Nodes :
           ~(k = j /\ l = i) /\ ~(k = i /\ l = j) => wire'[k][l] = wire[k][l]
      /\ wire' \in [Nodes -> [Nodes -> Seq(Unit)]]
  <2>1. PICK w : w = [wire EXCEPT ![j][i] = s]
    OBVIOUS
  <2>2. /\ w \in [Nodes -> [Nodes -> Seq(Unit)]] /\ w[j][i] = s
        /\ \A k, l \in Nodes : ~(k = j /\ l = i) => w[k][l] = wire[k][l]
    BY <1>1, <2>1
  <2>3. wire' = [w EXCEPT ![i][j] = t]
    BY <1>5, <2>1
  <2>4. /\ wire' \in [Nodes -> [Nodes -> Seq(Unit)]] /\ wire'[i][j] = t
        /\ \A k, l \in Nodes : ~(k = i /\ l = j) => wire'[k][l] = w[k][l]
    BY <2>2, <2>3
  <2>5. QED  BY <1>1, <2>2, <2>4
<1>7. QED  BY <1>1, <1>3, <1>4, <1>6 DEF Grows, Shrinks

-----------------------------------------------------------------------------
(* Types.                                                                  *)

LEMMA FaultsCount ==
    ASSUME TypeOK, faults' = faults \/ Fault
    PROVE  faults' \in 0 .. MaxFaults
  BY FetchAssumption DEF TypeOK, Fault

Calls ==
    [st : {"new", "asking", "offers", "chosen", "fetching", "returned"},
     todo : SUBSET Nodes, cap : Nat, asked : Nat, replies : Nat,
     offers : Seq(Nodes \X Digest0),
     from : Nodes \cup {None}, digest : Digest0,
     done : {"open", "ok", "failed"}, outcome : Outcomes]

(* All of a call but whether it is done. *)
Same(q) ==
    /\ get'[q].st = get[q].st /\ get'[q].todo = get[q].todo /\ get'[q].cap = get[q].cap
    /\ get'[q].asked = get[q].asked /\ get'[q].replies = get[q].replies
    /\ get'[q].offers = get[q].offers /\ get'[q].from = get[q].from
    /\ get'[q].digest = get[q].digest /\ get'[q].outcome = get[q].outcome

LEMMA CallIs ==
    ASSUME TypeOK, NEW r \in Requests
    PROVE  get \in [Requests -> Calls] /\ get[r] \in Calls
  BY DEF TypeOK, Calls

LEMMA AskerIs ==
    ASSUME NEW r \in Requests
    PROVE  Asker[r] \in Nodes /\ NameOf[r] \in Keys
  BY FetchAssumption

LEMMA Returned ==
    ASSUME TypeOK, NEW r \in Requests, NEW o \in Outcomes, Return(r, o)
    PROVE  /\ get' \in [Requests -> Calls]
           /\ \A q \in Requests : q # r => get'[q] = get[q]
           /\ get'[r].st = "returned" /\ get'[r].todo = {} /\ get'[r].cap = 0
           /\ get'[r].asked = 0 /\ get'[r].replies = 0 /\ get'[r].offers = <<>>
           /\ get'[r].from = get[r].from /\ get'[r].digest = get[r].digest
           /\ get'[r].outcome = o
<1>1. get \in [Requests -> Calls] /\ get[r].from \in Nodes \cup {None} /\ get[r].digest \in Digest0
  BY CallIs DEF Calls
<1>2. /\ NewGet \in Calls /\ NewGet.todo = {} /\ NewGet.cap = 0 /\ NewGet.asked = 0
      /\ NewGet.replies = 0 /\ NewGet.offers = <<>>
  BY DEF NewGet, Calls, Outcomes, Digest0
<1>3. PICK x : x = [NewGet EXCEPT !.st = "returned", !.outcome = o, !.from = get[r].from,
                                  !.digest = get[r].digest]
  OBVIOUS
<1>4. /\ x \in Calls /\ x.st = "returned" /\ x.todo = {} /\ x.cap = 0 /\ x.asked = 0
      /\ x.replies = 0 /\ x.offers = <<>> /\ x.from = get[r].from /\ x.digest = get[r].digest
      /\ x.outcome = o
  BY <1>1, <1>2, <1>3 DEF Calls
<1>5. get' = [get EXCEPT ![r] = x]
  BY <1>3 DEF Return
<1>6. get' \in [Requests -> Calls] /\ get'[r] = x /\ \A q \in Requests : q # r => get'[q] = get[q]
  BY <1>1, <1>4, <1>5
<1>7. QED  BY <1>4, <1>6

LEMMA Decided ==
    ASSUME TypeOK, NEW r \in Requests, NEW how \in {"ok", "failed"}, Decide(r, how)
    PROVE  get' \in [Requests -> Calls] /\ \A q \in Requests : Same(q)
<1>1. get \in [Requests -> Calls] /\ get[r] \in Calls
  BY CallIs
<1>2. CASE get' = get
  BY <1>1, <1>2 DEF Same
<1>3. CASE get' = [get EXCEPT ![r].done = how]
  <2>1. PICK x : x = [get[r] EXCEPT !.done = how]
    OBVIOUS
  <2>2. /\ x \in Calls /\ x.st = get[r].st /\ x.todo = get[r].todo /\ x.cap = get[r].cap
        /\ x.asked = get[r].asked /\ x.replies = get[r].replies /\ x.offers = get[r].offers
        /\ x.from = get[r].from /\ x.digest = get[r].digest /\ x.outcome = get[r].outcome
    BY <1>1, <2>1 DEF Calls
  <2>3. get' = [get EXCEPT ![r] = x]
    BY <1>3, <2>1
  <2>4. /\ get' \in [Requests -> Calls] /\ get'[r] = x
        /\ \A q \in Requests : q # r => get'[q] = get[q]
    BY <1>1, <2>2, <2>3
  <2>5. QED  BY <2>2, <2>4 DEF Same
<1>4. QED  BY <1>2, <1>3 DEF Decide

LEMMA LoopIs ==
    ASSUME TypeOK, NEW i \in Nodes
    PROVE  /\ loop \in [Nodes -> BusyLoop \cup {IdleLoop}] /\ IdleLoop.st = "idle"
           /\ loop[i].st # "idle" =>
                /\ loop[i] \in BusyLoop /\ loop[i].peer \in Nodes /\ loop[i].req \in Requests
                /\ loop[i].digest \in Digests /\ loop[i].left \in 1 .. Pieces
<1>1. loop \in [Nodes -> BusyLoop \cup {IdleLoop}] /\ IdleLoop.st = "idle"
  BY DEF TypeOK, IdleLoop
<1>2. loop[i] \in BusyLoop \/ loop[i] = IdleLoop
  BY <1>1
<1>3. CASE loop[i] \in BusyLoop
  BY <1>1, <1>3 DEF BusyLoop
<1>4. CASE loop[i] = IdleLoop
  BY <1>1, <1>4
<1>5. QED  BY <1>2, <1>3, <1>4

(* A loop that begins, goes on with or ends a body. *)
LEMMA LoopSet ==
    ASSUME TypeOK, Placed, NEW i \in Nodes, NEW l \in BusyLoop \cup {IdleLoop},
           l.st # "idle" => l.peer # i, loop' = [loop EXCEPT ![i] = l]
    PROVE  /\ loop' \in [Nodes -> BusyLoop \cup {IdleLoop}]
           /\ \A k \in Nodes : loop'[k].st # "idle" => loop'[k].peer # k
<1>1. loop \in [Nodes -> BusyLoop \cup {IdleLoop}]
  BY LoopIs
<1>2. \A k \in Nodes : loop[k].st # "idle" => loop[k].peer # k
  BY DEF Placed
<1>3. loop'[i] = l /\ \A k \in Nodes \ {i} : loop'[k] = loop[k]
  BY <1>1
<1>4. loop' \in [Nodes -> BusyLoop \cup {IdleLoop}]
  BY <1>1
<1>5. QED  BY <1>2, <1>3, <1>4

LEMMA NewLoop ==
    ASSUME NEW k \in {"sending", "receiving"}, NEW p \in Nodes, NEW r \in Requests,
           NEW d \in Digests, NEW b \in BOOLEAN
    PROVE  LET l == [st |-> k, peer |-> p, req |-> r, digest |-> d, left |-> Pieces, refused |-> b,
                     spoilt |-> FALSE]
           IN  l \in BusyLoop \cup {IdleLoop} /\ l.st # "idle" /\ l.peer = p
<1>1. Pieces \in 1 .. Pieces
  BY FetchAssumption
<1>2. QED  BY <1>1 DEF BusyLoop

LEMMA NextPiece ==
    ASSUME TypeOK, NEW i \in Nodes, loop[i].st # "idle", loop[i].left # 1
    PROVE  LET l == [loop[i] EXCEPT !.left = @ - 1]
           IN  l \in BusyLoop \cup {IdleLoop} /\ l.st # "idle" /\ l.peer = loop[i].peer
<1>1. loop[i] \in BusyLoop /\ loop[i].left \in 1 .. Pieces
  BY LoopIs
<1>2. loop[i].left - 1 \in 1 .. Pieces
  BY <1>1, FetchAssumption
<1>3. QED  BY <1>1, <1>2 DEF BusyLoop

LEMMA MsgIs ==
    ASSUME NEW k \in {"query", "offer", "fetch", "transfer", "body"},
           NEW r \in Requests, NEW d \in Digest0
    PROVE  /\ Msg(k, r, d) \in Unit /\ Msg(k, r, d).kind = k
           /\ Msg(k, r, d).req = r /\ Msg(k, r, d).digest = d
  BY DEF Msg, Unit

LEMMA ResolveIs ==
    ASSUME TypeOK, NEW i \in Nodes, NEW n \in Keys
    PROVE  Resolve(i, n) \in Digest0
  BY DEF TypeOK, Resolve, Digest0

LEMMA PeersAre ==
    ASSUME NEW i \in Nodes
    PROVE  /\ Peers(i) \subseteq Nodes /\ i \notin Peers(i)
           /\ IsFiniteSet(Peers(i)) /\ Cardinality(Peers(i)) \in Nat
<1>1. Peers(i) \subseteq Nodes /\ i \notin Peers(i)
  BY DEF Peers
<1>2. QED  BY <1>1, FetchAssumption, FS_Subset, FS_CardinalityType

(* What is on a wire is between two nodes. *)
LEMMA Apart ==
    ASSUME Placed, NEW i \in Nodes, NEW j \in Nodes, wire[j][i] # <<>>
    PROVE  i # j
  BY DEF Placed

-----------------------------------------------------------------------------
(* Steps that no call has to do with but for its being done: bodies,       *)
(* disconnections, deletions, stops.                                       *)

Unsaid(i, j) ==
    Shrinks(i, j) \/ \E m : Grows(i, j, m) /\ i # j /\ m.kind \in {"transfer", "body"} /\ m \notin Hollow

Quiet ==
    /\ offered' = offered /\ \A q \in Requests : Same(q)
    /\ \A i, j \in Nodes : Unsaid(i, j)

LEMMA PlacedKept ==
    ASSUME TypeOK, Placed,
           \A i, j \in Nodes : Shrinks(i, j) \/ \E m : Grows(i, j, m) /\ i # j /\ m \notin Hollow,
           \A k \in Nodes : loop'[k].st # "idle" => loop'[k].peer # k
    PROVE  Placed'
<1>1. ASSUME NEW i \in Nodes
      PROVE  wire'[i][i] = <<>>
  <2>1. Shrinks(i, i) /\ wire[i][i] = <<>>
    BY DEF Placed
  <2>2. QED  BY <2>1 DEF Shrinks
<1>2. ASSUME NEW i \in Nodes, NEW j \in Nodes
      PROVE  ~Meets(wire'[i][j], Hollow)
  <2>1. ~Meets(wire[i][j], Hollow)
    BY DEF Placed
  <2>2. CASE Shrinks(i, j)
    BY <2>1, <2>2, ShrinkMeets
  <2>3. CASE \E m : Grows(i, j, m) /\ m \notin Hollow
    BY <2>1, <2>3, GrowMeets
  <2>4. QED  BY <2>2, <2>3
<1>3. QED  BY <1>1, <1>2 DEF Placed

LEMMA WireKept ==
    \A i, j \in Nodes : wire'[i][j] = wire[i][j] => Shrinks(i, j) /\ Unsaid(i, j)
  BY DEF Shrinks, Unsaid

LEMMA GetKept == get' = get => \A q \in Requests : Same(q)
  BY DEF Same

LEMMA QuietSending ==
    ASSUME TypeOK, Placed, NEW i \in Nodes, SendPiece(i) \/ SendFails(i) \/ ReadFails(i)
    PROVE  TypeOK' /\ Placed' /\ Quiet
<1>1. /\ loop[i].st = "sending" /\ loop[i].st # "idle"
      /\ UNCHANGED <<up, stopped, blobs, rows, gone, get, offered, served, skew>>
      /\ faults' \in 0 .. MaxFaults
  <2>1. faults' = faults \/ Fault
    BY DEF SendPiece, SendFails, ReadFails
  <2>2. QED  BY <2>1, FaultsCount DEF SendPiece, SendFails, ReadFails
<1>2. PICK j \in Nodes : j = loop[i].peer /\ j # i
  BY <1>1, LoopIs DEF Placed
<1>3. PICK l \in BusyLoop \cup {IdleLoop} : loop' = [loop EXCEPT ![i] = l] /\ (l.st # "idle" => l.peer # i)
  <2>1. IdleLoop \in BusyLoop \cup {IdleLoop} /\ IdleLoop.st = "idle"
    BY LoopIs
  <2>2. CASE loop' = [loop EXCEPT ![i] = IdleLoop]
    BY <2>1, <2>2
  <2>3. CASE loop' = [loop EXCEPT ![i] = [loop[i] EXCEPT !.left = @ - 1]] /\ loop[i].left # 1
    BY <1>1, <1>2, <2>3, NextPiece
  <2>4. QED  BY <2>2, <2>3 DEF SendPiece, SendFails, ReadFails
<1>4. /\ loop' \in [Nodes -> BusyLoop \cup {IdleLoop}]
      /\ \A k \in Nodes : loop'[k].st # "idle" => loop'[k].peer # k
  BY <1>3, LoopSet
<1>5. CASE UNCHANGED wire
  <2>1. \A k, h \in Nodes : Shrinks(k, h) /\ Unsaid(k, h)
    BY <1>5, WireKept
  <2>2. QED  BY <1>1, <1>4, <1>5, <2>1, GetKept, PlacedKept DEF TypeOK, Quiet
<1>6. CASE ~UNCHANGED wire
  <2>1. wire' = Put(i, j, Msg("body", loop[i].req, loop[i].digest))
    BY <1>2, <1>6 DEF SendPiece, SendFails, ReadFails
  <2>2. PICK m \in Unit : m = Msg("body", loop[i].req, loop[i].digest) /\ m.kind = "body"
    BY <1>1, LoopIs, MsgIs DEF Digest0
  <2>3. /\ Grows(i, j, m) /\ wire' \in [Nodes -> [Nodes -> Seq(Unit)]]
        /\ \A k, h \in Nodes : ~(k = i /\ h = j) => wire'[k][h] = wire[k][h]
    BY <2>1, <2>2, Sent
  <2>4. m \notin Hollow
    BY <2>2 DEF Hollow
  <2>5. \A k, h \in Nodes : Unsaid(k, h)
    BY <1>2, <2>2, <2>3, <2>4, WireKept DEF Unsaid
  <2>6. \A k, h \in Nodes : Shrinks(k, h) \/ \E x : Grows(k, h, x) /\ k # h /\ x \notin Hollow
    BY <2>5 DEF Unsaid
  <2>7. Placed'
    BY <1>4, <2>6, PlacedKept
  <2>8. QED  BY <1>1, <1>4, <2>3, <2>5, <2>7, GetKept DEF TypeOK, Quiet
<1>7. QED  BY <1>5, <1>6

LEMMA QuietStream ==
    ASSUME TypeOK, Placed, NEW i \in Nodes, NEW j \in Nodes, HandleStream(i, j)
    PROVE  TypeOK' /\ Placed' /\ Quiet /\ served' = served
<1> DEFINE u == Head(wire[j][i])
<1>1. /\ wire[j][i] # <<>> /\ u.kind = "transfer" /\ wire' = Take(i, j)
      /\ UNCHANGED <<up, stopped, blobs, rows, gone, get, offered, served, skew>>
  BY DEF HandleStream, Arrived
<1>b. PICK b \in BOOLEAN :
        /\ faults' = faults \/ Fault
        /\ loop' = [loop EXCEPT ![i] = [st |-> "receiving", peer |-> j, req |-> u.req,
                      digest |-> u.digest, left |-> Pieces, refused |-> b, spoilt |-> FALSE]]
  <2> DEFINE deleted == <<NameOf[u.req], u.digest>> \in gone[i]
  <2>1. deleted \in BOOLEAN
    OBVIOUS
  <2>2. PICK b \in {deleted, FALSE} :
          /\ Goes(b = deleted)
          /\ loop' = [loop EXCEPT ![i] = [st |-> "receiving", peer |-> j, req |-> u.req,
                        digest |-> u.digest, left |-> Pieces, refused |-> b, spoilt |-> FALSE]]
    BY DEF HandleStream
  <2>3. faults' = faults \/ Fault
    BY <2>2 DEF Goes
  <2> HIDE DEF deleted
  <2>4. b \in BOOLEAN
    BY <2>1, <2>2
  <2>5. QED  BY <2>2, <2>3, <2>4
<1>f. faults' \in 0 .. MaxFaults
  BY <1>b, FaultsCount
<1>2. i # j /\ u \in Unit
  BY <1>1, Apart, WireIs
<1>3. u.digest \in Digests /\ u.req \in Requests
  <2>1. u \notin Hollow
    BY <1>1, TailMeets, WireIs DEF Placed
  <2>2. QED  BY <1>1, <1>2, <2>1 DEF Hollow, Unit, Digest0
<1> HIDE DEF u
<1>4. PICK l \in BusyLoop \cup {IdleLoop} : loop' = [loop EXCEPT ![i] = l] /\ l.peer # i
  <2> DEFINE l == [st |-> "receiving", peer |-> j, req |-> u.req, digest |-> u.digest,
                   left |-> Pieces, refused |-> b, spoilt |-> FALSE]
  <2>1. loop' = [loop EXCEPT ![i] = l]
    BY <1>b
  <2>2. l \in BusyLoop \cup {IdleLoop} /\ l.peer = j
    BY <1>3, NewLoop
  <2>3. QED  BY <1>2, <2>1, <2>2
<1>5. /\ loop' \in [Nodes -> BusyLoop \cup {IdleLoop}]
      /\ \A k \in Nodes : loop'[k].st # "idle" => loop'[k].peer # k
  BY <1>4, LoopSet
<1>6. /\ wire' \in [Nodes -> [Nodes -> Seq(Unit)]] /\ \A k, h \in Nodes : Shrinks(k, h)
  BY <1>1, Taken, WireKept
<1>7. Placed'
  BY <1>5, <1>6, PlacedKept
<1>8. QED  BY <1>1, <1>f, <1>5, <1>6, <1>7, GetKept DEF TypeOK, Quiet, Unsaid

Receives(i) ==
    \/ ReceivePiece(i) \/ ReceiveLast(i) \/ ReceiveAmiss(i)
    \/ ReceiveRejected(i) \/ WriteFails(i) \/ ReceiveCut(i)

(* The loop after something else than the body arrived. *)
LEMMA LoopAmiss ==
    ASSUME TypeOK, NEW i \in Nodes, ReceiveAmiss(i)
    PROVE  \/ loop' = [loop EXCEPT ![i] = IdleLoop]
           \/ \E l \in BusyLoop : loop' = [loop EXCEPT ![i] = l] /\ l.peer = loop[i].peer
<1>1. CASE loop' = [loop EXCEPT ![i] = IdleLoop]
  BY <1>1
<1>2. CASE \E n \in 0 .. loop[i].left - 1 :
             loop' = [loop EXCEPT ![i].left = @ - n, ![i].spoilt = TRUE]
  <2>1. PICK n \in 0 .. loop[i].left - 1 :
             loop' = [loop EXCEPT ![i].left = @ - n, ![i].spoilt = TRUE]
    BY <1>2
  <2>2. loop[i] \in BusyLoop /\ loop[i].left \in 1 .. Pieces
    BY LoopIs DEF ReceiveAmiss
  <2>3. loop[i].left - n \in 1 .. Pieces
    BY <2>2, FetchAssumption
  <2>4. PICK l : l = [loop[i] EXCEPT !.left = @ - n, !.spoilt = TRUE]
    OBVIOUS
  <2>5. l \in BusyLoop /\ l.peer = loop[i].peer
    BY <2>2, <2>3, <2>4 DEF BusyLoop
  <2>6. loop' = [loop EXCEPT ![i] = l]
    BY <2>1, <2>4
  <2>7. QED  BY <2>5, <2>6
<1>3. QED  BY <1>1, <1>2 DEF ReceiveAmiss

LEMMA QuietReceiving ==
    ASSUME TypeOK, Placed, NEW i \in Nodes, Receives(i)
    PROVE  TypeOK' /\ Placed' /\ Quiet /\ served' = served
<1>1. /\ loop[i].st # "idle" /\ UNCHANGED <<up, stopped, gone, offered, served>>
  BY DEF Receives, ReceivePiece, ReceiveLast, ReceiveAmiss, ReceiveRejected, WriteFails, ReceiveCut,
         BodyArrived
<1>2. PICK j \in Nodes : j = loop[i].peer /\ j # i
  BY <1>1, LoopIs DEF Placed
<1>3. PICK l \in BusyLoop \cup {IdleLoop} : loop' = [loop EXCEPT ![i] = l] /\ (l.st # "idle" => l.peer # i)
  <2>1. IdleLoop \in BusyLoop \cup {IdleLoop} /\ IdleLoop.st = "idle"
    BY LoopIs
  <2>2. CASE loop' = [loop EXCEPT ![i] = IdleLoop]
    BY <2>1, <2>2
  <2>3. CASE ReceivePiece(i)
    <3>1. loop[i].left # 1 /\ loop' = [loop EXCEPT ![i] = [loop[i] EXCEPT !.left = @ - 1]]
      BY <2>3 DEF ReceivePiece
    <3>2. QED  BY <1>1, <1>2, <3>1, NextPiece
  <2>4. CASE ReceiveAmiss(i)
    BY <1>2, <2>2, <2>4, LoopAmiss
  <2>5. QED
    BY <2>2, <2>3, <2>4 DEF Receives, ReceiveLast, ReceiveRejected, WriteFails, ReceiveCut
<1>4. /\ loop' \in [Nodes -> BusyLoop \cup {IdleLoop}]
      /\ \A k \in Nodes : loop'[k].st # "idle" => loop'[k].peer # k
  BY <1>3, LoopSet
<1>5. wire' \in [Nodes -> [Nodes -> Seq(Unit)]] /\ \A k, h \in Nodes : Shrinks(k, h)
  <2>1. CASE UNCHANGED wire
    BY <2>1, WireKept DEF TypeOK
  <2>2. CASE ~UNCHANGED wire
    <3>1. wire[j][i] # <<>> /\ wire' = Take(i, j)
      BY <1>2, <2>2 DEF Receives, ReceivePiece, ReceiveLast, ReceiveAmiss, ReceiveRejected,
                        WriteFails, ReceiveCut, BodyArrived
    <3>2. QED  BY <3>1, Taken, WireKept
  <2>3. QED  BY <2>1, <2>2
<1>6. get' \in [Requests -> Calls] /\ \A q \in Requests : Same(q)
  <2>1. CASE get' = get
    BY <2>1, GetKept, CallIs DEF TypeOK, Calls
  <2>2. CASE get' # get
    <3>1. \E how \in {"ok", "failed"} : Decide(loop[i].req, how)
      BY <2>2 DEF Receives, ReceivePiece, ReceiveLast, ReceiveAmiss, ReceiveRejected, WriteFails,
                  ReceiveCut
    <3>2. loop[i].req \in Requests
      BY <1>1, LoopIs
    <3>3. QED  BY <3>1, <3>2, Decided
  <2>3. QED  BY <2>1, <2>2
<1>7. Placed'
  BY <1>4, <1>5, PlacedKept
<1>8. blobs' \in [Nodes -> SUBSET Digests] /\ rows' \in [Nodes -> [Keys -> Digest0]]
  <2>1. CASE UNCHANGED <<blobs, rows>>
    BY <2>1 DEF TypeOK
  <2>2. CASE ~UNCHANGED <<blobs, rows>>
    <3>1. PICK d \in Digests, n \in Keys :
             /\ blobs' = [blobs EXCEPT ![i] = @ \cup {d}]
             /\ rows' = [rows EXCEPT ![i][n] = d]
      <4>1. /\ blobs' = [blobs EXCEPT ![i] = @ \cup {loop[i].digest}]
            /\ rows' = [rows EXCEPT ![i][FiledUnder(i, NameOf[loop[i].req], loop[i].digest)] = loop[i].digest]
        BY <2>2 DEF Receives, ReceivePiece, ReceiveLast, ReceiveAmiss, ReceiveRejected,
                    WriteFails, ReceiveCut
      <4>2. loop[i].digest \in Digests /\ NameOf[loop[i].req] \in Keys
        BY <1>1, LoopIs, AskerIs
      <4>3. FiledUnder(i, NameOf[loop[i].req], loop[i].digest) \in Keys
        BY <4>2 DEF FiledUnder, Keys
      <4>4. QED  BY <4>1, <4>2, <4>3
    <3>2. QED  BY <3>1 DEF TypeOK, Digest0
  <2>3. QED  BY <2>1, <2>2
<1>9. faults' \in 0 .. MaxFaults
  <2>1. faults' = faults \/ Fault
    BY DEF Receives, ReceivePiece, ReceiveLast, ReceiveAmiss, ReceiveRejected, WriteFails, ReceiveCut
  <2>2. QED  BY <2>1, FaultsCount
<1>10. skew' \subseteq Nodes \X Nodes
  <2>1. skew' = skew \/ skew' = skew \cup {<<j, i>>}
    BY <1>2 DEF Receives, ReceivePiece, ReceiveLast, ReceiveAmiss, ReceiveRejected, WriteFails,
                ReceiveCut
  <2>2. QED  BY <2>1 DEF TypeOK
<1>11. QED
  BY <1>1, <1>4, <1>5, <1>6, <1>7, <1>8, <1>9, <1>10 DEF TypeOK, Calls, Quiet, Unsaid

LEMMA QuietFaults ==
    ASSUME TypeOK, Placed,
           \/ \E i, j \in Nodes : Disconnect(i, j) \/ Derailed(i, j)
           \/ \E i \in Nodes, n \in Keys : Forget(i, n)
           \/ \E i \in Nodes : Stop(i)
           \/ UNCHANGED vars
    PROVE  TypeOK' /\ Placed' /\ Quiet /\ served' = served
<1>1. UNCHANGED <<loop, get, offered, served>>
  BY DEF Disconnect, Derailed, Forget, Stop, vars
<1>2. faults' \in 0 .. MaxFaults
  <2>1. faults' = faults \/ Fault
    BY DEF Disconnect, Derailed, Forget, Stop, vars
  <2>2. QED  BY <2>1, FaultsCount
<1>3. /\ up' \subseteq SUBSET Nodes /\ stopped' \subseteq Nodes
      /\ skew' \subseteq Nodes \X Nodes
  BY DEF Disconnect, Derailed, Cut, Forget, Stop, vars, TypeOK
<1>4. /\ blobs' \in [Nodes -> SUBSET Digests] /\ rows' \in [Nodes -> [Keys -> Digest0]]
      /\ gone' \in [Nodes -> SUBSET (Keys \X Digests)]
  <2>1. CASE UNCHANGED <<blobs, rows, gone>>
    BY <2>1 DEF TypeOK
  <2>2. CASE \E i \in Nodes, n \in Keys : Forget(i, n)
    <3>1. PICK i \in Nodes, n \in Keys : Forget(i, n)
      BY <2>2
    <3>2. PICK d \in Digests :
            /\ rows' = [rows EXCEPT ![i][n] = None]
            /\ gone' = [gone EXCEPT ![i] = @ \cup {<<n, d>>}]
            /\ \/ blobs' = [blobs EXCEPT ![i] = @]
               \/ blobs' = [blobs EXCEPT ![i] = @ \ {d}]
      <4>1. PICK d : d = rows[i][n]
        OBVIOUS
      <4>2. d \in Digests
        BY <3>1, <4>1 DEF Forget, TypeOK, Digest0
      <4>3. /\ rows' = [rows EXCEPT ![i][n] = None]
            /\ gone' = [gone EXCEPT ![i] = @ \cup {<<n, d>>}]
            /\ \/ blobs' = [blobs EXCEPT ![i] = @]
               \/ blobs' = [blobs EXCEPT ![i] = @ \ {d}]
        BY <3>1, <4>1 DEF Forget
      <4>4. QED  BY <4>2, <4>3
    <3>3. rows' \in [Nodes -> [Keys -> Digest0]]
      BY <3>2 DEF TypeOK, Digest0
    <3>4. gone' \in [Nodes -> SUBSET (Keys \X Digests)]
      BY <3>2 DEF TypeOK
    <3>5. blobs' \in [Nodes -> SUBSET Digests]
      <4>1. blobs \in [Nodes -> SUBSET Digests] /\ blobs[i] \ {d} \in SUBSET Digests
        BY DEF TypeOK
      <4>2. QED  BY <3>2, <4>1
    <3>6. QED  BY <3>3, <3>4, <3>5
  <2>3. QED  BY <2>1, <2>2 DEF Disconnect, Derailed, Stop, vars
<1>5. wire' \in [Nodes -> [Nodes -> Seq(Unit)]] /\ \A k, h \in Nodes : Shrinks(k, h)
  <2>0. wire \in [Nodes -> [Nodes -> Seq(Unit)]] /\ <<>> \in Seq(Unit)
    BY DEF TypeOK
  <2>1. CASE UNCHANGED wire
    BY <2>0, <2>1, WireKept
  <2>2. ASSUME NEW i \in Nodes, Stop(i)
        PROVE  wire' \in [Nodes -> [Nodes -> Seq(Unit)]] /\ \A k, h \in Nodes : Shrinks(k, h)
    <3>1. wire' = [k \in Nodes |-> [h \in Nodes |-> IF i \in {k, h} THEN <<>> ELSE wire[k][h]]]
      BY <2>2 DEF Stop
    <3>2. \A k, h \in Nodes : wire'[k][h] = IF i \in {k, h} THEN <<>> ELSE wire[k][h]
      BY <3>1
    <3>3. QED  BY <2>0, <3>1, <3>2 DEF Shrinks
  <2>3. ASSUME NEW i \in Nodes, NEW j \in Nodes, Cut(i, j)
        PROVE  wire' \in [Nodes -> [Nodes -> Seq(Unit)]] /\ \A k, h \in Nodes : Shrinks(k, h)
    <3>1. PICK w : w = [wire EXCEPT ![i][j] = <<>>]
      OBVIOUS
    <3>2. wire' = [w EXCEPT ![j][i] = <<>>]
      BY <2>3, <3>1 DEF Cut
    <3>3. w \in [Nodes -> [Nodes -> Seq(Unit)]] /\ \A k, h \in Nodes : w[k][h] \in {wire[k][h], <<>>}
      BY <2>0, <3>1
    <3>4. wire' \in [Nodes -> [Nodes -> Seq(Unit)]] /\ \A k, h \in Nodes : wire'[k][h] \in {w[k][h], <<>>}
      BY <2>0, <3>2, <3>3
    <3>5. QED  BY <3>3, <3>4 DEF Shrinks
  <2>4. ASSUME NEW i \in Nodes, NEW j \in Nodes, Derailed(i, j), wire' = Take(i, j)
        PROVE  wire' \in [Nodes -> [Nodes -> Seq(Unit)]] /\ \A k, h \in Nodes : Shrinks(k, h)
    BY <2>4, Taken, WireKept DEF Derailed
  <2>5. QED  BY <2>1, <2>2, <2>3, <2>4 DEF Disconnect, Derailed, Forget, vars
<1>6. Placed'
  BY <1>1, <1>5, PlacedKept DEF Placed
<1>7. QED  BY <1>1, <1>2, <1>3, <1>4, <1>5, <1>6, GetKept DEF TypeOK, Quiet, Unsaid

LEMMA QuietFetch ==
    ASSUME TypeOK, Placed, NEW i \in Nodes, NEW j \in Nodes, HandleFetchFile(i, j)
    PROVE  /\ TypeOK' /\ Placed' /\ Quiet
           /\ \A r \in Requests : served'[r] # served[r] =>
                /\ served'[r] = served[r] \cup {i}
                /\ Meets(wire[j][i], Units("fetch", r))
<1> DEFINE u == Head(wire[j][i])
<1>1. /\ wire[j][i] # <<>> /\ u.kind = "fetch"
      /\ UNCHANGED <<up, stopped, blobs, rows, gone, get, offered, skew>>
      /\ faults' \in 0 .. MaxFaults
  <2>1. faults' = faults \/ Fault
    BY DEF HandleFetchFile, Goes
  <2>2. QED  BY <2>1, FaultsCount DEF HandleFetchFile, Arrived
<1>2. i # j /\ u \in Unit /\ u.req \in Requests
  BY <1>1, Apart, WireIs DEF Unit
<1>3. CASE wire' = Take(i, j) /\ UNCHANGED <<loop, served>>
  <2>1. wire' = Take(i, j) /\ UNCHANGED <<loop, served>>
    BY <1>3
  <2>2. wire' \in [Nodes -> [Nodes -> Seq(Unit)]] /\ \A k, h \in Nodes : Shrinks(k, h)
    BY <1>1, <2>1, Taken, WireKept
  <2>3. Placed'
    BY <2>1, <2>2, PlacedKept DEF Placed
  <2>4. QED  BY <1>1, <2>1, <2>2, <2>3, GetKept DEF TypeOK, Quiet, Unsaid
<1>4. CASE /\ u.digest \in blobs[i]
           /\ wire' = Answer(i, j, Msg("transfer", u.req, u.digest))
           /\ loop' = [loop EXCEPT ![i] = [st |-> "sending", peer |-> j, req |-> u.req,
                                           digest |-> u.digest, left |-> Pieces,
                                           refused |-> FALSE, spoilt |-> FALSE]]
           /\ served' = [served EXCEPT ![u.req] = @ \cup {i}]
  <2>1. u.digest \in Digests
    BY <1>4 DEF TypeOK
  <2>2. /\ wire' = Answer(i, j, Msg("transfer", u.req, u.digest))
        /\ loop' = [loop EXCEPT ![i] = [st |-> "sending", peer |-> j, req |-> u.req,
                                        digest |-> u.digest, left |-> Pieces,
                                        refused |-> FALSE, spoilt |-> FALSE]]
        /\ served' = [served EXCEPT ![u.req] = @ \cup {i}]
    BY <1>4
  <2> HIDE DEF u
  <2>3. PICK m \in Unit : m = Msg("transfer", u.req, u.digest) /\ m.kind = "transfer" /\ m \notin Hollow
    <3>1. Msg("transfer", u.req, u.digest) \notin Hollow
      BY <1>2, <2>1, MsgIs, FetchAssumption DEF Hollow, Digest0
    <3>2. QED  BY <1>2, <2>1, <3>1, MsgIs DEF Digest0
  <2>4. /\ wire' \in [Nodes -> [Nodes -> Seq(Unit)]] /\ Shrinks(j, i) /\ Grows(i, j, m)
        /\ \A k, h \in Nodes :
             ~(k = j /\ h = i) /\ ~(k = i /\ h = j) => wire'[k][h] = wire[k][h]
    BY <1>1, <2>2, <2>3, AnsweredTo
  <2>5. /\ loop' \in [Nodes -> BusyLoop \cup {IdleLoop}]
        /\ \A k \in Nodes : loop'[k].st # "idle" => loop'[k].peer # k
    <3> DEFINE l == [st |-> "sending", peer |-> j, req |-> u.req, digest |-> u.digest,
                     left |-> Pieces, refused |-> FALSE, spoilt |-> FALSE]
    <3>1. loop' = [loop EXCEPT ![i] = l]
      BY <2>2
    <3>2. l \in BusyLoop \cup {IdleLoop} /\ l.st # "idle" /\ l.peer = j
      BY <1>2, <2>1, NewLoop
    <3> HIDE DEF l
    <3>3. QED  BY <1>2, <3>1, <3>2, LoopSet
  <2>6. \A k, h \in Nodes : Unsaid(k, h)
    BY <1>2, <2>3, <2>4, WireKept DEF Unsaid
  <2>7. \A k, h \in Nodes : Shrinks(k, h) \/ \E x : Grows(k, h, x) /\ k # h /\ x \notin Hollow
    BY <2>6 DEF Unsaid
  <2>8. Placed'
    BY <2>5, <2>7, PlacedKept
  <2>9. served \in [Requests -> SUBSET Nodes]
    BY DEF TypeOK
  <2>10. served' \in [Requests -> SUBSET Nodes]
    BY <2>2, <2>9
  <2>11. \A r \in Requests : served'[r] # served[r] => r = u.req /\ served'[r] = served[r] \cup {i}
    BY <2>2, <2>9
  <2>12. Meets(wire[j][i], Units("fetch", u.req))
    <3>1. u \in Units("fetch", u.req)
      BY <1>1, <1>2 DEF Units
    <3>2. QED  BY <1>1, <3>1, TailMeets, WireIs DEF u
  <2>13. TypeOK'
    BY <1>1, <2>4, <2>5, <2>10 DEF TypeOK
  <2>14. Quiet
    BY <1>1, <2>6, GetKept DEF Quiet
  <2>15. QED  BY <2>8, <2>11, <2>12, <2>13, <2>14
<1>5. QED  BY <1>3, <1>4 DEF HandleFetchFile

-----------------------------------------------------------------------------
(* The books of one call: what a step of another leaves of them.           *)

Tokened(q) == Units("query", q) \cup Units("offer", q) \cup Units("fetch", q)

Frame(q) ==
    /\ Same(q) /\ offered'[q] = offered[q] /\ served'[q] \subseteq {get[q].from}
    /\ \A i, j \in Nodes : Shrinks(i, j) \/ \E m : Grows(i, j, m) /\ m \notin Tokened(q)

LEMMA FrameMeets ==
    ASSUME TypeOK, NEW q \in Requests, Frame(q), NEW i \in Nodes, NEW j \in Nodes,
           NEW M \in SUBSET Tokened(q)
    PROVE  /\ Meets(wire'[i][j], M) => Meets(wire[i][j], M)
           /\ Once(wire[i][j], M) => Once(wire'[i][j], M)
<1>1. CASE Shrinks(i, j)
  BY <1>1, ShrinkMeets
<1>2. CASE \E m : Grows(i, j, m) /\ m \notin Tokened(q)
  <2>1. PICK m : Grows(i, j, m) /\ m \notin M
    BY <1>2
  <2>2. QED  BY <2>1, GrowMeets
<1>3. QED  BY <1>1, <1>2 DEF Frame

LEMMA UnitSets ==
    ASSUME NEW r \in Requests
    PROVE  /\ Units("query", r) \in SUBSET Tokened(r)
           /\ Units("offer", r) \in SUBSET Tokened(r)
           /\ Units("fetch", r) \in SUBSET Tokened(r)
           /\ \A d \in Digest0 : {Msg("offer", r, d)} \in SUBSET Tokened(r)
<1>1. \A d \in Digest0 : Msg("offer", r, d) \in Units("offer", r)
  BY MsgIs DEF Units
<1>2. QED  BY <1>1 DEF Tokened

LEMMA FrameKeeps ==
    ASSUME TypeOK, NEW q \in Requests, CallInv(q), Frame(q)
    PROVE  CallInv(q)'
<1> USE AskerIs
<1>1. Same(q) /\ offered'[q] = offered[q] /\ served'[q] \subseteq {get[q].from}
  BY DEF Frame
<1>2. \A i, j \in Nodes :
        /\ Meets(wire'[i][j], Units("query", q)) => Meets(wire[i][j], Units("query", q))
        /\ Meets(wire'[i][j], Units("offer", q)) => Meets(wire[i][j], Units("offer", q))
        /\ Meets(wire'[i][j], Units("fetch", q)) => Meets(wire[i][j], Units("fetch", q))
        /\ \A d \in Digest0 :
             Meets(wire'[i][j], {Msg("offer", q, d)}) => Meets(wire[i][j], {Msg("offer", q, d)})
  BY UnitSets, FrameMeets
<1>3. \A i, j \in Nodes :
        /\ Once(wire[i][j], Units("query", q)) => Once(wire'[i][j], Units("query", q))
        /\ Once(wire[i][j], Units("offer", q)) => Once(wire'[i][j], Units("offer", q))
  BY UnitSets, FrameMeets
<1>4. \A j \in Nodes :
        /\ Asks(q, j)' => Asks(q, j)
        /\ Says(q, j)' => Says(q, j)
        /\ Heard(q, j)' <=> Heard(q, j)
        /\ Declined(q, j)' <=> Declined(q, j)
        /\ \A d \in Digest0 : Noted(q, j, d)' <=> Noted(q, j, d)
  BY <1>1, <1>2 DEF Asks, Says, Heard, Same, Declined, Noted
<1>5. Sides(q)'
  BY <1>1, <1>2 DEF CallInv, Sides, Same
<1>6. ASSUME NEW j \in Nodes
      PROVE  OneToken(q, j)'
  <2>1. OneToken(q, j)
    BY DEF CallInv
  <2>2. QED  BY <1>1, <1>3, <1>4, <2>1 DEF OneToken, Same
<1>7. ASSUME NEW j \in Nodes
      PROVE  Truthful(q, j)'
  <2>1. Truthful(q, j)
    BY DEF CallInv
  <2>2. QED  BY <1>1, <1>2, <1>4, <2>1 DEF Truthful, Same
<1>8. Deciding(q)' <=> Deciding(q)
  BY <1>1 DEF Deciding, Same
<1>9. \A A, B, C \in SUBSET Nodes : Books(q, A, B, C) => Books(q, A, B, C)'
  BY <1>1, <1>4, <1>8 DEF Books, Same
<1>10. Ledger(q)'
  BY <1>1, <1>9 DEF CallInv, Ledger, Same
<1>11. Nobody(q)'
  BY <1>1, <1>4 DEF CallInv, Nobody, Same
<1>12. Streams(q)'
  BY <1>1, <1>8 DEF CallInv, Streams, Same
<1>13. QED  BY <1>5, <1>6, <1>7, <1>10, <1>11, <1>12 DEF CallInv

LEMMA QuietKeeps ==
    ASSUME TypeOK, Quiet, NEW q \in Requests, CallInv(q), served'[q] \subseteq {get[q].from}
    PROVE  CallInv(q)'
<1>1. \A m : m.kind \in {"transfer", "body"} => m \notin Tokened(q)
  BY DEF Tokened, Units
<1>2. Frame(q)
  BY <1>1 DEF Quiet, Frame, Unsaid
<1>3. QED  BY <1>2, FrameKeeps

(* A step of the call r. *)
Mine(r) ==
    /\ served' = served /\ loop' = loop
    /\ \A q \in Requests : q # r => get'[q] = get[q] /\ offered'[q] = offered[q]
    /\ \A i, j \in Nodes :
         Shrinks(i, j) \/ \E m : Grows(i, j, m) /\ i # j /\ m \notin Hollow /\ m.req = r

LEMMA Others ==
    ASSUME TypeOK, Placed, NEW r \in Requests, Mine(r), \A q \in Requests : CallInv(q)
    PROVE  Placed' /\ \A q \in Requests : q # r => CallInv(q)'
<1>1. \A k \in Nodes : loop'[k].st # "idle" => loop'[k].peer # k
  BY DEF Placed, Mine
<1>2. Placed'
  BY <1>1, PlacedKept DEF Mine
<1>3. ASSUME NEW q \in Requests, q # r
      PROVE  CallInv(q)'
  <2>1. \A m : m.req = r => m \notin Tokened(q)
    BY <1>3 DEF Tokened, Units
  <2>2. served'[q] \subseteq {get[q].from}
    BY DEF Mine, CallInv, Streams
  <2>3. Frame(q)
    BY <1>3, <2>1, <2>2 DEF Mine, Frame, Same
  <2>4. QED  BY <2>3, FrameKeeps
<1>4. QED  BY <1>2, <1>3

LEMMA GetSet ==
    ASSUME TypeOK, NEW r \in Requests, NEW x \in Calls, get' = [get EXCEPT ![r] = x]
    PROVE  /\ get' \in [Requests -> Calls] /\ get'[r] = x
           /\ \A q \in Requests : q # r => get'[q] = get[q]
  BY CallIs

(* Only the record of the call changes. *)
LEMMA WireSame ==
    ASSUME UNCHANGED <<wire, loop, offered, served>>, NEW r \in Requests,
           \A q \in Requests : q # r => get'[q] = get[q]
    PROVE  Mine(r)
  BY WireKept DEF Mine

LEMMA ReturnKeeps ==
    ASSUME TypeOK, NEW r \in Requests, CallInv(r), NEW o \in Outcomes, Return(r, o),
           UNCHANGED <<wire, offered, served>>,
           o = "nobody" => \A j \in Nodes : Declined(r, j) /\ ~Asks(r, j)
    PROVE  CallInv(r)'
<1> USE AskerIs
<1>1. /\ get'[r].st = "returned" /\ get'[r].todo = {} /\ get'[r].cap = 0
      /\ get'[r].asked = 0 /\ get'[r].replies = 0 /\ get'[r].offers = <<>>
      /\ get'[r].from = get[r].from /\ get'[r].digest = get[r].digest
      /\ get'[r].outcome = o
  BY Returned
<1>2. Sides(r)'
  BY <1>1 DEF CallInv, Sides
<1>3. \A j \in Nodes : /\ Asks(r, j)' <=> Asks(r, j)
                       /\ Says(r, j)' <=> Says(r, j)
                       /\ ~Heard(r, j)'
                       /\ Declined(r, j)' <=> Declined(r, j)
                       /\ \A d \in Digest0 : Noted(r, j, d)' <=> Noted(r, j, d)
  BY <1>1, EmptyMeets DEF Asks, Says, Heard, Declined, Noted
<1>4. ASSUME NEW j \in Nodes
      PROVE  OneToken(r, j)' /\ Truthful(r, j)'
  <2>1. OneToken(r, j) /\ Truthful(r, j)
    BY DEF CallInv
  <2>2. OneToken(r, j)'
    BY <1>1, <1>3, <2>1, EmptyMeets DEF OneToken
  <2>3. Truthful(r, j)'
    BY <1>1, <1>3, <2>1, EmptyMeets DEF Truthful
  <2>4. QED  BY <2>2, <2>3
<1>5. Ledger(r)'
  BY <1>1 DEF Ledger
<1>6. Nobody(r)'
  BY <1>1, <1>3 DEF Nobody
<1>7. Streams(r)'
  BY <1>1 DEF CallInv, Streams, Deciding
<1>8. QED  BY <1>2, <1>4, <1>5, <1>6, <1>7 DEF CallInv

LEMMA ReturnStep ==
    ASSUME TypeOK, Placed, \A q \in Requests : CallInv(q), NEW r \in Requests,
           NEW o \in Outcomes, Return(r, o),
           o = "nobody" => \A j \in Nodes : Declined(r, j) /\ ~Asks(r, j),
           UNCHANGED <<wire, up, stopped, blobs, rows, gone, loop, offered, served, skew, faults>>
    PROVE  FInv'
<1>1. get' \in [Requests -> Calls] /\ \A q \in Requests : q # r => get'[q] = get[q]
  BY Returned
<1>2. TypeOK'
  BY <1>1 DEF TypeOK, Calls
<1>3. Mine(r)
  BY <1>1, WireSame
<1>4. CallInv(r)'
  BY ReturnKeeps
<1>5. QED  BY <1>2, <1>3, <1>4, Others DEF FInv

LEMMA ReturnSteps ==
    ASSUME FInv, NEW r \in Requests,
           OfferTimeout(r) \/ DownloadTimeout(r) \/ GetStopped(r) \/ Done(r)
    PROVE  FInv'
<1>1. PICK o \in Outcomes : Return(r, o) /\ o # "nobody"
  BY DEF OfferTimeout, DownloadTimeout, GetStopped, Done, Outcomes
<1>2. UNCHANGED <<wire, up, stopped, blobs, rows, gone, loop, offered, served, skew, faults>>
  BY DEF OfferTimeout, DownloadTimeout, GetStopped, Done
<1>3. QED  BY <1>1, <1>2, ReturnStep DEF FInv

LEMMA StartStep ==
    ASSUME FInv, NEW r \in Requests, Start(r)
    PROVE  FInv'
<1>1. /\ get[r].st = "new"
      /\ UNCHANGED <<wire, up, stopped, blobs, rows, gone, loop, offered, served, skew, faults>>
  BY DEF Start
<1>2. CASE Return(r, "local") \/ Return(r, "unasked")
  <2>1. PICK o \in Outcomes : Return(r, o) /\ o # "nobody"
    BY <1>2 DEF Outcomes
  <2>2. QED  BY <1>1, <2>1, ReturnStep DEF FInv
<1>3. CASE get' = [get EXCEPT ![r].st = "asking", ![r].todo = Peers(Asker[r]),
                              ![r].cap = Cardinality(Peers(Asker[r]))]
  <2> DEFINE P == Peers(Asker[r])
  <2>1. P \in SUBSET Nodes /\ Cardinality(P) \in Nat
    BY AskerIs, PeersAre
  <2>2. PICK x : x = [get[r] EXCEPT !.st = "asking", !.todo = P, !.cap = Cardinality(P)]
    OBVIOUS
  <2>3. get[r] \in Calls
    BY CallIs DEF FInv
  <2>4. /\ x \in Calls /\ x.st = "asking" /\ x.todo = P /\ x.cap = Cardinality(P)
        /\ x.asked = get[r].asked /\ x.replies = get[r].replies /\ x.offers = get[r].offers
        /\ x.from = get[r].from /\ x.digest = get[r].digest /\ x.outcome = get[r].outcome
    <3> HIDE DEF P
    <3>1. QED  BY <2>1, <2>2, <2>3 DEF Calls
  <2>5. get' = [get EXCEPT ![r] = x]
    BY <1>3, <2>2
  <2>6. /\ get' \in [Requests -> Calls] /\ get'[r] = x
        /\ \A q \in Requests : q # r => get'[q] = get[q]
    BY <2>4, <2>5, GetSet DEF FInv
  <2>7. TypeOK'
    BY <1>1, <2>6 DEF FInv, TypeOK, Calls
  <2>8. Mine(r)
    BY <1>1, <2>6, WireSame
  <2>9. CallInv(r)
    BY DEF FInv
  <2>10. \A j \in Nodes : /\ Asks(r, j)' <=> Asks(r, j)
                          /\ Says(r, j)' <=> Says(r, j)
                          /\ Heard(r, j)' <=> Heard(r, j)
                          /\ Declined(r, j)' <=> Declined(r, j)
                          /\ \A d \in Digest0 : Noted(r, j, d)' <=> Noted(r, j, d)
    BY <1>1, <2>4, <2>6 DEF Asks, Says, Heard, Declined, Noted
  <2>11. Sides(r)'
    BY <1>1, <2>4, <2>6, <2>9 DEF CallInv, Sides
  <2>12. \A j \in Nodes : OneToken(r, j)' /\ Truthful(r, j)'
    <3> TAKE j \in Nodes
    <3>1. OneToken(r, j) /\ Truthful(r, j)
      BY <2>9 DEF CallInv
    <3>2. OneToken(r, j)'
      BY <1>1, <2>4, <2>6, <2>10, <3>1 DEF OneToken
    <3>3. Truthful(r, j)'
      BY <1>1, <2>4, <2>6, <2>10, <3>1 DEF Truthful
    <3>4. QED  BY <3>2, <3>3
  <2>13. Ledger(r)'
    <3>1. PICK A \in SUBSET Nodes, B \in SUBSET Nodes, C \in SUBSET Nodes : Books(r, A, B, C)
      BY <1>1, <2>9 DEF CallInv, Ledger
    <3>2. get[r].asked = 0 /\ get[r].outcome = "open"
      BY <1>1, <2>9 DEF CallInv, Ledger
    <3>3. A = {}
      <4>1. IsFiniteSet(A)
        BY FetchAssumption, FS_Subset
      <4>2. QED  BY <3>1, <3>2, <4>1, FS_EmptySet DEF Books
    <3>4. Deciding(r) /\ Deciding(r)'
      BY <1>1, <2>4, <2>6 DEF Deciding
    <3>5. Books(r, A, B, C)'
      <4>1. A \cap P = {} /\ A \cup P = P
        BY <3>3
      <4>2. Cardinality(A \cup P) <= Cardinality(P)
        BY <2>1, <4>1
      <4> HIDE DEF P
      <4>3. QED  BY <2>4, <2>6, <2>10, <3>1, <3>4, <4>1, <4>2 DEF Books
    <3>6. get'[r].st # "returned" /\ get'[r].st # "new" /\ get'[r].outcome = "open"
      BY <2>4, <2>6, <3>2
    <3>7. QED  BY <3>5, <3>6 DEF Ledger
  <2>14. Nobody(r)'
    BY <2>4, <2>6, <2>9, <2>10 DEF CallInv, Nobody
  <2>15. Streams(r)'
    BY <1>1, <2>4, <2>6, <2>9 DEF CallInv, Streams, Deciding
  <2>16. CallInv(r)'
    BY <2>11, <2>12, <2>13, <2>14, <2>15 DEF CallInv
  <2>17. QED  BY <2>7, <2>8, <2>16, Others DEF FInv
<1>4. QED  BY <1>2, <1>3 DEF Start

-----------------------------------------------------------------------------
(* A query is sent: the peer was not asked before, and has said nothing.   *)

LEMMA AskBooks ==
    ASSUME NEW A \in SUBSET Nodes, NEW T \in SUBSET Nodes, NEW j \in T, A \cap T = {},
           NEW n, NEW cap \in Nat, Cardinality(A) = n, Cardinality(A \cup T) <= cap
    PROVE  /\ Cardinality(A \cup {j}) = n + 1 /\ n \in Nat
           /\ Cardinality((A \cup {j}) \cup (T \ {j})) <= cap
           /\ Cardinality(A \cup (T \ {j})) <= cap
<1>1. IsFiniteSet(A) /\ IsFiniteSet(A \cup T)
  BY FetchAssumption, FS_Subset
<1>2. Cardinality(A \cup {j}) = n + 1 /\ n \in Nat
  BY <1>1, FS_AddElement, FS_CardinalityType
<1>3. (A \cup {j}) \cup (T \ {j}) = A \cup T /\ A \cup (T \ {j}) \in SUBSET (A \cup T)
  OBVIOUS
<1>4. Cardinality(A \cup (T \ {j})) <= Cardinality(A \cup T) /\ Cardinality(A \cup (T \ {j})) \in Nat
        /\ Cardinality(A \cup T) \in Nat
  BY <1>1, <1>3, FS_Subset, FS_CardinalityType
<1>5. Cardinality((A \cup {j}) \cup (T \ {j})) <= cap
  BY <1>3
<1>6. Cardinality(A \cup (T \ {j})) <= cap
  BY <1>4
<1>7. QED  BY <1>2, <1>5, <1>6

(* What asking j does to the connections; j may not be reached.            *)
Queried(r, j, reached) ==
    /\ wire' \in [Nodes -> [Nodes -> Seq(Unit)]]
    /\ \A a, b \in Nodes :
         /\ Shrinks(a, b) \/ \E m : Grows(a, b, m) /\ a # b /\ m \notin Hollow /\ m.req = r
         /\ Meets(wire'[a][b], Units("query", r)) =>
              Meets(wire[a][b], Units("query", r)) \/ (reached /\ a = Asker[r] /\ b = j)
         /\ Meets(wire'[a][b], Units("offer", r)) => Meets(wire[a][b], Units("offer", r))
         /\ Meets(wire'[a][b], Units("fetch", r)) => Meets(wire[a][b], Units("fetch", r))
         /\ \A d \in Digest0 : Meets(wire'[a][b], {Msg("offer", r, d)}) =>
                                 Meets(wire[a][b], {Msg("offer", r, d)})
         /\ Once(wire[a][b], Units("offer", r)) => Once(wire'[a][b], Units("offer", r))
         /\ Once(wire[a][b], Units("query", r))
              /\ ~(a = Asker[r] /\ b = j /\ Meets(wire[a][b], Units("query", r)))
              => Once(wire'[a][b], Units("query", r))

LEMMA AskWire ==
    ASSUME TypeOK, Placed, NEW r \in Requests, NEW j \in Nodes, j # Asker[r],
           wire' = Put(Asker[r], j, Msg("query", r, None))
    PROVE  Queried(r, j, TRUE)
<1> DEFINE i == Asker[r]
<1>1. i \in Nodes /\ None \in Digest0
  BY AskerIs DEF Digest0
<1>2. PICK m \in Unit : /\ m = Msg("query", r, None) /\ m.kind = "query" /\ m.req = r
                        /\ \A d \in Digest0 : m # Msg("offer", r, d)
  BY <1>1, MsgIs
<1>3. m \notin Hollow /\ m \notin Units("offer", r) /\ m \notin Units("fetch", r)
  BY <1>2 DEF Hollow, Units
<1>4. /\ Grows(i, j, m) /\ wire' \in [Nodes -> [Nodes -> Seq(Unit)]]
      /\ \A a, b \in Nodes : ~(a = i /\ b = j) => wire'[a][b] = wire[a][b]
  BY <1>1, <1>2, Sent
<1>5. \A M : /\ Meets(wire'[i][j], M) => Meets(wire[i][j], M) \/ m \in M
             /\ Once(wire[i][j], M) /\ ~(Meets(wire[i][j], M) /\ m \in M) => Once(wire'[i][j], M)
  BY <1>1, <1>4, GrowMeets
<1> HIDE DEF i
<1>6. ASSUME NEW a \in Nodes, NEW b \in Nodes
      PROVE  /\ Shrinks(a, b) \/ \E n : Grows(a, b, n) /\ a # b /\ n \notin Hollow /\ n.req = r
             /\ Meets(wire'[a][b], Units("query", r)) =>
                     Meets(wire[a][b], Units("query", r)) \/ (a = i /\ b = j)
             /\ Meets(wire'[a][b], Units("offer", r)) => Meets(wire[a][b], Units("offer", r))
             /\ Meets(wire'[a][b], Units("fetch", r)) => Meets(wire[a][b], Units("fetch", r))
             /\ \A d \in Digest0 : Meets(wire'[a][b], {Msg("offer", r, d)}) =>
                                        Meets(wire[a][b], {Msg("offer", r, d)})
             /\ Once(wire[a][b], Units("offer", r)) => Once(wire'[a][b], Units("offer", r))
             /\ Once(wire[a][b], Units("query", r))
                     /\ ~(a = i /\ b = j /\ Meets(wire[a][b], Units("query", r)))
                     => Once(wire'[a][b], Units("query", r))
  <2>1. CASE a = i /\ b = j
    <3>1. Grows(a, b, m) /\ a # b
      BY <1>4, <2>1 DEF i
    <3>2. QED  BY <1>2, <1>3, <1>5, <2>1, <3>1
  <2>2. CASE ~(a = i /\ b = j)
    BY <1>4, <2>2, WireKept
  <2>3. QED  BY <2>1, <2>2
<1>7. QED  BY <1>4, <1>6 DEF i, Queried

LEMMA AskStep ==
    ASSUME FInv, NEW r \in Requests, NEW j \in Nodes, Ask(r, j)
    PROVE  FInv'
<1> DEFINE i == Asker[r]
           reached == j \in Peers(i)
           asked == get[r].asked + (IF reached THEN 1 ELSE 0)
           last == get[r].todo = {j}
<1>1. /\ get[r].st = "asking" /\ j \in get[r].todo
      /\ wire' = IF reached THEN Put(i, j, Msg("query", r, None)) ELSE wire
      /\ IF last /\ asked = 0
           THEN Return(r, "unasked")
           ELSE get' = [get EXCEPT ![r].todo = @ \ {j}, ![r].asked = asked,
                                   ![r].st = IF last THEN "offers" ELSE @]
      /\ UNCHANGED <<up, stopped, blobs, rows, gone, loop, offered, served, skew, faults>>
  BY DEF Ask
<1>2. /\ TypeOK /\ Placed /\ CallInv(r) /\ i \in Nodes /\ get[r] \in Calls
      /\ get[r].asked \in Nat /\ get[r].todo \in SUBSET Nodes /\ get[r].cap \in Nat
  BY AskerIs, CallIs DEF FInv, Calls
<1>3. CASE last /\ asked = 0
  <2>1. ~reached
    BY <1>2, <1>3
  <2>2. Return(r, "unasked") /\ wire' = wire
    BY <1>1, <1>3, <2>1
  <2>3. QED  BY <1>1, <2>2, ReturnStep DEF FInv, Outcomes
<1>4. CASE ~(last /\ asked = 0)
  <2>1. get' = [get EXCEPT ![r].todo = @ \ {j}, ![r].asked = asked,
                           ![r].st = IF last THEN "offers" ELSE @]
    BY <1>1, <1>4
  <2>2. asked \in Nat
    BY <1>2
  <2>3. PICK s \in {"asking", "offers"} : s = IF last THEN "offers" ELSE get[r].st
    BY <1>1
  <2> HIDE DEF i, reached, asked, last
  <2>4. PICK x : x = [get[r] EXCEPT !.todo = @ \ {j}, !.asked = asked, !.st = s]
    OBVIOUS
  <2>5. /\ x \in Calls /\ x.st = s /\ x.todo = get[r].todo \ {j} /\ x.cap = get[r].cap
        /\ x.asked = asked /\ x.replies = get[r].replies /\ x.offers = get[r].offers
        /\ x.from = get[r].from /\ x.digest = get[r].digest /\ x.outcome = get[r].outcome
    BY <1>2, <2>2, <2>3, <2>4 DEF Calls
  <2>6. get' = [get EXCEPT ![r] = x]
    BY <2>1, <2>3, <2>4
  <2>7. /\ get' \in [Requests -> Calls] /\ get'[r] = x
        /\ \A q \in Requests : q # r => get'[q] = get[q]
    BY <1>2, <2>5, <2>6, GetSet
  <2>8. Queried(r, j, reached)
    <3>1. CASE reached
      <4>1. j # Asker[r] /\ wire' = Put(Asker[r], j, Msg("query", r, None))
        BY <1>1, <1>2, <3>1, PeersAre DEF reached, i
      <4>2. Queried(r, j, TRUE)
        BY <1>2, <4>1, AskWire
      <4>3. QED  BY <3>1, <4>2 DEF Queried
    <3>2. CASE ~reached
      <4>1. wire' = wire
        BY <1>1, <3>2 DEF reached
      <4>2. wire' \in [Nodes -> [Nodes -> Seq(Unit)]]
        BY <1>2, <4>1 DEF TypeOK
      <4>3. QED  BY <4>1, <4>2, <3>2, WireKept DEF Queried
    <3>3. QED  BY <3>1, <3>2
  <2>9. TypeOK'
    BY <1>1, <1>2, <2>7, <2>8 DEF Queried, TypeOK, Calls
  <2>10. Mine(r)
    BY <1>1, <2>7, <2>8 DEF Queried, Mine
  <2>11. PICK A \in SUBSET Nodes, B \in SUBSET Nodes, C \in SUBSET Nodes : Books(r, A, B, C)
    BY <1>1, <1>2 DEF CallInv, Ledger
  <2>12. /\ Deciding(r) /\ Deciding(r)' /\ j \notin A
         /\ ~Asks(r, j) /\ ~Says(r, j) /\ ~Heard(r, j) /\ Declined(r, j)
    BY <1>1, <2>3, <2>5, <2>7, <2>11 DEF Books, Deciding
  <2>13. \A k \in Nodes :
           /\ Asks(r, k)' => Asks(r, k) \/ (reached /\ k = j)
           /\ Says(r, k)' => Says(r, k)
           /\ Heard(r, k)' <=> Heard(r, k)
           /\ Declined(r, k)' <=> Declined(r, k)
           /\ \A d \in Digest0 : Noted(r, k, d)' <=> Noted(r, k, d)
    BY <1>1, <1>2, <2>5, <2>7, <2>8 DEF Queried, Asks, Says, Heard, Declined, Noted, i
  <2>14. Sides(r)'
    BY <1>2, <2>5, <2>7, <2>8 DEF Queried, CallInv, Sides, i
  <2>15. ASSUME NEW k \in Nodes
         PROVE  OneToken(r, k)' /\ Truthful(r, k)'
    <3>1. OneToken(r, k) /\ Truthful(r, k)
      BY <1>2 DEF CallInv
    <3>2. Once(wire'[i][k], Units("query", r))
      BY <1>2, <2>8, <2>12, <3>1 DEF Queried, OneToken, Asks, i
    <3>3. OneToken(r, k)'
      BY <1>2, <2>5, <2>7, <2>8, <2>12, <2>13, <3>1, <3>2 DEF Queried, OneToken, i
    <3>4. Truthful(r, k)'
      BY <1>2, <2>5, <2>7, <2>8, <2>12, <2>13, <3>1 DEF Queried, Truthful, i
    <3>5. QED  BY <3>3, <3>4
  <2>16. Ledger(r)'
    <3>0. PICK D : D = IF reached THEN A \cup {j} ELSE A
      OBVIOUS
    <3>1. /\ Cardinality(D) = asked /\ Cardinality(D \cup (get[r].todo \ {j})) <= get[r].cap
          /\ D \cap (get[r].todo \ {j}) = {} /\ D \in SUBSET Nodes
      <4>1. A \cap get[r].todo = {} /\ Cardinality(A) = get[r].asked
              /\ Cardinality(A \cup get[r].todo) <= get[r].cap
        BY <2>11 DEF Books
      <4>2. /\ Cardinality(A \cup {j}) = get[r].asked + 1
            /\ Cardinality((A \cup {j}) \cup (get[r].todo \ {j})) <= get[r].cap
            /\ Cardinality(A \cup (get[r].todo \ {j})) <= get[r].cap
        <5>1. PICK T \in SUBSET Nodes, n, cap \in Nat :
                 T = get[r].todo /\ n = get[r].asked /\ cap = get[r].cap
          BY <1>2
        <5>2. j \in T /\ A \cap T = {} /\ Cardinality(A) = n /\ Cardinality(A \cup T) <= cap
          BY <1>1, <4>1, <5>1
        <5>3. /\ Cardinality(A \cup {j}) = n + 1
              /\ Cardinality((A \cup {j}) \cup (T \ {j})) <= cap
              /\ Cardinality(A \cup (T \ {j})) <= cap
          BY <5>2, AskBooks
        <5>4. QED  BY <5>1, <5>3
      <4>3. CASE reached
        BY <1>2, <3>0, <4>1, <4>2, <4>3 DEF asked
      <4>4. CASE ~reached
        BY <1>2, <3>0, <4>1, <4>2, <4>4 DEF asked
      <4>5. QED  BY <4>3, <4>4
    <3>2. A \subseteq D /\ \A k \in D : k \in A \/ (reached /\ k = j)
      BY <3>0
    <3>3. reached => j \in D
      BY <3>0
    <3>4. Books(r, D, B, C)'
      <4>1. \A k \in Nodes : /\ Asks(r, k)' \/ Says(r, k)' => k \in D \ (B \cup C)
                             /\ Heard(r, k)' => k \in C
        BY <2>11, <2>12, <2>13, <3>2, <3>3 DEF Books
      <4>2. \A k \in Nodes : ~Declined(r, k)' => k \in D \ B
        BY <2>11, <2>12, <2>13, <3>2 DEF Books
      <4>3. B \subseteq D /\ C \subseteq D \ B /\ Cardinality(B) = get[r].replies
              /\ Cardinality(C) = Len(get[r].offers)
        BY <2>11, <3>2 DEF Books
      <4>4. QED  BY <2>5, <2>7, <3>1, <4>1, <4>2, <4>3 DEF Books
    <3>5. get'[r].outcome = "open"
      BY <1>1, <1>2, <2>5, <2>7 DEF CallInv, Ledger
    <3>6. get'[r].st \notin {"new", "returned"}
      BY <2>3, <2>5, <2>7
    <3>7. QED  BY <3>1, <3>4, <3>5, <3>6 DEF Ledger
  <2>17. Nobody(r)'
    <3>1. get'[r].outcome = "open"
      BY <1>1, <1>2, <2>5, <2>7 DEF CallInv, Ledger
    <3>2. QED  BY <3>1 DEF Nobody
  <2>18. Streams(r)'
    BY <1>1, <1>2, <2>5, <2>7, <2>12 DEF CallInv, Streams
  <2>19. CallInv(r)'
    BY <2>14, <2>15, <2>16, <2>17, <2>18 DEF CallInv
  <2>20. QED  BY <2>9, <2>10, <2>19, Others DEF FInv
<1>5. QED  BY <1>3, <1>4

-----------------------------------------------------------------------------
(* An answer is taken from the buffer: it is that of a peer that was asked *)
(* and not heard before, and says what was noted of it.                    *)

Took(r, j, d, x) ==
    /\ get[r].offers # <<>> /\ Head(get[r].offers) = <<j, d>>
    /\ x \in Calls /\ x.todo = get[r].todo /\ x.cap = get[r].cap /\ x.asked = get[r].asked
    /\ x.replies = get[r].replies + 1 /\ x.offers = Tail(get[r].offers)
    /\ x.outcome = get[r].outcome
    /\ \/ d # None /\ x.st = "chosen" /\ x.from = j /\ x.digest = d
       \/ d = None /\ x.st = get[r].st /\ x.from = get[r].from /\ x.digest = get[r].digest

LEMMA HeadIs ==
    ASSUME TypeOK, NEW r \in Requests, CallInv(r), get[r].offers # <<>>
    PROVE  /\ get[r].offers \in Seq(Nodes \X Digest0)
           /\ \E j \in Nodes, d \in Digest0 :
                Head(get[r].offers) = <<j, d>> /\ Heard(r, j) /\ Noted(r, j, d)
<1>1. get[r].offers \in Seq(Nodes \X Digest0)
  BY CallIs DEF Calls
<1>2. Head(get[r].offers) \in Nodes \X Digest0
  BY <1>1
<1>3. PICK j \in Nodes, d \in Digest0 : Head(get[r].offers) = <<j, d>>
  BY <1>2
<1>4. Heard(r, j) /\ Meets(get[r].offers, {<<j, d>>})
  BY <1>1, <1>3, TailMeets DEF Heard
<1>5. Noted(r, j, d)
  BY <1>4 DEF CallInv, Truthful
<1>6. QED  BY <1>1, <1>3, <1>4, <1>5

LEMMA AddCount ==
    ASSUME NEW B \in SUBSET Nodes, NEW j, j \notin B
    PROVE  Cardinality(B \cup {j}) = Cardinality(B) + 1 /\ Cardinality(B) \in Nat
<1>1. IsFiniteSet(B)
  BY FetchAssumption, FS_Subset
<1>2. QED  BY <1>1, FS_AddElement, FS_CardinalityType

LEMMA DropCount ==
    ASSUME NEW C \in SUBSET Nodes, NEW j, j \in C
    PROVE  Cardinality(C \ {j}) = Cardinality(C) - 1
<1>1. IsFiniteSet(C)
  BY FetchAssumption, FS_Subset
<1>2. QED  BY <1>1, FS_RemoveElement

LEMMA AllCounted ==
    ASSUME NEW A \in SUBSET Nodes, NEW B \in SUBSET A, Cardinality(B) = Cardinality(A)
    PROVE  B = A
<1>1. IsFiniteSet(A)
  BY FetchAssumption, FS_Subset
<1>2. QED  BY <1>1, FS_Subset

LEMMA TookKeeps ==
    ASSUME FInv, NEW r \in Requests, get[r].st = "offers",
           NEW j \in Nodes, NEW d \in Digest0, NEW x, Took(r, j, d, x),
           get' = [get EXCEPT ![r] = x],
           UNCHANGED <<wire, up, stopped, blobs, rows, gone, loop, offered, served, skew, faults>>
    PROVE  FInv'
<1>1. /\ TypeOK /\ CallInv(r) /\ Asker[r] \in Nodes /\ get[r] \in Calls
      /\ get[r].replies \in Nat /\ get[r].offers \in Seq(Nodes \X Digest0)
      /\ get[r].from \in Nodes \cup {None}
  BY AskerIs, CallIs DEF FInv, Calls
<1>2. /\ get[r].offers # <<>> /\ Head(get[r].offers) = <<j, d>>
      /\ x \in Calls /\ x.todo = get[r].todo /\ x.cap = get[r].cap /\ x.asked = get[r].asked
      /\ x.replies = get[r].replies + 1 /\ x.offers = Tail(get[r].offers)
      /\ x.outcome = get[r].outcome
      /\ \/ d # None /\ x.st = "chosen" /\ x.from = j /\ x.digest = d
         \/ d = None /\ x.st = get[r].st /\ x.from = get[r].from /\ x.digest = get[r].digest
  BY DEF Took
<1>3. /\ get' \in [Requests -> Calls] /\ get'[r] = x
      /\ \A q \in Requests : q # r => get'[q] = get[q]
  BY <1>1, <1>2, GetSet
<1>4. TypeOK'
  BY <1>1, <1>3 DEF TypeOK, Calls
<1>5. Mine(r)
  BY <1>3, WireSame
<1>6. Heard(r, j) /\ Noted(r, j, d)
  BY <1>1, <1>2, HeadIs
<1>7. \A M : /\ Meets(x.offers, M) => Meets(get[r].offers, M)
             /\ Once(get[r].offers, M) => Once(x.offers, M)
             /\ Once(get[r].offers, M) /\ <<j, d>> \in M => ~Meets(x.offers, M)
  <2>1. PICK s \in Seq(Nodes \X Digest0) : s = get[r].offers
    BY <1>1
  <2>2. s # <<>> /\ Head(s) = <<j, d>> /\ x.offers = Tail(s)
    BY <1>2, <2>1
  <2>3. \A M : /\ Meets(Tail(s), M) => Meets(s, M)
               /\ Once(s, M) => Once(Tail(s), M)
               /\ Once(s, M) /\ Head(s) \in M => ~Meets(Tail(s), M)
    BY <2>2, TailMeets
  <2>4. QED  BY <2>1, <2>2, <2>3
<1>8. Len(x.offers) = Len(get[r].offers) - 1
  BY <1>1, <1>2, TailMeets
<1>9. \A k \in Nodes :
        /\ Asks(r, k)' <=> Asks(r, k)
        /\ Says(r, k)' <=> Says(r, k)
        /\ Heard(r, k)' => Heard(r, k) /\ k # j
        /\ Declined(r, k)' <=> Declined(r, k)
        /\ \A e \in Digest0 : Noted(r, k, e)' <=> Noted(r, k, e)
  <2>1. OneToken(r, j)
    BY <1>1 DEF CallInv
  <2>2. ~Meets(x.offers, {j} \X Digest0)
    BY <1>7, <2>1 DEF OneToken
  <2>3. QED  BY <1>3, <1>7, <2>2 DEF Asks, Says, Heard, Declined, Noted
<1>10. Deciding(r) /\ get[r].from = None /\ served[r] = {} /\ get[r].outcome = "open"
  <2>1. Deciding(r) /\ get[r].from = None /\ get[r].outcome = "open"
    BY <1>1 DEF Deciding, CallInv, Streams, Ledger
  <2>2. served[r] \subseteq Nodes /\ served[r] \subseteq {None}
    BY <1>1, <2>1 DEF TypeOK, CallInv, Streams
  <2>3. QED  BY <2>1, <2>2, FetchAssumption
<1>11. Sides(r)'
  <2>1. \A a, b \in Nodes : ~Meets(wire[a][b], Units("fetch", r))
    BY <1>1, <1>10, FetchAssumption DEF CallInv, Sides
  <2>2. QED  BY <1>1, <2>1 DEF CallInv, Sides
<1>12. ASSUME NEW k \in Nodes
       PROVE  OneToken(r, k)' /\ Truthful(r, k)'
  <2>1. OneToken(r, k) /\ Truthful(r, k)
    BY <1>1 DEF CallInv
  <2>2. OneToken(r, k)'
    BY <1>3, <1>7, <1>9, <2>1 DEF OneToken
  <2>3. Truthful(r, k)'
    BY <1>3, <1>7, <1>9, <2>1 DEF Truthful
  <2>4. QED  BY <2>2, <2>3
<1>13. Ledger(r)'
  <2>1. PICK A \in SUBSET Nodes, B \in SUBSET Nodes, C \in SUBSET Nodes : Books(r, A, B, C)
    BY <1>1 DEF CallInv, Ledger
  <2>2. j \in C /\ B \subseteq A /\ C \subseteq A \ B
    BY <1>6, <2>1 DEF Books
  <2>3. PICK D \in SUBSET Nodes, E \in SUBSET Nodes : D = B \cup {j} /\ E = C \ {j}
    OBVIOUS
  <2>4. Cardinality(D) = x.replies /\ Cardinality(E) = Len(x.offers)
    <3>1. Cardinality(D) = Cardinality(B) + 1 /\ Cardinality(E) = Cardinality(C) - 1
      <4>1. Cardinality(B \cup {j}) = Cardinality(B) + 1 /\ Cardinality(C \ {j}) = Cardinality(C) - 1
        BY <2>2, AddCount, DropCount
      <4>2. QED  BY <2>3, <4>1
    <3>2. Cardinality(B) = get[r].replies /\ Cardinality(C) = Len(get[r].offers)
      BY <2>1 DEF Books
    <3>3. QED  BY <1>2, <1>8, <3>1, <3>2
  <2>5. D \subseteq A /\ E \subseteq A \ D /\ A \ (D \cup E) = A \ (B \cup C)
    BY <2>2, <2>3
  <2>6. \A k \in Nodes : /\ Asks(r, k)' \/ Says(r, k)' => k \in A \ (D \cup E)
                         /\ Heard(r, k)' => k \in E
    BY <1>9, <2>1, <2>3, <2>5 DEF Books
  <2>7. Deciding(r)' => \A k \in Nodes : ~Declined(r, k)' => k \in A \ D
    <3>1. ASSUME Deciding(r)', NEW k \in Nodes, ~Declined(r, k)
          PROVE  k \in A \ D
      <4>1. d = None
        BY <1>2, <1>3, <3>1 DEF Deciding
      <4>2. k # j
        BY <1>6, <3>1, <4>1 DEF Noted
      <4>3. k \in A \ B
        BY <1>10, <2>1, <3>1 DEF Books
      <4>4. QED  BY <2>3, <4>2, <4>3
    <3>2. QED  BY <1>9, <3>1
  <2>8. Books(r, A, D, E)'
    BY <1>2, <1>3, <2>1, <2>4, <2>5, <2>6, <2>7 DEF Books
  <2>9. get'[r].st \notin {"new", "returned"} /\ get'[r].outcome = "open"
    BY <1>2, <1>3, <1>10
  <2>10. QED  BY <2>8, <2>9 DEF Ledger
<1>14. Nobody(r)'
  BY <1>2, <1>3, <1>10 DEF Nobody
<1>15. Streams(r)'
  <2>1. CASE d = None
    BY <1>1, <1>2, <1>3, <1>10, <2>1 DEF Streams, CallInv
  <2>2. CASE d # None
    <3>1. get'[r].st = "chosen" /\ get'[r].from = j /\ get'[r].digest = d
      BY <1>2, <1>3, <2>2
    <3>2. <<j, d>> \in offered[r]
      BY <1>6, <2>2 DEF Noted
    <3>3. QED  BY <1>10, <3>1, <3>2 DEF Streams, Deciding
  <2>3. QED  BY <2>1, <2>2
<1>16. CallInv(r)'
  BY <1>11, <1>12, <1>13, <1>14, <1>15 DEF CallInv
<1>17. QED  BY <1>4, <1>5, <1>16, Others DEF FInv

LEMMA TakeOfferStep ==
    ASSUME FInv, NEW r \in Requests, TakeOffer(r)
    PROVE  FInv'
<1> DEFINE o == Head(get[r].offers)
<1>1. /\ get[r].st = "offers" /\ get[r].offers # <<>>
      /\ UNCHANGED <<wire, up, stopped, blobs, rows, gone, loop, offered, served, skew, faults>>
  BY DEF TakeOffer
<1>2. TypeOK /\ Placed /\ CallInv(r) /\ get[r] \in Calls /\ get[r].replies \in Nat
  BY CallIs DEF FInv, Calls
<1>3. PICK j \in Nodes, d \in Digest0 :
        Head(get[r].offers) = <<j, d>> /\ Heard(r, j) /\ Noted(r, j, d)
  BY <1>1, <1>2, HeadIs
<1>4. PICK n \in Nat, t \in Seq(Nodes \X Digest0) :
        n = get[r].replies + 1 /\ t = Tail(get[r].offers)
  <2>1. Tail(get[r].offers) \in Seq(Nodes \X Digest0)
    BY <1>1, <1>2, HeadIs, TailMeets
  <2>2. get[r].replies + 1 \in Nat
    BY <1>2
  <2>3. QED  BY <2>1, <2>2
<1>5. o[1] = j /\ o[2] = d
  BY <1>3
<1> HIDE DEF o
<1>6. CASE /\ o[2] # None
           /\ get' = [get EXCEPT ![r].st = "chosen", ![r].from = o[1], ![r].digest = o[2],
                                 ![r].replies = @ + 1, ![r].offers = Tail(@)]
  <2>1. PICK x : x = [get[r] EXCEPT !.st = "chosen", !.from = j, !.digest = d,
                                    !.replies = n, !.offers = t]
    OBVIOUS
  <2>2. get' = [get EXCEPT ![r] = x]
    BY <1>4, <1>5, <1>6, <2>1
  <2>3. Took(r, j, d, x)
    <3>1. /\ x.todo = get[r].todo /\ x.cap = get[r].cap /\ x.asked = get[r].asked
          /\ x.replies = get[r].replies + 1 /\ x.offers = Tail(get[r].offers)
          /\ x.outcome = get[r].outcome /\ x.st = "chosen" /\ x.from = j /\ x.digest = d
      BY <1>2, <1>4, <2>1 DEF Calls
    <3>2. x \in Calls
      BY <1>2, <1>4, <2>1 DEF Calls
    <3>3. d # None
      BY <1>5, <1>6
    <3>4. QED  BY <1>1, <1>3, <3>1, <3>2, <3>3 DEF Took
  <2>4. QED  BY <1>1, <2>2, <2>3, TookKeeps
<1>7. CASE /\ o[2] = None
           /\ get' = [get EXCEPT ![r].replies = @ + 1, ![r].offers = Tail(@)]
  <2>1. PICK x : x = [get[r] EXCEPT !.replies = n, !.offers = t]
    OBVIOUS
  <2>2. get' = [get EXCEPT ![r] = x]
    BY <1>4, <1>7, <2>1
  <2>3. Took(r, j, d, x)
    <3>1. /\ x.todo = get[r].todo /\ x.cap = get[r].cap /\ x.asked = get[r].asked
          /\ x.replies = get[r].replies + 1 /\ x.offers = Tail(get[r].offers)
          /\ x.outcome = get[r].outcome /\ x.st = get[r].st /\ x.from = get[r].from
          /\ x.digest = get[r].digest
      BY <1>2, <1>4, <2>1 DEF Calls
    <3>2. x \in Calls
      BY <1>2, <1>4, <2>1 DEF Calls
    <3>3. d = None
      BY <1>5, <1>7
    <3>4. QED  BY <1>1, <1>3, <3>1, <3>2, <3>3 DEF Took
  <2>4. QED  BY <1>1, <2>2, <2>3, TookKeeps
<1>8. CASE o[2] = None /\ get[r].replies + 1 = get[r].asked /\ Return(r, "nobody")
  <2>1. PICK A \in SUBSET Nodes, B \in SUBSET Nodes, C \in SUBSET Nodes : Books(r, A, B, C)
    BY <1>1, <1>2 DEF CallInv, Ledger
  <2>2. j \in C /\ B \subseteq A /\ C \subseteq A \ B
    BY <1>3, <2>1 DEF Books
  <2>3. A = B \cup {j}
    <3>1. Cardinality(A) = get[r].asked /\ Cardinality(B) = get[r].replies
      BY <2>1 DEF Books
    <3>2. Cardinality(B) + 1 = Cardinality(A)
      BY <1>8, <3>1
    <3>3. Cardinality(B \cup {j}) = Cardinality(B) + 1 /\ B \cup {j} \in SUBSET A
      BY <2>2, AddCount
    <3>4. QED  BY <3>2, <3>3, AllCounted
  <2>4. Declined(r, j) /\ Deciding(r)
    BY <1>1, <1>3, <1>5, <1>8 DEF Noted, Deciding
  <2>5. \A k \in Nodes : Declined(r, k) /\ ~Asks(r, k)
    BY <2>1, <2>2, <2>3, <2>4 DEF Books
  <2>6. QED  BY <1>1, <1>8, <2>5, ReturnStep DEF FInv, Outcomes
<1>9. QED  BY <1>6, <1>7, <1>8 DEF TakeOffer, o

-----------------------------------------------------------------------------
(* The peer chosen is asked for the contents. *)

LEMMA SendFetchKeeps ==
    ASSUME FInv, NEW r \in Requests, get[r].st = "chosen",
           NEW j \in Nodes, j = get[r].from, j # Asker[r],
           wire' = Put(Asker[r], j, Msg("fetch", r, get[r].digest)),
           get' = [get EXCEPT ![r].st = "fetching"],
           UNCHANGED <<up, stopped, blobs, rows, gone, loop, offered, served, skew, faults>>
    PROVE  FInv'
<1>1. /\ TypeOK /\ Placed /\ CallInv(r) /\ Asker[r] \in Nodes /\ get[r] \in Calls
      /\ get[r].digest \in Digest0
  BY AskerIs, CallIs DEF FInv, Calls
<1>2. PICK i \in Nodes : i = Asker[r]
  BY <1>1
<1>3. PICK m \in Unit : /\ m = Msg("fetch", r, get[r].digest) /\ m.kind = "fetch" /\ m.req = r
                        /\ \A d \in Digest0 : m # Msg("offer", r, d)
  BY <1>1, MsgIs
<1>4. m \notin Hollow /\ m \notin Units("query", r) /\ m \notin Units("offer", r)
  BY <1>3 DEF Hollow, Units
<1>5. PICK x : x = [get[r] EXCEPT !.st = "fetching"]
  OBVIOUS
<1>6. /\ x \in Calls /\ x.st = "fetching" /\ x.todo = get[r].todo /\ x.cap = get[r].cap
      /\ x.asked = get[r].asked /\ x.replies = get[r].replies /\ x.offers = get[r].offers
      /\ x.from = get[r].from /\ x.digest = get[r].digest /\ x.outcome = get[r].outcome
  BY <1>1, <1>5 DEF Calls
<1>7. get' = [get EXCEPT ![r] = x]
  BY <1>5
<1>8. /\ get' \in [Requests -> Calls] /\ get'[r] = x
      /\ \A q \in Requests : q # r => get'[q] = get[q]
  BY <1>1, <1>6, <1>7, GetSet
<1>9. /\ Grows(i, j, m) /\ wire' \in [Nodes -> [Nodes -> Seq(Unit)]]
      /\ \A a, b \in Nodes : ~(a = i /\ b = j) => wire'[a][b] = wire[a][b]
  <2>1. wire' = Put(i, j, m)
    BY <1>2, <1>3
  <2>2. QED  BY <1>1, <2>1, Sent
<1>10. \A a, b \in Nodes :
         Shrinks(a, b) \/ \E n : Grows(a, b, n) /\ a # b /\ n \notin Hollow /\ n.req = r
  BY <1>2, <1>3, <1>4, <1>9, WireKept
<1>11. \A M : /\ Meets(wire'[i][j], M) => Meets(wire[i][j], M) \/ m \in M
              /\ Once(wire[i][j], M) /\ m \notin M => Once(wire'[i][j], M)
  BY <1>1, <1>9, GrowMeets
<1>12. \A a, b \in Nodes :
         /\ Meets(wire'[a][b], Units("query", r)) => Meets(wire[a][b], Units("query", r))
         /\ Meets(wire'[a][b], Units("offer", r)) => Meets(wire[a][b], Units("offer", r))
         /\ Meets(wire'[a][b], Units("fetch", r)) =>
              Meets(wire[a][b], Units("fetch", r)) \/ b = j
         /\ \A d \in Digest0 : Meets(wire'[a][b], {Msg("offer", r, d)}) =>
                                 Meets(wire[a][b], {Msg("offer", r, d)})
         /\ Once(wire[a][b], Units("offer", r)) => Once(wire'[a][b], Units("offer", r))
         /\ Once(wire[a][b], Units("query", r)) => Once(wire'[a][b], Units("query", r))
  BY <1>3, <1>4, <1>9, <1>11
<1>13. TypeOK'
  BY <1>1, <1>8, <1>9 DEF TypeOK, Calls
<1>14. Mine(r)
  BY <1>8, <1>10 DEF Mine
<1>15. \A k \in Nodes :
         /\ Asks(r, k)' => Asks(r, k)
         /\ Says(r, k)' => Says(r, k)
         /\ Heard(r, k)' <=> Heard(r, k)
         /\ Declined(r, k)' <=> Declined(r, k)
         /\ \A d \in Digest0 : Noted(r, k, d)' <=> Noted(r, k, d)
  BY <1>1, <1>6, <1>8, <1>12 DEF Asks, Says, Heard, Declined, Noted
<1>16. Sides(r)'
  BY <1>1, <1>6, <1>8, <1>12 DEF CallInv, Sides
<1>17. ASSUME NEW k \in Nodes
       PROVE  OneToken(r, k)' /\ Truthful(r, k)'
  <2>1. OneToken(r, k) /\ Truthful(r, k)
    BY <1>1 DEF CallInv
  <2>2. OneToken(r, k)'
    BY <1>1, <1>6, <1>8, <1>12, <1>15, <2>1 DEF OneToken
  <2>3. Truthful(r, k)'
    BY <1>1, <1>6, <1>8, <1>12, <1>15, <2>1 DEF Truthful
  <2>4. QED  BY <2>2, <2>3
<1>18. Ledger(r)'
  <2>1. PICK A \in SUBSET Nodes, B \in SUBSET Nodes, C \in SUBSET Nodes : Books(r, A, B, C)
    BY <1>1 DEF CallInv, Ledger
  <2>2. ~Deciding(r)'
    BY <1>6, <1>8 DEF Deciding
  <2>3. Books(r, A, B, C)'
    BY <1>6, <1>8, <1>15, <2>1, <2>2 DEF Books
  <2>4. get'[r].st \notin {"new", "returned"} /\ get'[r].outcome = "open"
    BY <1>1, <1>6, <1>8 DEF CallInv, Ledger
  <2>5. QED  BY <2>3, <2>4 DEF Ledger
<1>19. Nobody(r)'
  BY <1>1, <1>6, <1>8, <1>15 DEF CallInv, Nobody
<1>20. Streams(r)'
  BY <1>1, <1>6, <1>8 DEF CallInv, Streams, Deciding
<1>21. CallInv(r)'
  BY <1>16, <1>17, <1>18, <1>19, <1>20 DEF CallInv
<1>22. QED  BY <1>13, <1>14, <1>21, Others DEF FInv

LEMMA SendFetchStep ==
    ASSUME FInv, NEW r \in Requests, SendFetch(r)
    PROVE  FInv'
<1>1. /\ get[r].st = "chosen"
      /\ UNCHANGED <<up, stopped, blobs, rows, gone, loop, offered, served, skew, faults>>
  BY DEF SendFetch
<1>2. CASE /\ get[r].from \in Peers(Asker[r])
           /\ wire' = Put(Asker[r], get[r].from, Msg("fetch", r, get[r].digest))
           /\ get' = [get EXCEPT ![r].st = "fetching"]
  <2>1. PICK j \in Nodes : j = get[r].from /\ j # Asker[r]
    BY <1>2, AskerIs, PeersAre
  <2>2. QED  BY <1>1, <1>2, <2>1, SendFetchKeeps
<1>3. CASE Return(r, "lost") /\ UNCHANGED wire
  BY <1>1, <1>3, ReturnStep DEF FInv, Outcomes
<1>4. QED  BY <1>2, <1>3 DEF SendFetch

-----------------------------------------------------------------------------
(* A query is answered: the token of the peer goes to the other wire.      *)

LEMMA QueryAnswered ==
    ASSUME FInv, NEW i \in Nodes, NEW j \in Nodes, NEW r \in Requests, NEW d \in Digest0,
           wire[j][i] # <<>>, Head(wire[j][i]) \in Units("query", r),
           offered' = [offered EXCEPT ![r] = IF d = None THEN @ ELSE @ \cup {<<i, d>>}],
           wire' = Answer(i, j, Msg("offer", r, d)),
           UNCHANGED <<up, stopped, blobs, rows, gone, loop, get, served, skew>>, faults' = faults \/ Fault
    PROVE  FInv'
<1>1. TypeOK /\ Placed /\ CallInv(r) /\ get[r] \in Calls
  BY CallIs DEF FInv
<1>2. Meets(wire[j][i], Units("query", r))
  BY <1>1, TailMeets, WireIs
<1>3. j = Asker[r] /\ Asks(r, i)
  BY <1>1, <1>2 DEF CallInv, Sides, Asks
<1>4. /\ OneToken(r, i) /\ Truthful(r, i)
      /\ ~Says(r, i) /\ ~Heard(r, i) /\ Declined(r, i)
  BY <1>1, <1>3 DEF CallInv, OneToken, Truthful
<1>5. PICK m \in Unit : /\ m = Msg("offer", r, d) /\ m.kind = "offer" /\ m.req = r
                        /\ \A e \in Digest0 : m = Msg("offer", r, e) => e = d
  BY MsgIs
<1>6. m \notin Hollow /\ m \notin Units("query", r) /\ m \notin Units("fetch", r)
  BY <1>5 DEF Hollow, Units
<1>7. /\ i # j /\ wire'[j][i] = Tail(wire[j][i]) /\ Shrinks(j, i) /\ Grows(i, j, m)
      /\ \A a, b \in Nodes :
           ~(a = j /\ b = i) /\ ~(a = i /\ b = j) => wire'[a][b] = wire[a][b]
      /\ wire' \in [Nodes -> [Nodes -> Seq(Unit)]]
  <2>1. wire' = Answer(i, j, m)
    BY <1>5
  <2>2. QED  BY <1>1, <2>1, AnsweredTo
<1>8. \A a, b \in Nodes :
        Shrinks(a, b) \/ \E n : Grows(a, b, n) /\ a # b /\ n \notin Hollow /\ n.req = r
  BY <1>5, <1>6, <1>7, WireKept
<1>9. \A M : /\ Meets(wire'[i][j], M) => Meets(wire[i][j], M) \/ m \in M
             /\ Once(wire[i][j], M) /\ ~(Meets(wire[i][j], M) /\ m \in M) => Once(wire'[i][j], M)
  BY <1>1, <1>7, GrowMeets
<1>10. \A M : /\ Meets(wire'[j][i], M) => Meets(wire[j][i], M)
              /\ Once(wire[j][i], M) => Once(wire'[j][i], M)
  BY <1>1, <1>7, ShrinkMeets
<1>11. \A a, b \in Nodes :
         /\ Meets(wire'[a][b], Units("query", r)) => Meets(wire[a][b], Units("query", r))
         /\ Meets(wire'[a][b], Units("fetch", r)) => Meets(wire[a][b], Units("fetch", r))
         /\ Meets(wire'[a][b], Units("offer", r)) =>
              Meets(wire[a][b], Units("offer", r)) \/ (a = i /\ b = j)
         /\ \A e \in Digest0 : Meets(wire'[a][b], {Msg("offer", r, e)}) =>
              Meets(wire[a][b], {Msg("offer", r, e)}) \/ (a = i /\ b = j /\ e = d)
         /\ Once(wire[a][b], Units("query", r)) => Once(wire'[a][b], Units("query", r))
         /\ Once(wire[a][b], Units("offer", r))
              /\ ~(a = i /\ b = j /\ Meets(wire[a][b], Units("offer", r)))
              => Once(wire'[a][b], Units("offer", r))
  <2> TAKE a \in Nodes, b \in Nodes
  <2>1. CASE a = i /\ b = j
    <3>1. \A M : /\ Meets(wire'[a][b], M) => Meets(wire[a][b], M) \/ m \in M
                 /\ Once(wire[a][b], M) /\ ~(Meets(wire[a][b], M) /\ m \in M) => Once(wire'[a][b], M)
      BY <1>9, <2>1
    <3>2. \A e \in Digest0 : m \in {Msg("offer", r, e)} => e = d
      BY <1>5
    <3>3. QED  BY <1>6, <2>1, <3>1, <3>2
  <2>2. CASE ~(a = i /\ b = j)
    <3>1. \A M : /\ Meets(wire'[a][b], M) => Meets(wire[a][b], M)
                 /\ Once(wire[a][b], M) => Once(wire'[a][b], M)
      <4>1. CASE a = j /\ b = i
        BY <1>10, <4>1
      <4>2. CASE ~(a = j /\ b = i)
        BY <1>7, <2>2, <4>2
      <4>3. QED  BY <4>1, <4>2
    <3>2. QED  BY <3>1
  <2>3. QED  BY <2>1, <2>2
<1>12. ~Meets(wire'[j][i], Units("query", r))
  <2>1. Once(wire[j][i], Units("query", r))
    BY <1>3, <1>4 DEF OneToken
  <2>2. PICK s \in Seq(Unit) : s = wire[j][i]
    BY <1>1, WireIs
  <2>3. ~Meets(Tail(s), Units("query", r))
    BY <2>1, <2>2, TailMeets
  <2>4. QED  BY <1>7, <2>2, <2>3
<1>13. /\ offered \in [Requests -> SUBSET (Nodes \X Digests)]
       /\ d # None => <<i, d>> \in Nodes \X Digests
  BY <1>1 DEF TypeOK, Digest0
<1>14. /\ offered' \in [Requests -> SUBSET (Nodes \X Digests)]
       /\ \A q \in Requests : q # r => offered'[q] = offered[q]
       /\ offered'[r] = IF d = None THEN offered[r] ELSE offered[r] \cup {<<i, d>>}
  <2>1. PICK O \in SUBSET (Nodes \X Digests) :
           O = IF d = None THEN offered[r] ELSE offered[r] \cup {<<i, d>>}
    BY <1>13
  <2>2. offered' = [offered EXCEPT ![r] = O]
    BY <2>1
  <2>3. QED  BY <1>13, <2>1, <2>2
<1>15. \A k \in Nodes :
         /\ Asks(r, k)' => Asks(r, k) /\ k # i
         /\ Says(r, k)' => Says(r, k) \/ k = i
         /\ Heard(r, k)' <=> Heard(r, k)
         /\ k # i => (Declined(r, k)' <=> Declined(r, k))
         /\ k # i => \A e \in Digest0 : Noted(r, k, e)' <=> Noted(r, k, e)
  <2>1. \A k \in Nodes : /\ Asks(r, k)' => Asks(r, k) /\ k # i
                         /\ Says(r, k)' => Says(r, k) \/ k = i
                         /\ Heard(r, k)' <=> Heard(r, k)
    BY <1>3, <1>11, <1>12 DEF Asks, Says, Heard
  <2>2. \A k \in Nodes : k # i => \A e \in Digest0 : <<k, e>> \in offered'[r] <=> <<k, e>> \in offered[r]
    BY <1>14
  <2>3. \A k \in Nodes : k # i => (Declined(r, k)' <=> Declined(r, k))
    BY <2>2 DEF Declined, Digest0
  <2>4. \A k \in Nodes : k # i => \A e \in Digest0 : Noted(r, k, e)' <=> Noted(r, k, e)
    BY <2>2, <2>3 DEF Noted
  <2>5. QED  BY <2>1, <2>3, <2>4
<1>16. Noted(r, i, d)'
  <2>1. CASE d = None
    BY <1>4, <1>14, <2>1 DEF Noted, Declined
  <2>2. CASE d # None
    BY <1>14, <2>2 DEF Noted
  <2>3. QED  BY <2>1, <2>2
<1>17. TypeOK'
  BY <1>1, <1>7, <1>14, FaultsCount DEF TypeOK
<1>18. Mine(r)
  BY <1>8, <1>14 DEF Mine
<1>19. Sides(r)'
  BY <1>1, <1>3, <1>11 DEF CallInv, Sides
<1>20. ASSUME NEW k \in Nodes
       PROVE  OneToken(r, k)' /\ Truthful(r, k)'
  <2>1. OneToken(r, k) /\ Truthful(r, k)
    BY <1>1 DEF CallInv
  <2>2. Once(wire'[k][Asker[r]], Units("offer", r))
    <3>1. CASE k = i
      BY <1>3, <1>4, <1>11, <2>1, <3>1 DEF OneToken, Says
    <3>2. CASE k # i
      BY <1>3, <1>11, <2>1, <3>2 DEF OneToken
    <3>3. QED  BY <3>1, <3>2
  <2>3. OneToken(r, k)'
    BY <1>3, <1>4, <1>11, <1>15, <2>1, <2>2 DEF OneToken
  <2>4. Truthful(r, k)'
    <3>1. CASE k # i
      BY <1>3, <1>11, <1>15, <2>1, <3>1 DEF Truthful
    <3>2. CASE k = i
      <4>1. ~Asks(r, i)'
        BY <1>15
      <4>2. \A e \in Digest0 : ~Meets(wire[i][j], {Msg("offer", r, e)})
        <5>1. \A e \in Digest0 : Msg("offer", r, e) \in Units("offer", r)
          BY MsgIs DEF Units
        <5>2. QED  BY <1>3, <1>4, <5>1 DEF Says, Meets
      <4>3. \A e \in Digest0 : ~Meets(get[r].offers, {<<i, e>>})
        BY <1>4 DEF Heard, Meets
      <4>4. \A e \in Digest0 : Meets(wire'[i][j], {Msg("offer", r, e)}) => e = d
        BY <1>11, <4>2
      <4>5. QED  BY <1>3, <1>16, <3>2, <4>1, <4>3, <4>4 DEF Truthful
    <3>3. QED  BY <3>1, <3>2
  <2>5. QED  BY <2>3, <2>4
<1>21. Ledger(r)'
  <2>1. ASSUME NEW A \in SUBSET Nodes, NEW B \in SUBSET Nodes, NEW C \in SUBSET Nodes,
               Books(r, A, B, C)
        PROVE  Books(r, A, B, C)'
    <3>1. i \in A \ (B \cup C)
      BY <1>3, <2>1 DEF Books
    <3>2. \A k \in Nodes : /\ Asks(r, k)' \/ Says(r, k)' => k \in A \ (B \cup C)
                           /\ Heard(r, k)' => k \in C
      BY <1>15, <2>1, <3>1 DEF Books
    <3>3. Deciding(r)' => \A k \in Nodes : ~Declined(r, k)' => k \in A \ B
      BY <1>15, <2>1, <3>1 DEF Books, Deciding
    <3>4. QED  BY <2>1, <3>2, <3>3 DEF Books
  <2>2. QED  BY <1>1, <2>1 DEF CallInv, Ledger
<1>22. Nobody(r)'
  BY <1>1, <1>3 DEF CallInv, Nobody
<1>23. Streams(r)'
  BY <1>1, <1>14 DEF CallInv, Streams, Deciding
<1>24. CallInv(r)'
  BY <1>19, <1>20, <1>21, <1>22, <1>23 DEF CallInv
<1>25. QED  BY <1>17, <1>18, <1>24, Others DEF FInv

LEMMA GetFileStep ==
    ASSUME FInv, NEW i \in Nodes, NEW j \in Nodes, HandleGetFile(i, j)
    PROVE  FInv'
<1>1. wire[j][i] # <<>> /\ Head(wire[j][i]).kind = "query"
  BY DEF HandleGetFile, Arrived
<1>2. Head(wire[j][i]) \in Unit /\ TypeOK
  BY <1>1, WireIs DEF FInv
<1>3. PICK r \in Requests : r = Head(wire[j][i]).req
  BY <1>2 DEF Unit
<1>4. Head(wire[j][i]) \in Units("query", r)
  BY <1>1, <1>2, <1>3 DEF Units
<1>5. Resolve(i, NameOf[r]) \in Digest0 /\ None \in Digest0
  BY <1>2, AskerIs, ResolveIs DEF Digest0
<1>6. PICK d \in Digest0 :
        /\ offered' = [offered EXCEPT ![r] = IF d = None THEN @ ELSE @ \cup {<<i, d>>}]
        /\ wire' = Answer(i, j, Msg("offer", r, d))
        /\ UNCHANGED <<up, stopped, blobs, rows, gone, loop, get, served, skew>>
        /\ faults' = faults \/ Fault
  BY <1>3, <1>5 DEF HandleGetFile, Goes
<1>7. QED  BY <1>1, <1>4, <1>6, QueryAnswered

-----------------------------------------------------------------------------
(* An answer arrives: its token goes to the buffer. *)

LEMMA AnswerHeard ==
    ASSUME FInv, NEW i \in Nodes, NEW j \in Nodes, NEW r \in Requests, NEW d \in Digest0,
           wire[j][i] # <<>>, Head(wire[j][i]) = Msg("offer", r, d),
           Registered(r),
           get' = [get EXCEPT ![r].offers = Append(@, <<j, d>>)],
           wire' = Take(i, j),
           UNCHANGED <<up, stopped, blobs, rows, gone, loop, offered, served, skew, faults>>
    PROVE  FInv'
<1>1. /\ TypeOK /\ Placed /\ CallInv(r) /\ get[r] \in Calls
      /\ get[r].offers \in Seq(Nodes \X Digest0)
  BY CallIs DEF FInv, Calls
<1>2. PICK m \in Unit : m = Msg("offer", r, d) /\ m \in Units("offer", r)
  BY MsgIs DEF Units
<1>3. Meets(wire[j][i], Units("offer", r)) /\ Meets(wire[j][i], {m})
  <2>1. Head(wire[j][i]) = m /\ wire[j][i] \in Seq(Unit)
    BY <1>1, <1>2, WireIs
  <2>2. QED  BY <1>2, <2>1, TailMeets
<1>4. i = Asker[r] /\ Says(r, j)
  BY <1>1, <1>3 DEF CallInv, Sides, Says
<1>5. OneToken(r, j) /\ ~Asks(r, j) /\ ~Heard(r, j) /\ Noted(r, j, d)
  BY <1>1, <1>2, <1>3, <1>4 DEF CallInv, OneToken, Truthful
<1>6. /\ wire'[j][i] = Tail(wire[j][i]) /\ Shrinks(j, i)
      /\ \A a, b \in Nodes : ~(a = j /\ b = i) => wire'[a][b] = wire[a][b]
      /\ wire' \in [Nodes -> [Nodes -> Seq(Unit)]]
  BY <1>1, Taken
<1>7. \A a, b \in Nodes : Shrinks(a, b)
  BY <1>6, WireKept
<1>8. \A a, b \in Nodes : \A M : /\ Meets(wire'[a][b], M) => Meets(wire[a][b], M)
                                 /\ Once(wire[a][b], M) => Once(wire'[a][b], M)
  BY <1>1, <1>7, ShrinkMeets
<1>9. ~Meets(wire'[j][i], Units("offer", r))
  <2>1. PICK s \in Seq(Unit) : s = wire[j][i]
    BY <1>1, WireIs
  <2>2. Once(s, Units("offer", r)) /\ Head(s) \in Units("offer", r)
    BY <1>2, <1>4, <1>5, <2>1 DEF OneToken
  <2>3. ~Meets(Tail(s), Units("offer", r))
    BY <2>1, <2>2, TailMeets
  <2>4. QED  BY <1>6, <2>1, <2>3
<1>10. PICK o \in Nodes \X Digest0 : o = <<j, d>>
  OBVIOUS
<1>11. PICK t \in Seq(Nodes \X Digest0) : t = Append(get[r].offers, o)
  <2>1. Append(get[r].offers, o) \in Seq(Nodes \X Digest0)
    BY <1>1, AppendMeets
  <2>2. QED  BY <2>1
<1>12. PICK x : x = [get[r] EXCEPT !.offers = t]
  OBVIOUS
<1>13. /\ x \in Calls /\ x.st = get[r].st /\ x.todo = get[r].todo /\ x.cap = get[r].cap
       /\ x.asked = get[r].asked /\ x.replies = get[r].replies /\ x.offers = t
       /\ x.from = get[r].from /\ x.digest = get[r].digest /\ x.outcome = get[r].outcome
  BY <1>1, <1>12 DEF Calls
<1>14. get' = [get EXCEPT ![r] = x]
  BY <1>10, <1>11, <1>12
<1>15. /\ get' \in [Requests -> Calls] /\ get'[r] = x
       /\ \A q \in Requests : q # r => get'[q] = get[q]
  BY <1>1, <1>13, <1>14, GetSet
<1>16. /\ Len(t) = Len(get[r].offers) + 1
       /\ \A M : /\ Meets(t, M) => Meets(get[r].offers, M) \/ o \in M
                 /\ Once(get[r].offers, M) /\ ~(Meets(get[r].offers, M) /\ o \in M) => Once(t, M)
  <2>1. PICK s \in Seq(Nodes \X Digest0) : s = get[r].offers
    BY <1>1
  <2>2. /\ Len(Append(s, o)) = Len(s) + 1
        /\ \A M : /\ Meets(Append(s, o), M) => Meets(s, M) \/ o \in M
                  /\ Once(s, M) /\ ~(Meets(s, M) /\ o \in M) => Once(Append(s, o), M)
    BY AppendMeets
  <2>3. QED  BY <1>11, <2>1, <2>2
<1>17. \A k \in Nodes :
         /\ Asks(r, k)' => Asks(r, k)
         /\ Says(r, k)' => Says(r, k) /\ k # j
         /\ Heard(r, k)' => Heard(r, k) \/ k = j
         /\ Declined(r, k)' <=> Declined(r, k)
         /\ \A e \in Digest0 : Noted(r, k, e)' <=> Noted(r, k, e)
  <2>1. \A k \in Nodes : o \in {k} \X Digest0 => k = j
    BY <1>10
  <2>2. \A k \in Nodes : Heard(r, k)' => Heard(r, k) \/ k = j
    BY <1>13, <1>15, <1>16, <2>1 DEF Heard
  <2>3. \A k \in Nodes : /\ Asks(r, k)' => Asks(r, k)
                         /\ Says(r, k)' => Says(r, k) /\ k # j
    BY <1>4, <1>8, <1>9 DEF Asks, Says
  <2>4. QED  BY <2>2, <2>3 DEF Declined, Noted
<1>18. TypeOK'
  BY <1>1, <1>6, <1>15 DEF TypeOK, Calls
<1>19. Mine(r)
  BY <1>7, <1>15 DEF Mine
<1>20. Sides(r)'
  BY <1>1, <1>8, <1>13, <1>15 DEF CallInv, Sides
<1>21. ASSUME NEW k \in Nodes
       PROVE  OneToken(r, k)' /\ Truthful(r, k)'
  <2>1. OneToken(r, k) /\ Truthful(r, k)
    BY <1>1 DEF CallInv
  <2>2. Once(t, {k} \X Digest0)
    <3>1. o \in {k} \X Digest0 => k = j
      BY <1>10
    <3>2. QED  BY <1>5, <1>16, <2>1, <3>1 DEF OneToken, Heard
  <2>3. OneToken(r, k)'
    <3>1. Asker[r] \in Nodes
      BY AskerIs
    <3>2. QED  BY <1>5, <1>8, <1>13, <1>15, <1>17, <2>1, <2>2, <3>1 DEF OneToken
  <2>4. Truthful(r, k)'
    <3>1. Asks(r, k)' => Declined(r, k)'
      BY <1>17, <2>1 DEF Truthful
    <3>2. ASSUME NEW e \in Digest0, Meets(wire'[k][Asker[r]], {Msg("offer", r, e)})
          PROVE  Noted(r, k, e)'
      BY <1>4, <1>8, <1>17, <2>1, <3>2 DEF Truthful
    <3>3. ASSUME NEW e \in Digest0, Meets(t, {<<k, e>>})
          PROVE  Noted(r, k, e)'
      <4>1. CASE o \in {<<k, e>>}
        <5>1. k = j /\ e = d
          BY <1>10, <4>1
        <5>2. QED  BY <1>5, <1>17, <5>1
      <4>2. CASE Meets(get[r].offers, {<<k, e>>})
        BY <1>17, <2>1, <4>2 DEF Truthful
      <4>3. QED  BY <1>16, <3>3, <4>1, <4>2
    <3>4. QED  BY <1>13, <1>15, <3>1, <3>2, <3>3 DEF Truthful
  <2>5. QED  BY <2>3, <2>4
<1>22. Ledger(r)'
  <2>1. PICK A \in SUBSET Nodes, B \in SUBSET Nodes, C \in SUBSET Nodes : Books(r, A, B, C)
    BY <1>1 DEF CallInv, Ledger, Registered
  <2>2. PICK D \in SUBSET Nodes : D = C \cup {j}
    OBVIOUS
  <2>3. j \in A \ (B \cup C)
    BY <1>4, <2>1 DEF Books
  <2>4. Cardinality(D) = Len(t)
    <3>1. Cardinality(D) = Cardinality(C) + 1
      BY <2>2, <2>3, AddCount
    <3>2. QED  BY <1>16, <2>1, <3>1 DEF Books
  <2>5. \A k \in Nodes : /\ Asks(r, k)' \/ Says(r, k)' => k \in A \ (B \cup D)
                         /\ Heard(r, k)' => k \in D
    BY <1>5, <1>17, <2>1, <2>2 DEF Books
  <2>6. Deciding(r)' => \A k \in Nodes : ~Declined(r, k)' => k \in A \ B
    BY <1>13, <1>15, <1>17, <2>1 DEF Books, Deciding
  <2>7. D \subseteq A \ B
    BY <2>1, <2>2, <2>3 DEF Books
  <2>8. Books(r, A, B, D)'
    BY <1>13, <1>15, <2>1, <2>4, <2>5, <2>6, <2>7 DEF Books
  <2>9. get'[r].st \notin {"new", "returned"} /\ get'[r].outcome = "open"
    BY <1>1, <1>13, <1>15 DEF CallInv, Ledger, Registered
  <2>10. QED  BY <2>8, <2>9 DEF Ledger
<1>23. Nobody(r)'
  BY <1>1, <1>13, <1>15, <1>17 DEF CallInv, Nobody
<1>24. Streams(r)'
  BY <1>1, <1>13, <1>15 DEF CallInv, Streams, Deciding
<1>25. CallInv(r)'
  BY <1>20, <1>21, <1>22, <1>23, <1>24 DEF CallInv
<1>26. QED  BY <1>18, <1>19, <1>25, Others DEF FInv

LEMMA FileOfferStep ==
    ASSUME FInv, NEW i \in Nodes, NEW j \in Nodes, HandleFileOffer(i, j)
    PROVE  FInv'
<1>1. wire[j][i] # <<>> /\ Head(wire[j][i]).kind = "offer" /\ wire' = Take(i, j)
      /\ UNCHANGED <<up, stopped, blobs, rows, gone, loop, offered, served, skew, faults>>
  BY DEF HandleFileOffer, Arrived
<1>2. Head(wire[j][i]) \in Unit /\ TypeOK /\ Placed
  BY <1>1, WireIs DEF FInv
<1>3. PICK r \in Requests, d \in Digest0 :
        r = Head(wire[j][i]).req /\ d = Head(wire[j][i]).digest
  BY <1>2 DEF Unit
<1>4. CASE Registered(r) /\ get' = [get EXCEPT ![r].offers = Append(@, <<j, d>>)]
  <2>1. Head(wire[j][i]) = Msg("offer", r, d)
    BY <1>1, <1>2, <1>3 DEF Msg, Unit
  <2>2. QED  BY <1>1, <1>4, <2>1, AnswerHeard
<1>5. CASE get' = get
  <2>1. wire' \in [Nodes -> [Nodes -> Seq(Unit)]] /\ \A a, b \in Nodes : Shrinks(a, b)
    BY <1>1, <1>2, Taken, WireKept
  <2>2. TypeOK'
    BY <1>1, <1>2, <1>5, <2>1 DEF TypeOK
  <2>3. Quiet
    BY <1>1, <1>5, <2>1, GetKept DEF Quiet, Unsaid
  <2>4. Placed'
    BY <1>1, <1>2, <2>1, PlacedKept DEF Placed
  <2>5. \A q \in Requests : CallInv(q)'
    <3>1. \A q \in Requests : CallInv(q) /\ served'[q] \subseteq {get[q].from}
      BY <1>1 DEF FInv, CallInv, Streams
    <3>2. QED  BY <1>2, <2>3, <3>1, QuietKeeps
  <2>6. QED  BY <2>2, <2>4, <2>5 DEF FInv
<1>6. QED  BY <1>3, <1>4, <1>5 DEF HandleFileOffer

-----------------------------------------------------------------------------
(* The invariant. *)

LEMMA FInvInit == Init => FInv
<1> SUFFICES ASSUME Init
             PROVE  FInv
  OBVIOUS
<1>1. /\ wire = [i \in Nodes |-> [j \in Nodes |-> <<>>]]
      /\ up = Links /\ stopped = {} /\ rows = FirstRows
      /\ blobs = [i \in Nodes |-> {FirstRows[i][n] : n \in Keys} \ {None}]
      /\ gone = [i \in Nodes |-> {}] /\ loop = [i \in Nodes |-> IdleLoop]
      /\ offered = [r \in Requests |-> {}] /\ served = [r \in Requests |-> {}]
      /\ skew = {} /\ faults = 0
  BY DEF Init
<1>g. PICK plan \in Plans : get = [r \in Requests |-> IF r \in plan THEN NewGet ELSE Unmade]
  BY DEF Init
<1>2. TypeOK
  <2>1. wire \in [Nodes -> [Nodes -> Seq(Unit)]]
    BY <1>1
  <2>2. up \subseteq SUBSET Nodes /\ stopped \subseteq Nodes /\ faults \in 0 .. MaxFaults
    <3>1. Links \subseteq {{i, j} : i, j \in Nodes} /\ MaxFaults \in Nat
      BY FetchAssumption
    <3>2. {{i, j} : i, j \in Nodes} \subseteq SUBSET Nodes
      OBVIOUS
    <3>3. up \subseteq SUBSET Nodes
      BY <1>1, <3>1, <3>2
    <3>4. faults \in 0 .. MaxFaults
      BY <1>1, <3>1
    <3>5. QED  BY <1>1, <3>3, <3>4
  <2>3. rows \in [Nodes -> [Keys -> Digest0]] /\ blobs \in [Nodes -> SUBSET Digests]
    BY <1>1, FetchAssumption DEF Digest0
  <2>4. /\ gone \in [Nodes -> SUBSET (Keys \X Digests)]
        /\ loop \in [Nodes -> BusyLoop \cup {IdleLoop}]
        /\ offered \in [Requests -> SUBSET (Nodes \X Digests)]
        /\ served \in [Requests -> SUBSET Nodes]
        /\ skew \subseteq Nodes \X Nodes
    BY <1>1
  <2>5. get \in [Requests -> Calls]
    <3>1. NewGet \in Calls
      BY DEF NewGet, Calls, Outcomes, Digest0
    <3>2. Unmade \in Calls
      BY <3>1 DEF Unmade, Calls
    <3>3. QED  BY <1>g, <3>1, <3>2
  <2>6. QED  BY <2>1, <2>2, <2>3, <2>4, <2>5 DEF TypeOK, Calls
<1>3. \A i, j \in Nodes : wire[i][j] = <<>> /\ loop[i].st = "idle"
  BY <1>1 DEF IdleLoop
<1>4. Placed
  BY <1>3, EmptyMeets DEF Placed
<1>5. ASSUME NEW r \in Requests
      PROVE  CallInv(r)
  <2>1. /\ get[r].st \in {"new", "returned"} /\ get[r].todo = {} /\ get[r].cap = 0 /\ get[r].asked = 0
        /\ get[r].replies = 0 /\ get[r].offers = <<>> /\ get[r].from = None
        /\ get[r].outcome = "open" /\ offered[r] = {} /\ served[r] = {}
    BY <1>1, <1>g DEF NewGet, Unmade
  <2>2. Asker[r] \in Nodes
    BY AskerIs
  <2>3. \A j \in Nodes : ~Asks(r, j) /\ ~Says(r, j) /\ ~Heard(r, j) /\ Declined(r, j)
    BY <1>3, <2>1, <2>2, EmptyMeets DEF Asks, Says, Heard, Declined
  <2>4. Sides(r)
    BY <1>3, EmptyMeets DEF Sides
  <2>5. \A j \in Nodes : OneToken(r, j) /\ Truthful(r, j)
    <3>1. \A j \in Nodes : OneToken(r, j)
      BY <1>3, <2>1, <2>2, <2>3, EmptyMeets DEF OneToken
    <3>2. \A j \in Nodes : Truthful(r, j)
      BY <1>3, <2>1, <2>2, <2>3, EmptyMeets DEF Truthful
    <3>3. QED  BY <3>1, <3>2
  <2>6. Books(r, {}, {}, {})
    <3>1. Cardinality({}) = 0 /\ Len(<<>>) = 0
      BY FS_EmptySet
    <3>2. {} \cup get[r].todo = {}
      BY <2>1
    <3>3. Cardinality({}) = get[r].asked /\ Cardinality({}) = get[r].replies
            /\ Cardinality({}) = Len(get[r].offers) /\ Cardinality({} \cup get[r].todo) <= get[r].cap
      BY <2>1, <3>1, <3>2
    <3>4. QED  BY <2>3, <3>3 DEF Books
  <2>7. Ledger(r)
    BY <2>1, <2>6 DEF Ledger
  <2>8. Nobody(r) /\ Streams(r)
    BY <2>1 DEF Nobody, Streams
  <2>9. QED  BY <2>4, <2>5, <2>7, <2>8 DEF CallInv
<1>6. QED  BY <1>2, <1>4, <1>5 DEF FInv

LEMMA QuietStep ==
    ASSUME FInv, TypeOK', Placed', Quiet, \A q \in Requests : served'[q] \subseteq {get[q].from}
    PROVE  FInv'
  BY QuietKeeps DEF FInv

LEMMA FInvStep == FInv /\ [Next]_vars => FInv'
<1> SUFFICES ASSUME FInv, [Next]_vars
             PROVE  FInv'
  OBVIOUS
<1>1. TypeOK /\ Placed
  BY DEF FInv
<1>2. \A q \in Requests : served[q] \subseteq {get[q].from}
  BY DEF FInv, CallInv, Streams
<1>3. ASSUME NEW r \in Requests, Start(r)
      PROVE  FInv'
  BY <1>3, StartStep
<1>4. ASSUME NEW r \in Requests, Answered(r)
      PROVE  FInv'
  <2>1. CASE \E j \in Nodes : Ask(r, j)
    BY <2>1, AskStep
  <2>2. CASE TakeOffer(r)
    BY <2>2, TakeOfferStep
  <2>3. CASE SendFetch(r)
    BY <2>3, SendFetchStep
  <2>4. CASE Done(r) \/ GetStopped(r)
    BY <2>4, ReturnSteps
  <2>5. QED  BY <1>4, <2>1, <2>2, <2>3, <2>4 DEF Answered
<1>5. ASSUME NEW r \in Requests, Timeout(r)
      PROVE  FInv'
  BY <1>5, ReturnSteps DEF Timeout
<1>6. ASSUME NEW i \in Nodes, Handle(i)
      PROVE  FInv'
  <2>1. PICK j \in Nodes : \/ HandleGetFile(i, j) \/ HandleFileOffer(i, j)
                           \/ HandleFetchFile(i, j) \/ HandleStream(i, j)
    BY <1>6 DEF Handle
  <2>2. CASE HandleGetFile(i, j)
    BY <2>2, GetFileStep
  <2>3. CASE HandleFileOffer(i, j)
    BY <2>3, FileOfferStep
  <2>4. CASE HandleFetchFile(i, j)
    <3>1. /\ TypeOK' /\ Placed' /\ Quiet
          /\ \A q \in Requests : served'[q] # served[q] =>
               served'[q] = served[q] \cup {i} /\ Meets(wire[j][i], Units("fetch", q))
      BY <1>1, <2>4, QuietFetch
    <3>2. \A q \in Requests : Meets(wire[j][i], Units("fetch", q)) => i = get[q].from
      BY DEF FInv, CallInv, Sides
    <3>3. \A q \in Requests : served'[q] \subseteq {get[q].from}
      BY <1>2, <3>1, <3>2
    <3>4. QED  BY <3>1, <3>3, QuietStep
  <2>5. CASE HandleStream(i, j)
    BY <1>1, <1>2, <2>5, QuietStream, QuietStep
  <2>6. QED  BY <2>1, <2>2, <2>3, <2>4, <2>5
<1>7. ASSUME NEW i \in Nodes, SendPiece(i) \/ SendFails(i) \/ ReadFails(i)
      PROVE  FInv'
  <2>1. TypeOK' /\ Placed' /\ Quiet
    BY <1>1, <1>7, QuietSending
  <2>2. served' = served
    BY <1>7 DEF SendPiece, SendFails, ReadFails
  <2>3. QED  BY <1>2, <2>1, <2>2, QuietStep
<1>8. ASSUME NEW i \in Nodes, Receives(i)
      PROVE  FInv'
  BY <1>1, <1>2, <1>8, QuietReceiving, QuietStep
<1>9. ASSUME \/ \E i, j \in Nodes : Disconnect(i, j) \/ Derailed(i, j)
             \/ \E i \in Nodes, n \in Keys : Forget(i, n)
             \/ \E i \in Nodes : Stop(i)
             \/ UNCHANGED vars
      PROVE  FInv'
  BY <1>1, <1>2, <1>9, QuietFaults, QuietStep
<1>10. QED
  BY <1>3, <1>4, <1>5, <1>6, <1>7, <1>8, <1>9 DEF Next, Steps, Loop, Receives

-----------------------------------------------------------------------------
(* What it says of the properties that are checked. *)

LEMMA BooksCount ==
    ASSUME TypeOK, NEW r \in Requests, CallInv(r)
    PROVE  get[r].replies + Len(get[r].offers) <= get[r].asked /\ get[r].asked <= get[r].cap
<1>0. /\ get[r].replies \in Nat /\ get[r].asked \in Nat /\ get[r].cap \in Nat
      /\ Len(get[r].offers) \in Nat
  BY CallIs DEF Calls
<1>1. CASE get[r].st = "returned"
  <2>1. get[r].offers = <<>> /\ get[r].asked = 0 /\ get[r].replies = 0
    BY <1>1 DEF CallInv, Ledger
  <2>2. QED  BY <1>0, <2>1
<1>2. CASE get[r].st # "returned"
  <2>1. PICK A \in SUBSET Nodes, B \in SUBSET Nodes, C \in SUBSET Nodes : Books(r, A, B, C)
    BY <1>2 DEF CallInv, Ledger
  <2>2. IsFiniteSet(A) /\ IsFiniteSet(B) /\ IsFiniteSet(C) /\ IsFiniteSet(A \cup get[r].todo)
    <3>1. get[r].todo \in SUBSET Nodes
      BY CallIs DEF Calls
    <3>2. QED  BY <3>1, FetchAssumption, FS_Subset
  <2>3. B \cup C \in SUBSET A /\ B \cap C = {} /\ A \in SUBSET (A \cup get[r].todo)
    BY <2>1 DEF Books
  <2>4. /\ Cardinality(B \cup C) = Cardinality(B) + Cardinality(C) - Cardinality({})
        /\ Cardinality(B \cup C) <= Cardinality(A)
        /\ Cardinality(A) <= Cardinality(A \cup get[r].todo) /\ Cardinality({}) = 0
        /\ Cardinality(A \cup get[r].todo) \in Nat
    BY <2>2, <2>3, FS_Union, FS_Subset, FS_EmptySet, FS_CardinalityType
  <2>5. /\ Cardinality(A) = get[r].asked /\ Cardinality(B) = get[r].replies
        /\ Cardinality(C) = Len(get[r].offers) /\ Cardinality(A \cup get[r].todo) <= get[r].cap
    BY <2>1 DEF Books
  <2>6. QED  BY <1>0, <2>4, <2>5
<1>3. QED  BY <1>1, <1>2

LEMMA TokensCount ==
    ASSUME TypeOK, NEW r \in Requests, CallInv(r), NEW j \in Nodes
    PROVE  /\ Cardinality(InWire(r, j, "query")) + Cardinality(InWire(r, j, "offer"))
                + Cardinality(Unread(r, j)) <= 1
           /\ j \in get[r].todo =>
                InWire(r, j, "query") \cup InWire(r, j, "offer") \cup Unread(r, j) = {}
<1> DEFINE i == Asker[r]
           Q == {p \in DOMAIN wire[i][j] : wire[i][j][p] \in Units("query", r)}
           O == {p \in DOMAIN wire[j][i] : wire[j][i][p] \in Units("offer", r)}
           U == {p \in DOMAIN get[r].offers : get[r].offers[p] \in {j} \X Digest0}
<1>1. /\ i \in Nodes /\ wire[i][j] \in Seq(Unit) /\ wire[j][i] \in Seq(Unit)
      /\ get[r].offers \in Seq(Nodes \X Digest0)
  BY AskerIs, CallIs, WireIs DEF Calls
<1>2. InWire(r, j, "query") = Q
  <2>1. \A p \in DOMAIN wire[i][j] : wire[i][j][p] \in Unit
    BY <1>1
  <2>2. QED  BY <2>1 DEF InWire, Units
<1>3. InWire(r, j, "offer") = O
  <2>1. \A p \in DOMAIN wire[j][i] : wire[j][i][p] \in Unit
    BY <1>1
  <2>2. QED  BY <2>1 DEF InWire, Units
<1>4. Unread(r, j) = U
  <2>1. \A p \in DOMAIN get[r].offers : get[r].offers[p] \in Nodes \X Digest0
    BY <1>1
  <2>2. QED  BY <2>1 DEF Unread
<1>5. OneToken(r, j)
  BY DEF CallInv
<1>6. Cardinality(Q) = (IF Asks(r, j) THEN 1 ELSE 0) /\ (Q = {} <=> ~Asks(r, j))
  BY <1>1, <1>5, OnceCount DEF OneToken, Asks
<1>7. Cardinality(O) = (IF Says(r, j) THEN 1 ELSE 0) /\ (O = {} <=> ~Says(r, j))
  BY <1>1, <1>5, OnceCount DEF OneToken, Says
<1>8. Cardinality(U) = (IF Heard(r, j) THEN 1 ELSE 0) /\ (U = {} <=> ~Heard(r, j))
  BY <1>1, <1>5, OnceCount DEF OneToken, Heard
<1> HIDE DEF Q, O, U
<1>9. Cardinality(Q) + Cardinality(O) + Cardinality(U) <= 1
  BY <1>5, <1>6, <1>7, <1>8 DEF OneToken
<1>10. j \in get[r].todo => ~Asks(r, j) /\ ~Says(r, j) /\ ~Heard(r, j)
  <2>1. CASE get[r].st = "returned"
    BY <2>1 DEF CallInv, Ledger
  <2>2. CASE get[r].st # "returned"
    BY <2>2 DEF CallInv, Ledger, Books
  <2>3. QED  BY <2>1, <2>2
<1>11. QED  BY <1>2, <1>3, <1>4, <1>6, <1>7, <1>8, <1>9, <1>10

LEMMA FInvMeans == FInv => FetchInv /\ NobodyMeansNobody /\ OneStreamer
<1> SUFFICES ASSUME FInv
             PROVE  FetchInv /\ NobodyMeansNobody /\ OneStreamer
  OBVIOUS
<1>1. TypeOK /\ \A r \in Requests : CallInv(r)
  BY DEF FInv
<1>2. FetchInv
  BY <1>1, BooksCount, TokensCount DEF FetchInv, Accounted
<1>3. ASSUME NEW r \in Requests, get[r].outcome = "nobody"
      PROVE  offered[r] = {}
  <2>1. \A j \in Nodes, d \in Digests : <<j, d>> \notin offered[r]
    BY <1>1, <1>3 DEF CallInv, Nobody, Declined
  <2>2. offered[r] \subseteq Nodes \X Digests
    BY <1>1 DEF TypeOK
  <2>3. QED  BY <2>1, <2>2
<1>4. OneStreamer
  BY <1>1 DEF OneStreamer, CallInv, Streams
<1>5. QED  BY <1>2, <1>3, <1>4 DEF NobodyMeansNobody

LEMMA FInvHolds == Spec => []FInv
<1>1. Init => FInv
  BY FInvInit
<1>2. FInv /\ [Next]_vars => FInv'
  BY FInvStep
<1>3. QED  BY <1>1, <1>2, PTL DEF Spec

(* Every peer asked has at most one answer under way or in the buffer, and *)
(* no more are counted than were asked: the buffer of fileRequest, sized by*)
(* the peers there were when Get began, never overflows, and awaitOffer's  *)
(* count is of answers of different peers.                                 *)
THEOREM AnswersAccounted == Spec => []FetchInv
<1>1. FInv => FetchInv
  BY FInvMeans
<1>2. QED  BY <1>1, FInvHolds, PTL

(* When awaitOffer returns that no peer holds the file, none of them ever  *)
(* offered it to this call (server.go:877).                                *)
THEOREM NobodyIsTrue == Spec => []NobodyMeansNobody
<1>1. FInv => NobodyMeansNobody
  BY FInvMeans
<1>2. QED  BY <1>1, FInvHolds, PTL

(* handleMessageFetchFile streams for a call on one node at most, the one  *)
(* the call chose, and for the digest that node offered.                   *)
THEOREM OnePeerStreams == Spec => []OneStreamer
<1>1. FInv => OneStreamer
  BY FInvMeans
<1>2. QED  BY <1>1, FInvHolds, PTL
=============================================================================
