-------------------------- MODULE HandshakeProofs --------------------------
(* The invariant of Handshake, what is settled by it, and the refinement   *)
(* of Authentication.                                                      *)
EXTENDS Handshake, SequenceTheorems, TLAPS

-----------------------------------------------------------------------------
(* Wires.                                                                  *)

(* What an end has written and not been read stays on the wire behind what *)
(* it writes next.                                                         *)
LEMMA WrittenLast ==
    ASSUME NEW s \in Seq(Pieces), NEW p \in Pieces
    PROVE  /\ Append(s, p) \in Seq(Pieces)
           /\ \A q : Contains(Append(s, p), q) => Contains(s, q) \/ q = p
<1>1. \A i \in 1 .. Len(Append(s, p)) : i \in 1 .. Len(s) \/ i = Len(s) + 1
  BY AppendProperties
<1>2. QED  BY <1>1, AppendProperties DEF Contains

(* A frame that is written adds no proof to a wire. *)
LEMMA FrameWritten ==
    ASSUME NEW s \in Seq(Pieces)
    PROVE  /\ s \o <<"frame", "rest">> \in Seq(Pieces)
           /\ Contains(s \o <<"frame", "rest">>, "proof") => Contains(s, "proof")
<1> DEFINE t == <<"frame", "rest">>
<1>1. t \in Seq(Pieces) /\ Len(t) = 2 /\ t[1] = "frame" /\ t[2] = "rest"
  BY DEF Pieces
<1> HIDE DEF t
<1>2. /\ s \o t \in Seq(Pieces)
      /\ Len(s \o t) = Len(s) + Len(t)
      /\ \A i \in 1 .. Len(s) + Len(t) :
           (s \o t)[i] = IF i <= Len(s) THEN s[i] ELSE t[i - Len(s)]
  BY <1>1, ConcatProperties, Zenon
<1>3. ASSUME NEW i \in 1 .. Len(s) + Len(t), (s \o t)[i] = "proof"
      PROVE  Contains(s, "proof")
  <2>1. Len(s) \in Nat /\ Len(t) = 2
    BY <1>1
  <2>2. CASE i <= Len(s)
    BY <1>2, <1>3, <2>1, <2>2 DEF Contains
  <2>3. CASE ~(i <= Len(s))
    <3>1. i - Len(s) \in {1, 2}
      BY <2>1, <2>3
    <3>2. QED  BY <1>1, <1>2, <1>3, <2>3, <3>1
  <2>4. QED  BY <2>2, <2>3
<1>4. QED  BY <1>2, <1>3 DEF t, Contains

(* Reading leaves nothing on a wire that was not there. *)
LEMMA ReadFirst ==
    ASSUME NEW s \in Seq(Pieces), NEW k \in Nat
    PROVE  /\ SubSeq(s, k + 1, Len(s)) \in Seq(Pieces)
           /\ SubSeq(s, k + 1, Len(s)) # <<>> => s # <<>>
           /\ \A q : Contains(SubSeq(s, k + 1, Len(s)), q) => Contains(s, q)
<1> DEFINE r == SubSeq(s, k + 1, Len(s))
<1>1. Len(s) \in Nat /\ \A i \in k + 1 .. Len(s) : s[i] \in Pieces
  OBVIOUS
<1>2. /\ r \in Seq(Pieces)
      /\ Len(r) = IF k + 1 <= Len(s) THEN Len(s) - (k + 1) + 1 ELSE 0
      /\ \A i \in 1 .. Len(s) - (k + 1) + 1 : r[i] = s[k + 1 + i - 1]
  BY <1>1, SubSeqProperties
<1> HIDE DEF r
<1>3. r # <<>> => s # <<>>
  <2>1. s = <<>> => Len(r) = 0
    BY <1>1, <1>2
  <2>2. QED  BY <1>2, <2>1
<1>4. ASSUME NEW q, NEW i \in 1 .. Len(r), r[i] = q
      PROVE  Contains(s, q)
  <2>1. i \in 1 .. Len(s) - (k + 1) + 1 /\ k + 1 + i - 1 \in 1 .. Len(s)
    BY <1>1, <1>2
  <2>2. s[k + 1 + i - 1] = q
    BY <1>2, <1>4, <2>1
  <2>3. QED  BY <2>1, <2>2 DEF Contains
<1>5. QED  BY <1>2, <1>3, <1>4 DEF r, Contains

LEMMA SaidWire ==
    ASSUME NEW e \in Ends, NEW p \in Pieces, wire \in [Ends -> Seq(Pieces)]
    PROVE  /\ Said(e, p) \in [Ends -> Seq(Pieces)]
           /\ \A f \in Ends : f # e => Said(e, p)[f] = wire[f]
           /\ \A q : Contains(Said(e, p)[e], q) => Contains(wire[e], q) \/ q = p
<1>1. wire[e] \in Seq(Pieces)
  OBVIOUS
<1>2. /\ Append(wire[e], p) \in Seq(Pieces)
      /\ \A q : Contains(Append(wire[e], p), q) => Contains(wire[e], q) \/ q = p
  BY <1>1, WrittenLast
<1>3. CASE e \in Mated
  BY <1>2, <1>3 DEF Said
<1>4. CASE e \notin Mated
  BY <1>4 DEF Said
<1>5. QED  BY <1>3, <1>4

LEMMA ConsumedWire ==
    ASSUME NEW w \in [Ends -> Seq(Pieces)], NEW e \in Ends, NEW k \in Nat
    PROVE  /\ Consumed(w, e, k) \in [Ends -> Seq(Pieces)]
           /\ \A f \in Ends :
                /\ Consumed(w, e, k)[f] # <<>> => w[f] # <<>>
                /\ \A q : Contains(Consumed(w, e, k)[f], q) => Contains(w[f], q)
<1>1. CASE e \notin Mated
  BY <1>1 DEF Consumed
<1>2. CASE e \in Mated
  <2>1. Mate[e] \in Ends
    BY <1>2, HandshakeAssumption DEF Mated
  <2>2. w[Mate[e]] \in Seq(Pieces)
    BY <2>1
  <2> DEFINE r == SubSeq(w[Mate[e]], k + 1, Len(w[Mate[e]]))
  <2>3. /\ r \in Seq(Pieces)
        /\ r # <<>> => w[Mate[e]] # <<>>
        /\ \A q : Contains(r, q) => Contains(w[Mate[e]], q)
    BY <2>2, ReadFirst
  <2>4. Consumed(w, e, k) = [w EXCEPT ![Mate[e]] = r]
    BY <1>2 DEF Consumed
  <2> HIDE DEF r
  <2>5. QED  BY <2>1, <2>3, <2>4
<1>3. QED  BY <1>1, <1>2

(* What is read first is on the wire. *)
LEMMA ReadyContains ==
    ASSUME NEW e \in Mated, NEW p, wire \in [Ends -> Seq(Pieces)], Ready(e, p)
    PROVE  /\ Mate[e] \in Ends /\ Mate[e] \in Mated /\ Mate[Mate[e]] = e
           /\ wire[Mate[e]] # <<>>
           /\ Contains(wire[Mate[e]], p)
<1>1. Mate[e] \in Ends /\ Mate[Mate[e]] = e /\ e \in Ends
  BY HandshakeAssumption DEF Mated
<1>2. Mate[e] \in Mated
  BY <1>1, HandshakeAssumption DEF Mated
<1>3. wire[Mate[e]] \in Seq(Pieces) /\ wire[Mate[e]] # <<>> /\ Head(wire[Mate[e]]) = p
  BY <1>1 DEF Ready
<1>4. wire[Mate[e]][1] = p /\ 1 \in 1 .. Len(wire[Mate[e]])
  BY <1>3
<1>5. QED  BY <1>1, <1>2, <1>3, <1>4 DEF Contains

-----------------------------------------------------------------------------
(* The invariant.                                                          *)

LEMMA InitInv == Init => HandshakeInv
<1> SUFFICES ASSUME Init PROVE HandshakeInv
  OBVIOUS
<1>1. TypeOK
  BY HandshakeAssumption DEF Init, TypeOK
<1>2. ASSUME NEW e \in Ends
      PROVE  StageFits(e) /\ WireFits(e) /\ HelloSettled(e) /\ ProofSeen(e)
  BY DEF Init, StageFits, WireFits, HelloSettled, ProofSeen, Contains
<1>3. QED  BY <1>1, <1>2 DEF HandshakeInv

(* What an end has said and signed stands. *)
Stands ==
    /\ speaks' = speaks
    /\ \A f \in Ends : remote[f] # Nobody => remote'[f] = remote[f]
    /\ Begun \subseteq Begun'

(* Whatever stands, stays proved. *)
LEMMA StaysProved ==
    ASSUME HandshakeInv, TypeOK', Stands, NEW e \in Ends
    PROVE  /\ remote'[e] = remote[e] => HelloSettled(e)'
           /\ stage'[e] = "up" /\ stage[e] = "up" => ProofSeen(e)'
<1>1. StageFits(e) /\ HelloSettled(e) /\ ProofSeen(e)
  BY DEF HandshakeInv
<1>2. ASSUME remote'[e] = remote[e] PROVE HelloSettled(e)'
  BY <1>1, <1>2, HandshakeAssumption DEF Stands, HelloSettled, Settles, HelloOf
<1>3. ASSUME stage'[e] = "up", stage[e] = "up" PROVE ProofSeen(e)'
  <2>1. remote[e] # Nobody /\ remote'[e] = remote[e]
    BY <1>1, <1>3 DEF StageFits, Stands
  <2>2. ASSUME NEW f \in Ends, remote[f] # Nobody
        PROVE  remote'[f] # Nobody /\ Signature(f)' = Signature(f)
    BY <2>2 DEF Stands, Signature, Transcript
  <2>3. e \in Mated => Mate[e] \in Ends
    BY HandshakeAssumption DEF Mated
  <2>4. QED  BY <1>1, <1>3, <2>1, <2>2, <2>3 DEF ProofSeen, Transcript
<1>4. QED  BY <1>2, <1>3

(* A step that accepts no hello and no proof keeps the invariant if it     *)
(* puts no new proof on a wire.                                            *)
LEMMA QuietStep ==
    ASSUME HandshakeInv, TypeOK', NEW e \in Ends,
           speaks' = speaks, remote' = remote,
           \/ stage' = stage
           \/ stage[e] # "new" /\ stage' = [stage EXCEPT ![e] = "closed"]
           \/ stage[e] = "new" /\ stage' = [stage EXCEPT ![e] = "greeted"],
           \A f \in Ends :
             /\ wire'[f] # <<>> => wire[f] # <<>> \/ stage'[f] # "new"
             /\ Contains(wire'[f], "proof") => Contains(wire[f], "proof")
    PROVE  HandshakeInv'
<1>1. \A f \in Ends :
        /\ stage[f] # "new" => stage'[f] # "new"
        /\ stage'[f] \in {"proving", "up"} => stage'[f] = stage[f]
        /\ stage'[f] \in {"new", "greeted"} => stage[f] \in {"new", "greeted"}
  BY DEF HandshakeInv, TypeOK
<1>2. Stands
  BY <1>1 DEF Stands, Begun
<1>3. ASSUME NEW f \in Ends
      PROVE  StageFits(f)' /\ WireFits(f)' /\ HelloSettled(f)' /\ ProofSeen(f)'
  <2>1. StageFits(f) /\ WireFits(f)
    BY DEF HandshakeInv
  <2>2. StageFits(f)' /\ WireFits(f)'
    BY <1>1, <2>1 DEF StageFits, WireFits
  <2>3. HelloSettled(f)'
    BY <1>2, StaysProved
  <2>4. ProofSeen(f)'
    <3>1. stage'[f] = "up" => stage[f] = "up"
      BY <1>1
    <3>2. CASE stage'[f] = "up"
      BY <1>2, <3>1, <3>2, StaysProved
    <3>3. CASE stage'[f] # "up"
      BY <3>3 DEF ProofSeen
    <3>4. QED  BY <3>2, <3>3
  <2>5. QED  BY <2>2, <2>3, <2>4
<1>4. QED  BY <1>3 DEF HandshakeInv

LEMMA GreetInv == ASSUME HandshakeInv, NEW e \in Ends, Greet(e) PROVE HandshakeInv'
<1>1. TypeOK
  BY DEF HandshakeInv
<1>2. /\ Said(e, "hello") \in [Ends -> Seq(Pieces)]
      /\ \A f \in Ends : f # e => Said(e, "hello")[f] = wire[f]
      /\ \A q : Contains(Said(e, "hello")[e], q) => Contains(wire[e], q) \/ q = "hello"
  BY <1>1, SaidWire DEF TypeOK, Pieces
<1>3. TypeOK'
  BY <1>1, <1>2 DEF TypeOK, Greet
<1>4. \A f \in Ends :
        /\ wire'[f] # <<>> => wire[f] # <<>> \/ stage'[f] # "new"
        /\ Contains(wire'[f], "proof") => Contains(wire[f], "proof")
  BY <1>1, <1>2 DEF TypeOK, Greet
<1>5. speaks' = speaks /\ remote' = remote /\ stage[e] = "new"
      /\ stage' = [stage EXCEPT ![e] = "greeted"]
  BY DEF Greet
<1>6. QED  BY <1>3, <1>4, <1>5, QuietStep

(* Steps that close the connection, or only move frames on it. *)
LEMMA CloseInv ==
    ASSUME HandshakeInv, NEW e \in Ends,
           RefuseHello(e) \/ RefuseProof(e) \/ Hangup(e) \/ Break(e)
             \/ ReadFrame(e) \/ ReadRest(e) \/ Announce(e)
    PROVE  HandshakeInv'
<1>1. TypeOK
  BY DEF HandshakeInv
<1>2. ASSUME NEW k \in Nat
      PROVE  /\ Consumed(wire, e, k) \in [Ends -> Seq(Pieces)]
             /\ \A f \in Ends :
                  /\ Consumed(wire, e, k)[f] # <<>> => wire[f] # <<>>
                  /\ Contains(Consumed(wire, e, k)[f], "proof") => Contains(wire[f], "proof")
  BY <1>1, ConsumedWire DEF TypeOK
<1>3. /\ wire[e] \o <<"frame", "rest">> \in Seq(Pieces)
      /\ Contains(wire[e] \o <<"frame", "rest">>, "proof") => Contains(wire[e], "proof")
  BY <1>1, FrameWritten DEF TypeOK
<1>4. CASE RefuseHello(e) \/ ReadRest(e)
  <2>1. wire' = Consumed(wire, e, 1) /\ stage[e] # "new"
        /\ stage' = [stage EXCEPT ![e] = "closed"]
        /\ UNCHANGED <<speaks, remote, told, faults>>
    BY <1>4 DEF RefuseHello, ReadRest
  <2>2. TypeOK'
    BY <1>1, <1>2, <2>1 DEF TypeOK
  <2>3. QED  BY <1>2, <2>1, <2>2, QuietStep
<1>5. CASE RefuseProof(e) \/ Hangup(e) \/ Break(e)
  <2>1. stage[e] # "new" /\ stage' = [stage EXCEPT ![e] = "closed"]
        /\ UNCHANGED <<speaks, remote, wire, told>>
        /\ (faults' = faults \/ (faults < MaxFaults /\ faults' = faults + 1))
    BY <1>5 DEF RefuseProof, Hangup, Break
  <2>2. TypeOK'
    BY <1>1, <2>1, HandshakeAssumption DEF TypeOK
  <2>3. QED  BY <2>1, <2>2, QuietStep
<1>6. CASE ReadFrame(e)
  <2>1. /\ wire' = Consumed(wire, e, 2)
        /\ UNCHANGED <<speaks, stage, remote, told, faults>>
    BY <1>6 DEF ReadFrame
  <2>2. TypeOK'
    BY <1>1, <1>2, <2>1 DEF TypeOK
  <2>3. QED  BY <1>2, <2>1, <2>2, QuietStep
<1>7. CASE Announce(e)
  <2>1. wire' = [wire EXCEPT ![e] = @ \o <<"frame", "rest">>] /\ told' = told \cup {e}
        /\ stage[e] = "up"
        /\ UNCHANGED <<speaks, stage, remote, faults>>
    BY <1>7 DEF Announce
  <2> DEFINE longer == wire[e] \o <<"frame", "rest">>
  <2>2. wire' = [wire EXCEPT ![e] = longer]
    BY <2>1
  <2>3. longer \in Seq(Pieces) /\ (Contains(longer, "proof") => Contains(wire[e], "proof"))
    BY <1>3
  <2> HIDE DEF longer
  <2>4. TypeOK'
    BY <1>1, <2>1, <2>2, <2>3 DEF TypeOK
  <2>5. \A f \in Ends :
          /\ wire'[f] # <<>> => wire[f] # <<>> \/ stage'[f] # "new"
          /\ Contains(wire'[f], "proof") => Contains(wire[f], "proof")
    BY <1>1, <2>1, <2>2, <2>3 DEF TypeOK
  <2>6. QED  BY <2>1, <2>4, <2>5, QuietStep
<1>8. QED  BY <1>4, <1>5, <1>6, <1>7

(* Accepting a hello and signing for it. *)
LEMMA HearHelloInv == ASSUME HandshakeInv, NEW e \in Ends, HearHello(e) PROVE HandshakeInv'
<1>1. TypeOK /\ StageFits(e) /\ stage[e] = "greeted" /\ remote[e] = Nobody
  BY DEF HandshakeInv, StageFits, HearHello
<1>2. PICK h \in Hellos(e) : Settles(e, h) /\ remote' = [remote EXCEPT ![e] = h]
  BY DEF HearHello
<1>3. /\ h \in Hello /\ h # Nobody
      /\ h.challenge \in Begun \cup Carriers
      /\ e \in Mated => h = HelloOf(Mate[e])
  <2>1. CASE e \in Mated
    <3>1. h = HelloOf(Mate[e]) /\ Ready(e, "hello")
      BY <1>2, <2>1 DEF Hellos, HearHello
    <3>2. Mate[e] \in Ends /\ wire[Mate[e]] # <<>>
      BY <1>1, <2>1, <3>1, ReadyContains DEF TypeOK
    <3>3. Mate[e] \in Begun
      BY <3>2 DEF HandshakeInv, WireFits, Begun
    <3>4. h \in Hello /\ h.challenge = Mate[e]
      BY <1>1, <3>1, <3>2, HandshakeAssumption DEF HelloOf, Hello, TypeOK, Honest
    <3>5. QED  BY <3>1, <3>3, <3>4, HandshakeAssumption
  <2>2. CASE e \notin Mated
    <3>1. h \in [version : Versions, key : Nodes \cup {Nobody},
                 port : BOOLEAN, challenge : Begun \cup Carriers \cup {Nobody}]
      BY <1>2, <2>2 DEF Hellos
    <3>2. h.challenge # Nobody
      BY <1>2 DEF Settles
    <3>3. h \in Hello /\ h.challenge \in Begun \cup Carriers
      BY <3>1, <3>2 DEF Hello, Begun
    <3>4. QED  BY <2>2, <3>3, HandshakeAssumption
  <2>3. QED  BY <2>1, <2>2
<1>4. /\ stage' = [stage EXCEPT ![e] = "proving"]
      /\ wire' = Consumed(Said(e, "proof"), e, 1)
      /\ UNCHANGED <<speaks, told, faults>>
  BY DEF HearHello
<1>5. /\ Said(e, "proof") \in [Ends -> Seq(Pieces)]
      /\ \A f \in Ends : f # e => Said(e, "proof")[f] = wire[f]
  BY <1>1, SaidWire DEF TypeOK, Pieces
<1>6. /\ wire' \in [Ends -> Seq(Pieces)]
      /\ \A f \in Ends :
           /\ wire'[f] # <<>> => Said(e, "proof")[f] # <<>>
           /\ Contains(wire'[f], "proof") => Contains(Said(e, "proof")[f], "proof")
  BY <1>4, <1>5, ConsumedWire
<1>7. TypeOK'
  BY <1>1, <1>2, <1>3, <1>4, <1>6 DEF TypeOK
<1>8. Stands
  BY <1>1, <1>2, <1>4 DEF Stands, Begun, TypeOK
<1>9. ASSUME NEW f \in Ends
      PROVE  StageFits(f)' /\ WireFits(f)' /\ HelloSettled(f)' /\ ProofSeen(f)'
  <2>1. StageFits(f) /\ WireFits(f)
    BY DEF HandshakeInv
  <2>2. stage'[e] = "proving" /\ remote'[e] = h
    BY <1>1, <1>2, <1>4 DEF TypeOK
  <2>3. f # e => stage'[f] = stage[f] /\ remote'[f] = remote[f]
    BY <1>1, <1>2, <1>4 DEF TypeOK
  <2>4. StageFits(f)'
    BY <1>3, <2>1, <2>2, <2>3 DEF StageFits
  <2>5. WireFits(f)'
    BY <1>3, <1>5, <1>6, <2>1, <2>2, <2>3 DEF WireFits
  <2>6. HelloSettled(f)'
    <3>1. CASE f = e
      <4>1. Settles(e, h)' /\ (HelloOf(Mate[e]))' = HelloOf(Mate[e])
        BY <1>2, <1>4 DEF Settles, HelloOf
      <4>2. h.challenge \in (Begun \cup Carriers)'
        BY <1>3, <1>8 DEF Stands
      <4>3. QED  BY <1>3, <2>2, <3>1, <4>1, <4>2 DEF HelloSettled, Settles, HelloOf
    <3>2. CASE f # e
      BY <1>7, <1>8, <2>3, <3>2, StaysProved
    <3>3. QED  BY <3>1, <3>2
  <2>7. ProofSeen(f)'
    <3>1. CASE stage'[f] = "up"
      <4>1. stage[f] = "up"
        BY <2>2, <2>3, <3>1
      <4>2. QED  BY <1>7, <1>8, <3>1, <4>1, StaysProved
    <3>2. CASE stage'[f] # "up"
      BY <3>2 DEF ProofSeen
    <3>3. QED  BY <3>1, <3>2
  <2>8. QED  BY <2>4, <2>5, <2>6, <2>7
<1>10. QED  BY <1>7, <1>9 DEF HandshakeInv

(* Accepting a proof. *)
LEMMA HearProofInv == ASSUME HandshakeInv, NEW e \in Ends, HearProof(e) PROVE HandshakeInv'
<1>1. TypeOK /\ StageFits(e) /\ HelloSettled(e) /\ stage[e] = "proving" /\ remote[e] # Nobody
  BY DEF HandshakeInv, StageFits, HearProof
<1>2. PICK k \in Nat : wire' = Consumed(wire, e, k)
  <2>1. PICK k \in 1 .. (IF e \notin Mated THEN 1 ELSE Len(wire[Mate[e]])) :
               wire' = Consumed(wire, e, k)
    BY DEF HearProof
  <2>2. e \in Mated => Mate[e] \in Ends
    BY HandshakeAssumption DEF Mated
  <2>3. k \in Nat
    BY <1>1, <2>1, <2>2 DEF TypeOK
  <2>4. QED  BY <2>1, <2>3
<1>3. /\ stage' = [stage EXCEPT ![e] = IF Proven(e) THEN "up" ELSE "closed"]
      /\ UNCHANGED <<speaks, remote, told, faults>>
  BY DEF HearProof
<1>4. /\ wire' \in [Ends -> Seq(Pieces)]
      /\ \A f \in Ends :
           /\ wire'[f] # <<>> => wire[f] # <<>>
           /\ Contains(wire'[f], "proof") => Contains(wire[f], "proof")
  BY <1>1, <1>2, ConsumedWire DEF TypeOK
<1>5. TypeOK'
  BY <1>1, <1>3, <1>4 DEF TypeOK
<1>6. Stands
  BY <1>1, <1>3 DEF Stands, Begun, TypeOK
<1>7. Proven(e) =>
        /\ \/ remote[e].key \in Carriers
           \/ \E f \in Ends :
                /\ remote[f] # Nobody
                /\ Signature(f) = Transcript(remote[e].key, NodeOf[e], e)
        /\ e \in Mated => remote[Mate[e]] # Nobody
  <2>1. CASE e \in Mated
    <3>1. Mate[e] \in Ends /\ Contains(wire[Mate[e]], "proof")
      BY <1>1, <2>1, ReadyContains DEF TypeOK, HearProof
    <3>2. remote[Mate[e]] # Nobody
      BY <3>1 DEF HandshakeInv, WireFits
    <3>3. QED  BY <2>1, <3>1, <3>2 DEF Proven, Verifies
  <2>2. CASE e \notin Mated
    <3>1. ASSUME NEW m \in Carriers, Verifies(e, Transcript(m, NodeOf[e], e))
          PROVE  remote[e].key \in Carriers
      BY <3>1 DEF Verifies, Transcript
    <3>2. QED  BY <2>2, <3>1 DEF Proven, Verifies, Signed
  <2>3. QED  BY <2>1, <2>2
<1>8. ASSUME NEW f \in Ends
      PROVE  StageFits(f)' /\ WireFits(f)' /\ HelloSettled(f)' /\ ProofSeen(f)'
  <2>1. StageFits(f) /\ WireFits(f)
    BY DEF HandshakeInv
  <2>2. stage'[e] \in {"up", "closed"} /\ (f # e => stage'[f] = stage[f])
    BY <1>1, <1>3 DEF TypeOK
  <2>3. StageFits(f)' /\ WireFits(f)'
    BY <1>1, <1>3, <1>4, <2>1, <2>2 DEF StageFits, WireFits
  <2>4. HelloSettled(f)'
    BY <1>3, <1>5, <1>6, StaysProved
  <2>5. ProofSeen(f)'
    <3>1. CASE f = e
      <4>1. stage'[e] = "up" => Proven(e)
        BY <1>1, <1>3 DEF TypeOK
      <4>2. \A g \in Ends : Signature(g)' = Signature(g)
        BY <1>3 DEF Signature, Transcript
      <4>3. QED  BY <1>3, <1>7, <3>1, <4>1, <4>2 DEF ProofSeen, Transcript
    <3>2. CASE f # e /\ stage[f] = "up"
      BY <1>5, <1>6, <2>2, <3>2, StaysProved
    <3>3. CASE f # e /\ stage[f] # "up"
      BY <2>2, <3>3 DEF ProofSeen
    <3>4. QED  BY <3>1, <3>2, <3>3
  <2>6. QED  BY <2>3, <2>4, <2>5
<1>9. QED  BY <1>5, <1>8 DEF HandshakeInv

LEMMA IdleInv == HandshakeInv /\ UNCHANGED vars => HandshakeInv'
BY DEF HandshakeInv, vars, TypeOK, StageFits, WireFits, HelloSettled, ProofSeen,
       Settles, Begun, HelloOf, Signature, Transcript

(* At any time, whoever is up has had a proof for this exchange, and both  *)
(* ends of a connection hold each other's hello.                           *)
THEOREM HandshakeInvariant == Spec => []HandshakeInv
<1>1. HandshakeInv /\ [Next]_vars => HandshakeInv'
  BY GreetInv, CloseInv, HearHelloInv, HearProofInv, IdleInv
     DEF Next, HandshakeStep, ConnectionStep
<1>2. QED  BY <1>1, InitInv, PTL DEF Spec

(* The two ends of a connection settle on the same version and on each     *)
(* other, whatever else is said and signed elsewhere.                      *)
THEOREM BothSettle == Spec => []SettledByBoth
<1>1. HandshakeInv => SettledByBoth
  <2> SUFFICES ASSUME HandshakeInv, NEW e \in Mated, stage[e] = "up"
               PROVE  /\ remote[e] = HelloOf(Mate[e]) /\ remote[Mate[e]] = HelloOf(e)
                      /\ NodeOf[e] # NodeOf[Mate[e]]
                      /\ speaks[NodeOf[e]] = speaks[NodeOf[Mate[e]]]
    BY DEF SettledByBoth
  <2>1. e \in Ends /\ Mate[e] \in Ends /\ Mate[e] \in Mated /\ Mate[Mate[e]] = e
    BY HandshakeAssumption DEF Mated
  <2>2. remote[e] # Nobody /\ remote[Mate[e]] # Nobody
    BY <2>1 DEF HandshakeInv, StageFits, ProofSeen
  <2>3. remote[e] = HelloOf(Mate[e]) /\ remote[Mate[e]] = HelloOf(e) /\ Settles(e, remote[e])
    BY <2>1, <2>2 DEF HandshakeInv, HelloSettled
  <2>4. QED  BY <2>3 DEF Settles, HelloOf
<1>2. QED  BY <1>1, HandshakeInvariant, PTL

-----------------------------------------------------------------------------
(* The refinement.                                                         *)

LEMMA AuthInit == Init => Auth!Init
BY HandshakeAssumption DEF Init, Auth!Init, Begun, Vouched, Accepted

(* Closing, breaking and framing part with the peer at most. *)
LEMMA AuthQuiet ==
    ASSUME HandshakeInv, NEW e \in Ends,
           RefuseHello(e) \/ RefuseProof(e) \/ Hangup(e) \/ Break(e)
             \/ ReadFrame(e) \/ ReadRest(e) \/ Announce(e)
    PROVE  [Auth!Next]_<<Begun, Vouched, Accepted>>
<1>1. TypeOK
  BY DEF HandshakeInv
<1>2. /\ remote' = remote
      /\ \/ stage' = stage
         \/ stage[e] # "new" /\ stage' = [stage EXCEPT ![e] = "closed"]
  BY DEF RefuseHello, RefuseProof, Hangup, Break, ReadFrame, ReadRest, Announce
<1>3. Begun' = Begun
  BY <1>1, <1>2 DEF Begun, TypeOK
<1>4. Vouched' = Vouched
  BY <1>2 DEF Vouched
<1>5. CASE stage' = stage
  BY <1>2, <1>3, <1>4, <1>5 DEF Accepted
<1>6. CASE stage' = [stage EXCEPT ![e] = "closed"]
  <2>1. Accepted' = [Accepted EXCEPT ![e] = Nobody]
    BY <1>1, <1>2, <1>6 DEF Accepted, TypeOK
  <2>2. Auth!Part(e)
    BY <1>3, <1>4, <2>1 DEF Auth!Part
  <2>3. QED  BY <2>2 DEF Auth!Next
<1>7. QED  BY <1>2, <1>5, <1>6

LEMMA AuthGreet ==
    ASSUME HandshakeInv, NEW e \in Ends, Greet(e) PROVE Auth!Next
<1>1. TypeOK /\ stage[e] = "new" /\ stage' = [stage EXCEPT ![e] = "greeted"]
      /\ remote' = remote
  BY DEF HandshakeInv, Greet
<1>2. Begun' = Begun \cup {e}
  BY <1>1 DEF Begun, TypeOK
<1>3. Vouched' = Vouched
  BY <1>1 DEF Vouched
<1>4. Accepted' = Accepted
  BY <1>1 DEF Accepted, TypeOK
<1>5. Auth!Begin(e)
  BY <1>2, <1>3, <1>4 DEF Auth!Begin
<1>6. QED  BY <1>5 DEF Auth!Next

(* Signing is vouching. *)
LEMMA AuthHearHello ==
    ASSUME HandshakeInv, HandshakeInv', NEW e \in Ends, HearHello(e) PROVE Auth!Next
<1>1. TypeOK /\ stage[e] = "greeted" /\ stage' = [stage EXCEPT ![e] = "proving"]
      /\ remote[e] = Nobody
  BY DEF HandshakeInv, StageFits, HearHello
<1>2. PICK h \in Hellos(e) : Settles(e, h) /\ remote' = [remote EXCEPT ![e] = h]
  BY DEF HearHello
<1>3. Begun' = Begun /\ e \in Begun
  BY <1>1 DEF Begun, TypeOK
<1>4. remote'[e] = h /\ remote'[e] # Nobody
  BY <1>1, <1>2 DEF TypeOK, HandshakeInv, StageFits
<1>5. h.key \in Nodes /\ h.challenge \in Begun \cup Carriers
  BY <1>2, <1>3, <1>4 DEF HandshakeInv, HelloSettled, Settles
<1> DEFINE c == IF h.challenge \in Ends THEN h.challenge ELSE Nobody
<1>6. c \in Ends \cup {Nobody} /\ c \in Begun \cup {Nobody}
  BY <1>5, HandshakeAssumption DEF Begun
<1>7. Vouched[e] = Nobody
  BY <1>1 DEF Vouched
<1>8. Vouched' = [Vouched EXCEPT ![e] = <<c, h.key>>]
  BY <1>1, <1>2, <1>4 DEF Vouched, TypeOK
<1>9. Accepted' = Accepted
  BY <1>1, <1>2 DEF Accepted, TypeOK
<1>10. Auth!Vouch(e, c, h.key)
  BY <1>3, <1>6, <1>7, <1>8, <1>9 DEF Auth!Vouch
<1>11. QED  BY <1>5, <1>6, <1>10 DEF Auth!Next

(* A proof that verifies is what the peer has vouched for. *)
LEMMA AuthHearProof ==
    ASSUME HandshakeInv, HandshakeInv', NEW e \in Ends, HearProof(e) PROVE Auth!Next
<1>1. TypeOK /\ stage[e] = "proving" /\ remote' = remote
      /\ stage' = [stage EXCEPT ![e] = IF Proven(e) THEN "up" ELSE "closed"]
  BY DEF HandshakeInv, HearProof
<1>2. Begun' = Begun /\ e \in Begun
  BY <1>1 DEF Begun, TypeOK
<1>3. Vouched' = Vouched
  BY <1>1 DEF Vouched
<1>4. CASE ~Proven(e)
  <2>1. Accepted' = [Accepted EXCEPT ![e] = Nobody]
    BY <1>1, <1>4 DEF Accepted, TypeOK
  <2>2. Auth!Part(e)
    BY <1>2, <1>3, <2>1 DEF Auth!Part
  <2>3. QED  BY <2>2 DEF Auth!Next
<1>5. CASE Proven(e)
  <2>1. stage'[e] = "up" /\ remote[e] # Nobody
    BY <1>1, <1>5 DEF TypeOK, HandshakeInv, StageFits
  <2> DEFINE n == remote[e].key
  <2>2. n \in Nodes
    BY <2>1 DEF HandshakeInv, HelloSettled, Settles
  <2>3. Accepted' = [Accepted EXCEPT ![e] = n]
    BY <1>1, <1>5 DEF Accepted, TypeOK
  <2>4. n \in Carriers \/ \E f \in Ends : NodeOf[f] = n /\ Vouched[f] = <<e, NodeOf[e]>>
    <3>1. CASE n \in Carriers
      BY <3>1
    <3>2. ASSUME NEW f \in Ends, remote'[f] # Nobody,
                 Signature(f)' = Transcript(remote'[e].key, NodeOf[e], e)
          PROVE  NodeOf[f] = n /\ Vouched[f] = <<e, NodeOf[e]>>
      <4>1. NodeOf[f] = n /\ remote[f].key = NodeOf[e] /\ remote[f].challenge = e
        BY <1>1, <3>2 DEF Signature, Transcript
      <4>2. remote[f] # Nobody
        BY <1>1, <3>2
      <4>3. QED  BY <4>1, <4>2 DEF Vouched
    <3>3. QED
      BY <1>1, <2>1, <3>2 DEF HandshakeInv, ProofSeen, Transcript
  <2>5. Auth!Accept(e, n)
    BY <1>2, <1>3, <2>3, <2>4 DEF Auth!Accept
  <2>6. QED  BY <2>2, <2>5 DEF Auth!Next
<1>6. QED  BY <1>4, <1>5

(* The handshake implements Authentication: an end accepts a node only     *)
(* after an end of that node has vouched for this exchange and this        *)
(* partner, for any number of connections run and relayed at once.         *)
THEOREM PeersAreAuthentic == Spec => Authenticated
<1>1. ASSUME HandshakeInv, HandshakeInv', [Next]_vars
      PROVE  [Auth!Next]_<<Begun, Vouched, Accepted>>
  <2>1. CASE UNCHANGED vars
    BY <2>1 DEF vars, Begun, Vouched, Accepted
  <2>2. CASE Next
    <3>1. PICK e \in Ends : HandshakeStep(e) \/ ConnectionStep(e) \/ Break(e)
      BY <2>2 DEF Next
    <3>2. CASE Greet(e)
      BY <1>1, <3>2, AuthGreet
    <3>3. CASE HearHello(e)
      BY <1>1, <3>3, AuthHearHello
    <3>4. CASE HearProof(e)
      BY <1>1, <3>4, AuthHearProof
    <3>5. CASE RefuseHello(e) \/ RefuseProof(e) \/ Hangup(e) \/ Break(e)
                 \/ ReadFrame(e) \/ ReadRest(e) \/ Announce(e)
      BY <1>1, <3>5, AuthQuiet
    <3>6. QED  BY <3>1, <3>2, <3>3, <3>4, <3>5 DEF HandshakeStep, ConnectionStep
  <2>3. QED  BY <1>1, <2>1, <2>2
<1>2. QED
  BY <1>1, AuthInit, HandshakeInvariant, PTL DEF Spec, Authenticated, Auth!Spec
=============================================================================
