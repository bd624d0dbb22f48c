--------------------------- MODULE DeletionProofs ---------------------------
(***************************************************************************)
(* For every network: no copy is removed without its owner's signature,    *)
(* no node's own file is removed by anybody's message, and every deletion  *)
(* record can be verified. Commands run at any time, also while the loop   *)
(* is between checking a deletion and carrying it out: what a user stores  *)
(* under that very name just then is the one exception.                    *)
(***************************************************************************)
EXTENDS Deletion, TLAPS

Message == StoreFile \cup DeleteFile

(* A sequence over a set is one over every larger set. *)
LEMMA SeqMono ==
    ASSUME NEW S, NEW T, S \subseteq T, NEW s \in Seq(S)
    PROVE  s \in Seq(T)
<1>1. Len(s) \in Nat /\ s = [k \in 1 .. Len(s) |-> s[k]]
  OBVIOUS
<1>2. \A k \in 1 .. Len(s) : s[k] \in T
  OBVIOUS
<1> QED
  BY <1>1, <1>2

LEMMA AppendIn ==
    ASSUME NEW T, NEW s \in Seq(T), NEW e \in T
    PROVE  Append(s, e) \in Seq(T)
  OBVIOUS

(* What is sound to send stays so: signatures are never withdrawn. *)
LEMMA SoundMono ==
    ASSUME NEW j \in Nodes, signed \subseteq signed'
    PROVE  SoundFor(j) \subseteq SoundFor(j)'
  BY DEF SoundFor, Signed

LEMMA SoundIsMessage ==
    ASSUME NEW j \in Nodes
    PROVE  SoundFor(j) \subseteq Message
  BY DEF SoundFor, Message

(* Channels stay sound when a step appends only sound messages. *)
LEMMA ChannelsKeep ==
    ASSUME chan' \in [Nodes -> [Nodes -> Seq(Message)]],
           \A p, q \in Nodes : chan'[p][q] \in Seq(SoundFor(q)')
    PROVE  ChannelsSound'
  BY DEF ChannelsSound

(* The next message of a channel is a sound one. *)
LEMMA NextSound ==
    ASSUME TypeOK, ChannelsSound, NEW i \in Nodes, NEW j \in Nodes, Next1(j, i)
    PROVE  /\ Head(chan[j][i]) \in SoundFor(i)
           /\ Head(chan[j][i]) \in Message
           /\ Tail(chan[j][i]) \in Seq(SoundFor(i))
<1>1. chan[j][i] \in Seq(SoundFor(i)) /\ chan[j][i] # <<>>
  BY DEF ChannelsSound, Next1
<1> QED
  BY <1>1, SoundIsMessage

(* Handling a message keeps the channels sound if its answer is sound. *)
LEMMA HandledSound ==
    ASSUME TypeOK, ChannelsSound, NEW i \in Nodes, NEW j \in Nodes, Next1(j, i),
           NEW m, m = None \/ m \in SoundFor(j),
           Handled(j, i, m), signed' = signed
    PROVE  ChannelsSound' /\ chan' \in [Nodes -> [Nodes -> Seq(Message)]]
<1>0. chan \in [Nodes -> [Nodes -> Seq(Message)]]
  BY DEF TypeOK, Message
<1>1. Tail(chan[j][i]) \in Seq(SoundFor(i))
  BY NextSound
<1> DEFINE mid == [chan EXCEPT ![j][i] = Tail(@)]
<1>2. /\ mid \in [Nodes -> [Nodes -> Seq(Message)]]
      /\ \A p, q \in Nodes : mid[p][q] \in Seq(SoundFor(q))
  <2>1. Tail(chan[j][i]) \in Seq(Message)
    BY <1>1, SeqMono, SoundIsMessage
  <2>2. \A p, q \in Nodes :
          mid[p][q] = IF p = j /\ q = i THEN Tail(chan[j][i]) ELSE chan[p][q]
    BY <1>0
  <2>3. mid \in [Nodes -> [Nodes -> Seq(Message)]]
    BY <1>0, <2>1
  <2> QED
    BY <1>1, <2>2, <2>3 DEF ChannelsSound
<1>3. chan' = [mid EXCEPT ![i][j] = IF m = None THEN @ ELSE Append(@, m)]
  BY <1>0 DEF Handled, Next1
<1> HIDE DEF mid
<1>4. ASSUME m # None
      PROVE  Append(mid[i][j], m) \in Seq(SoundFor(j)) /\ Append(mid[i][j], m) \in Seq(Message)
  <2>1. m \in SoundFor(j) /\ mid[i][j] \in Seq(SoundFor(j))
    BY <1>2, <1>4
  <2>2. Append(mid[i][j], m) \in Seq(SoundFor(j))
    BY <2>1
  <2> QED
    BY <2>2, SeqMono, SoundIsMessage
<1>5. chan' \in [Nodes -> [Nodes -> Seq(Message)]]
  BY <1>2, <1>3, <1>4
<1>6. \A p, q \in Nodes :
        chan'[p][q] = IF p = i /\ q = j /\ m # None THEN Append(mid[i][j], m) ELSE mid[p][q]
  BY <1>2, <1>3
<1>7. \A p, q \in Nodes : chan'[p][q] \in Seq(SoundFor(q))
  BY <1>2, <1>4, <1>6
<1>8. \A q \in Nodes : SoundFor(q)' = SoundFor(q)
  BY DEF SoundFor, Signed
<1> QED
  BY <1>5, <1>7, <1>8, ChannelsKeep

(* Sending a sound message keeps the channels sound. *)
LEMMA SendSound ==
    ASSUME TypeOK, ChannelsSound, NEW i \in Nodes, NEW js \in SUBSET Nodes, NEW m,
           signed \subseteq signed', \A q \in js : m \in SoundFor(q)', m \in Message,
           Send(i, js, m)
    PROVE  ChannelsSound' /\ chan' \in [Nodes -> [Nodes -> Seq(Message)]]
<1>0. chan \in [Nodes -> [Nodes -> Seq(Message)]]
  BY DEF TypeOK, Message
<1>1. \A p, q \in Nodes :
        chan'[p][q] = IF p = i /\ q \in js THEN Append(chan[p][q], m) ELSE chan[p][q]
  BY <1>0 DEF Send
<1>2. chan' \in [Nodes -> [Nodes -> Seq(Message)]]
  <2>1. [j \in Nodes |-> IF j \in js THEN Append(chan[i][j], m) ELSE chan[i][j]]
          \in [Nodes -> Seq(Message)]
    BY <1>0
  <2> QED
    BY <1>0, <2>1 DEF Send
<1>3. ASSUME NEW p \in Nodes, NEW q \in Nodes
      PROVE  chan'[p][q] \in Seq(SoundFor(q)')
  <2> DEFINE T == SoundFor(q)'
  <2>1. chan[p][q] \in Seq(T)
    BY SoundMono, SeqMono DEF ChannelsSound
  <2>2. q \in js => m \in T
    OBVIOUS
  <2> HIDE DEF T
  <2>3. q \in js => Append(chan[p][q], m) \in Seq(T)
    BY <2>1, <2>2, AppendIn
  <2>4. chan'[p][q] \in {Append(chan[p][q], m), chan[p][q]}
          /\ ((chan'[p][q] = Append(chan[p][q], m) /\ q \in js) \/ chan'[p][q] = chan[p][q])
    BY <1>1
  <2> QED
    BY <2>1, <2>3, <2>4 DEF T
<1> QED
  BY <1>2, <1>3, ChannelsKeep

(* What forgetting does to the tables, whoever asks for it. *)
LEMMA ForgetType ==
    ASSUME TypeOK, NEW i \in Nodes, NEW n \in FileNames, NEW d \in Digests \cup {None},
           NEW o \in Owners, NEW s \in Signatures \cup {None},
           ForgetRow(i, n, d, o, s)
    PROVE  /\ rows' \in [Nodes -> [FileNames -> Row \cup {None}]]
           /\ tombs' \in [Nodes -> SUBSET Tombstone]
           /\ shares' \in [Nodes -> [FileNames -> SUBSET Nodes]]
<1>1. CASE ~Matches(i, n, d)
  BY <1>1 DEF ForgetRow, TypeOK
<1>2. CASE Matches(i, n, d)
  <2> DEFINE h == rows[i][n].hash
             rec == [name |-> n, digest |-> h, owner |-> o, sig |-> s]
             left == {t \in tombs[i] : t.name # n \/ t.digest # h} \cup {rec}
  <2>1. h \in Digests
    BY <1>2 DEF Matches, TypeOK, Row
  <2>2. rec \in Tombstone
    BY <2>1 DEF Tombstone
  <2>3. left \in SUBSET Tombstone
    BY <2>2 DEF TypeOK
  <2>4. /\ rows' = [rows EXCEPT ![i][n] = None]
        /\ tombs' = [tombs EXCEPT ![i] = left]
        /\ shares' = [shares EXCEPT ![i][n] = {}]
    BY <1>2 DEF ForgetRow
  <2> HIDE DEF left
  <2> QED
    BY <2>3, <2>4 DEF TypeOK
<1> QED
  BY <1>1, <1>2

LEMMA ForgetEffect ==
    ASSUME TypeOK, NEW i \in Nodes, NEW n \in FileNames, NEW d, NEW o, NEW s,
           ForgetRow(i, n, d, o, s)
    PROVE  /\ \A p \in Nodes, q \in FileNames :
                rows'[p][q] = IF p = i /\ q = n /\ Matches(i, n, d) THEN None ELSE rows[p][q]
           /\ \A p \in Nodes : \A t \in tombs'[p] :
                \/ t \in tombs[p]
                \/ /\ p = i /\ Matches(i, n, d)
                   /\ t = [name |-> n, digest |-> rows[i][n].hash, owner |-> o, sig |-> s]
  BY DEF ForgetRow, TypeOK

-----------------------------------------------------------------------------
(* Type correctness. *)
LEMMA TypeStep ==
    ASSUME TypeOK, ChannelsSound, chan' \in [Nodes -> [Nodes -> Seq(Message)]], [Next]_vars
    PROVE  TypeOK'
<1> USE DEF Owners, faults
<1>0. chan' \in [Nodes -> [Nodes -> Seq(StoreFile \cup DeleteFile)]]
  BY DEF Message
<1>1. ASSUME NEW i \in Authors, NEW n \in Names, NEW d \in Digests, Store(i, n, d)
      PROVE  TypeOK'
  <2>1. i \in Nodes /\ n \in FileNames
    BY DeletionAssumption DEF FileNames
  <2>2. Peers(i) \in SUBSET Nodes /\ Cleared(i, n, d) \in SUBSET Tombstone
    BY <2>1 DEF Peers, Cleared, TypeOK
  <2>3. [hash |-> d, owner |-> i] \in Row
    BY <2>1 DEF Row
  <2>4. ops' \in 0 .. MaxOps
    BY <1>1, DeletionAssumption DEF Store, MayOperate, TypeOK
  <2>5. /\ tombs' \in [Nodes -> SUBSET Tombstone]
        /\ rows' \in [Nodes -> [FileNames -> Row \cup {None}]]
    BY <1>1, <2>1, <2>2, <2>3 DEF Store, TypeOK
  <2>6. wanted' \in [Nodes -> [FileNames -> Digests \cup {None}]]
    BY <1>1, <2>1 DEF Store, TypeOK
  <2>7. shares' \in [Nodes -> [FileNames -> SUBSET Nodes]]
    BY <1>1, <2>1, <2>2 DEF Store, TypeOK
  <2>8. UNCHANGED <<links, granted, plan, signed, drops, faults>>
    BY <1>1 DEF Store
  <2>9. overtaken' \subseteq Nodes
    BY <1>1, <2>1 DEF Store, TypeOK
  <2> QED
    BY <1>0, <2>4, <2>5, <2>6, <2>7, <2>8, <2>9 DEF TypeOK
<1>2. ASSUME NEW i \in Deleters, NEW n \in Names, Delete(i, n)
      PROVE  TypeOK'
  <2>1. i \in Nodes /\ n \in FileNames
    BY DeletionAssumption DEF FileNames
  <2> DEFINE d == rows[i][n].hash
             o == rows[i][n].owner
             s == IF o = i THEN <<i, n, d>> ELSE None
  <2>2. d \in Digests /\ o \in Owners
    BY <1>2, <2>1 DEF Delete, TypeOK, Row
  <2>3. s \in Signatures \cup {None}
    BY <2>1, <2>2 DEF Signatures
  <2>4. ForgetRow(i, n, d, o, s) /\ signed' = IF s = None THEN signed ELSE signed \cup {s}
    BY <1>2 DEF Delete
  <2>5. PICK back \in SUBSET (shares[i][n] \ {i}) : links' = links \cup {{i, j} : j \in back}
    BY <1>2 DEF Delete
  <2> HIDE DEF d, o, s
  <2>6. /\ rows' \in [Nodes -> [FileNames -> Row \cup {None}]]
        /\ tombs' \in [Nodes -> SUBSET Tombstone]
        /\ shares' \in [Nodes -> [FileNames -> SUBSET Nodes]]
    BY <2>1, <2>2, <2>3, <2>4, ForgetType
  <2>7. back \subseteq Nodes
    BY <2>1 DEF TypeOK
  <2>8. links' \subseteq SUBSET Nodes
    <3>1. \A j \in back : {i, j} \in SUBSET Nodes
      BY <2>1, <2>7
    <3>2. links \subseteq SUBSET Nodes
      BY DEF TypeOK
    <3>3. \A l \in links' : l \in links \/ \E j \in back : l = {i, j}
      BY <2>5
    <3>4. \A l \in links' : l \in SUBSET Nodes
      <4>1. TAKE l \in links'
      <4>2. CASE l \in links
        BY <3>2, <4>2
      <4>3. CASE \E j \in back : l = {i, j}
        BY <3>1, <4>3
      <4> QED
        BY <3>3, <4>2, <4>3
    <3> QED
      BY <3>4
  <2>9. ops' \in 0 .. MaxOps
    BY <1>2, DeletionAssumption DEF Delete, MayOperate, TypeOK
  <2>10. signed' \subseteq Signatures
    BY <2>3, <2>4 DEF TypeOK
  <2>11. wanted' \in [Nodes -> [FileNames -> Digests \cup {None}]]
    BY <1>2, <2>1 DEF Delete, TypeOK
  <2>12. UNCHANGED <<granted, plan, overtaken, drops, faults>>
    BY <1>2 DEF Delete
  <2> QED
    BY <1>0, <2>6, <2>8, <2>9, <2>10, <2>11, <2>12 DEF TypeOK
<1>3. ASSUME NEW i \in Nodes, NEW n \in Names, DeleteUnknown(i, n)
      PROVE  TypeOK'
  <2>1. ops' \in 0 .. MaxOps
    BY <1>3, DeletionAssumption DEF DeleteUnknown, MayOperate, TypeOK
  <2> QED
    BY <1>0, <1>3, <2>1 DEF DeleteUnknown, TypeOK
<1>4. ASSUME NEW i \in Nodes, NEW j \in Nodes, NEW n \in Names, Get(i, j, n)
      PROVE  TypeOK'
  <2>1. ops' \in 0 .. MaxOps
    BY <1>4, DeletionAssumption DEF Get, MayOperate, TypeOK
  <2> QED
    BY <1>0, <1>4, <2>1 DEF Get, TypeOK
<1>5. ASSUME NEW i \in Nodes, NEW j \in Nodes, RefuseCopy(i, j)
      PROVE  TypeOK'
  <2>1. fails' \in 0 .. MaxFails
    BY <1>5, DeletionAssumption DEF RefuseCopy, LookFails, TypeOK
  <2> QED
    BY <1>0, <1>5, <2>1 DEF RefuseCopy, TypeOK
<1>6. ASSUME NEW i \in Nodes, NEW j \in Nodes, KeepCopy(i, j)
      PROVE  TypeOK'
  <2> DEFINE m == Head(chan[j][i])
  <2>1. Next1(j, i) /\ m.type = "store"
    BY <1>6 DEF KeepCopy
  <2>2. m \in StoreFile
    BY <2>1, NextSound DEF Message, StoreFile, DeleteFile
  <2>3. FiledUnder(i, m) \in FileNames /\ [hash |-> m.digest, owner |-> m.owner] \in Row
    BY <2>2 DEF FiledUnder, StoreFile, FileNames, Row
  <2>4. rows' = [rows EXCEPT ![i][FiledUnder(i, m)] = [hash |-> m.digest, owner |-> m.owner]]
    BY <1>6 DEF KeepCopy
  <2>5. UNCHANGED <<tombs, shares, links, granted, plan, signed, wanted, overtaken, ops, drops>>
    BY <1>6 DEF KeepCopy
  <2>7. fails' \in 0 .. MaxFails
    BY <1>6, DeletionAssumption DEF KeepCopy, LookFails, TypeOK
  <2>8. m.name \in FileNames /\ m.digest \in Digests
    BY <2>2 DEF StoreFile
  <2>9. overlooked' \subseteq FileNames \X Digests
    BY <1>6, <2>8 DEF KeepCopy, TypeOK
  <2> HIDE DEF m
  <2>6. rows' \in [Nodes -> [FileNames -> Row \cup {None}]]
    BY <2>3, <2>4 DEF TypeOK
  <2> QED
    BY <1>0, <2>5, <2>6, <2>7, <2>9 DEF TypeOK
<1>7. ASSUME NEW i \in Nodes, NEW j \in Nodes, Authorize(i, j)
      PROVE  TypeOK'
  <2> DEFINE m == Head(chan[j][i])
  <2>1. Next1(j, i) /\ m.type = "delete"
    BY <1>7 DEF Authorize
  <2>2. m \in DeleteFile
    BY <2>1, NextSound DEF Message, StoreFile, DeleteFile
  <2>3. granted' \in [Nodes -> DeleteFile \cup {None}]
    BY <1>7, <2>2 DEF Authorize, TypeOK
  <2> QED
    BY <1>0, <1>7, <2>3 DEF Authorize, TypeOK
<1>8. ASSUME NEW i \in Nodes, Forget(i)
      PROVE  TypeOK'
  <2> DEFINE g == granted[i]
  <2>1. g \in DeleteFile
    BY <1>8 DEF Forget, TypeOK
  <2>2. ForgetRow(i, g.name, g.digest, g.owner, g.sig)
    BY <1>8 DEF Forget
  <2>3. g.name \in FileNames /\ g.digest \in Digests \cup {None} /\ g.owner \in Owners
          /\ g.sig \in Signatures \cup {None}
    BY <2>1 DEF DeleteFile
  <2> HIDE DEF g
  <2>4. /\ rows' \in [Nodes -> [FileNames -> Row \cup {None}]]
        /\ tombs' \in [Nodes -> SUBSET Tombstone]
        /\ shares' \in [Nodes -> [FileNames -> SUBSET Nodes]]
    BY <2>2, <2>3, ForgetType
  <2> QED
    BY <1>0, <1>8, <2>4 DEF Forget, TypeOK
<1>9. ASSUME NEW i \in Nodes, PushCopies(i)
      PROVE  TypeOK'
  <2>1. plan[i] \in Pushes
    BY <1>9 DEF PushCopies, TypeOK
  <2>2. plan[i].name \in FileNames
    BY <2>1 DEF Pushes
  <2>3. Peers(i) \subseteq Nodes
    BY DEF Peers
  <2> QED
    BY <1>0, <1>9, <2>2, <2>3 DEF PushCopies, TypeOK
<1>10. ASSUME NEW i \in Nodes, NEW n \in FileNames, CheckFile(i, n)
      PROVE  TypeOK'
  <2>1. rows[i][n].hash \in Digests
    BY <1>10 DEF CheckFile, TypeOK, Row
  <2>2. Answering(i) \subseteq Nodes
    BY DEF Answering, Peers
  <2>3. \A to \in SUBSET Answering(i) :
          [name |-> n, digest |-> rows[i][n].hash, to |-> to] \in Pushes
    BY <2>1, <2>2 DEF Pushes
  <2>4. plan' \in [Nodes -> Pushes \cup {None}]
    BY <1>10, <2>3 DEF CheckFile, TypeOK
  <2> QED
    BY <1>0, <1>10, <2>4 DEF CheckFile, TypeOK
<1>11. ASSUME NEW i \in Nodes, NEW j \in Nodes, Disconnect(i, j) \/ Connect(i, j)
      PROVE  TypeOK'
  <2>1. drops' \in 0 .. MaxDrops
    BY <1>11, DeletionAssumption DEF Disconnect, Connect, TypeOK
  <2> QED
    BY <1>0, <1>11, <2>1 DEF Disconnect, Connect, TypeOK
<1>12. CASE UNCHANGED vars
  BY <1>12 DEF vars, TypeOK
<1> QED
  BY <1>1, <1>2, <1>3, <1>4, <1>5, <1>6, <1>7, <1>8, <1>9, <1>10, <1>11, <1>12,
     DeletionAssumption DEF Next, UserStep, LoopStep, Handle, RepairStep

-----------------------------------------------------------------------------
(* The channels: each message sent is a sound one. *)
LEMMA ChannelStep ==
    ASSUME DeletionInv, [Next]_vars
    PROVE  ChannelsSound' /\ chan' \in [Nodes -> [Nodes -> Seq(Message)]]
<1>0. TypeOK /\ ChannelsSound /\ RecordsSigned
  BY DEF DeletionInv
<1>u. ASSUME UNCHANGED <<chan, signed>>
      PROVE  ChannelsSound' /\ chan' \in [Nodes -> [Nodes -> Seq(Message)]]
  BY <1>0, <1>u DEF ChannelsSound, SoundFor, Signed, TypeOK, Message
<1>1. ASSUME NEW i \in Authors, NEW n \in Names, NEW d \in Digests, Store(i, n, d)
      PROVE  ChannelsSound' /\ chan' \in [Nodes -> [Nodes -> Seq(Message)]]
  <2>1. i \in Nodes /\ n \in FileNames
    BY DeletionAssumption DEF FileNames
  <2>2. StoreMsg(n, d, i) \in StoreFile
    BY <2>1 DEF StoreMsg, StoreFile, Owners
  <2>3. Peers(i) \in SUBSET Nodes /\ \A q \in Peers(i) : q # i
    BY DEF Peers
  <2>4. \A q \in Peers(i) : StoreMsg(n, d, i) \in SoundFor(q)'
    BY <2>2, <2>3 DEF SoundFor, StoreMsg
  <2>5. Send(i, Peers(i), StoreMsg(n, d, i)) /\ signed' = signed
    BY <1>1 DEF Store
  <2> QED
    BY <1>0, <2>1, <2>2, <2>3, <2>4, <2>5, SendSound DEF Message
<1>2. ASSUME NEW i \in Deleters, NEW n \in Names, Delete(i, n)
      PROVE  ChannelsSound' /\ chan' \in [Nodes -> [Nodes -> Seq(Message)]]
  <2>1. i \in Nodes /\ n \in FileNames
    BY DeletionAssumption DEF FileNames
  <2> DEFINE d == rows[i][n].hash
             o == rows[i][n].owner
             s == IF o = i THEN <<i, n, d>> ELSE None
  <2>2. d \in Digests /\ o \in {i, None}
    BY <1>0, <1>2, <2>1 DEF Delete, TypeOK, Row, MayDelete
  <2>3. s \in Signatures \cup {None}
    BY <2>1, <2>2 DEF Signatures
  <2>4. signed' = IF s = None THEN signed ELSE signed \cup {s}
    BY <1>2 DEF Delete
  <2>5. PICK back \in SUBSET (shares[i][n] \ {i}) :
          Send(i, Peers(i) \cup back, DeleteMsg(n, d, o, s))
    BY <1>2 DEF Delete
  <2>6. o = i => s = <<i, n, d>> /\ s # None
    <3>1. <<i, n, d>> \in Signatures
      BY <2>1, <2>2 DEF Signatures
    <3> QED
      BY <3>1, DeletionAssumption
  <2> HIDE DEF d, o, s
  <2>7. DeleteMsg(n, d, o, s) \in DeleteFile
    BY <2>1, <2>2, <2>3 DEF DeleteMsg, DeleteFile, Owners
  <2>8. \A q \in Nodes : DeleteMsg(n, d, o, s) \in SoundFor(q)'
    BY <2>2, <2>4, <2>6, <2>7 DEF SoundFor, Signed, DeleteMsg
  <2>9. Peers(i) \cup back \in SUBSET Nodes
    BY <1>0, <2>1 DEF Peers, TypeOK
  <2> QED
    BY <1>0, <2>1, <2>4, <2>5, <2>7, <2>8, <2>9, SendSound DEF Message
<1>3. ASSUME NEW i \in Nodes, NEW n \in Names, DeleteUnknown(i, n)
      PROVE  ChannelsSound' /\ chan' \in [Nodes -> [Nodes -> Seq(Message)]]
  <2> DEFINE m == DeleteMsg(n, None, None, None)
  <2>1. m \in DeleteFile
    BY DEF DeleteMsg, DeleteFile, Owners, FileNames
  <2>2. \A q \in Nodes : m \in SoundFor(q)'
    BY <2>1 DEF SoundFor, Signed, DeleteMsg
  <2>3. Peers(i) \in SUBSET Nodes
    BY DEF Peers
  <2>4. Send(i, Peers(i), m) /\ signed' = signed
    BY <1>3 DEF DeleteUnknown
  <2> HIDE DEF m
  <2> QED
    BY <1>0, <2>1, <2>2, <2>3, <2>4, SendSound DEF Message
<1>4. ASSUME NEW i \in Nodes, NEW j \in Nodes, NEW n \in Names, Get(i, j, n)
      PROVE  ChannelsSound' /\ chan' \in [Nodes -> [Nodes -> Seq(Message)]]
  <2> DEFINE m == StoreMsg(n, Offer(j, n), None)
  <2>1. Offer(j, n) \in Digests
    <3>1. Offer(j, n) # None /\ n \in FileNames
      BY <1>4 DEF Get, FileNames
    <3>2. CASE rows[j][n] # None
      BY <1>0, <3>1, <3>2 DEF Offer, TypeOK, Row
    <3>3. CASE rows[j][n] = None
      <4>1. PICK q \in FileNames : Holds(j, q, n)
        BY <3>1, <3>3 DEF Offer
      <4>2. n \in Digests
        BY <1>0, <4>1 DEF Holds, TypeOK, Row
      <4> QED
        BY <3>1, <3>3, <4>1, <4>2 DEF Offer
    <3> QED
      BY <3>2, <3>3
  <2>2. m \in StoreFile
    BY <2>1 DEF StoreMsg, StoreFile, Owners, FileNames
  <2>3. \A q \in Nodes : m \in SoundFor(q)'
    BY <2>2, DeletionAssumption DEF SoundFor, StoreMsg
  <2>4. Send(j, {i}, m) /\ signed' = signed
    BY <1>4 DEF Get
  <2> HIDE DEF m
  <2> DEFINE js == {i}
  <2>5. js \in SUBSET Nodes /\ Send(j, js, m) /\ m \in Message
    BY <2>2, <2>4 DEF Message
  <2>6. \A q \in js : m \in SoundFor(q)'
    BY <2>3, <2>5
  <2> HIDE DEF js
  <2> QED
    BY <1>0, <2>4, <2>5, <2>6, SendSound
<1>5. ASSUME NEW i \in Nodes, NEW j \in Nodes, RefuseCopy(i, j)
      PROVE  ChannelsSound' /\ chan' \in [Nodes -> [Nodes -> Seq(Message)]]
  <2>1. PICK t \in tombs[i] :
          /\ t.name = Head(chan[j][i]).name /\ t.digest = Head(chan[j][i]).digest
          /\ \/ Handled(j, i, DeleteMsg(t.name, t.digest, t.owner, t.sig))
             \/ Handled(j, i, DeleteMsg(t.name, t.digest, None, None))
    BY <1>5 DEF RefuseCopy
  <2> DEFINE m == DeleteMsg(t.name, t.digest, t.owner, t.sig)
             bare == DeleteMsg(t.name, t.digest, None, None)
  <2>2. t \in Tombstone /\ Signed(t)
    BY <1>0 DEF TypeOK, RecordsSigned
  <2>3. m \in DeleteFile /\ bare \in DeleteFile
    BY <2>2 DEF DeleteMsg, DeleteFile, Tombstone, Owners
  <2>4. m \in SoundFor(j) /\ bare \in SoundFor(j)
    BY <2>2, <2>3 DEF SoundFor, Signed, DeleteMsg
  <2>5. (Handled(j, i, m) \/ Handled(j, i, bare)) /\ Next1(j, i) /\ signed' = signed
    BY <1>5, <2>1 DEF RefuseCopy
  <2> HIDE DEF m, bare
  <2> QED
    BY <1>0, <2>4, <2>5, HandledSound
<1>6. ASSUME NEW i \in Nodes, NEW j \in Nodes, KeepCopy(i, j) \/ Authorize(i, j)
      PROVE  ChannelsSound' /\ chan' \in [Nodes -> [Nodes -> Seq(Message)]]
  <2>1. Handled(j, i, None) /\ Next1(j, i) /\ signed' = signed
    BY <1>6 DEF KeepCopy, Authorize
  <2> QED
    BY <1>0, <2>1, HandledSound
<1>7. ASSUME NEW i \in Nodes, PushCopies(i)
      PROVE  ChannelsSound' /\ chan' \in [Nodes -> [Nodes -> Seq(Message)]]
  <2> DEFINE m == StoreMsg(plan[i].name, plan[i].digest, None)
             to == plan[i].to \cap Peers(i)
  <2>1. plan[i] \in Pushes
    BY <1>0, <1>7 DEF PushCopies, TypeOK
  <2>2. m \in StoreFile
    BY <2>1 DEF StoreMsg, StoreFile, Owners, Pushes
  <2>3. \A q \in Nodes : m \in SoundFor(q)'
    BY <2>2, DeletionAssumption DEF SoundFor, StoreMsg
  <2>4. Send(i, to, m) /\ signed' = signed
    BY <1>7 DEF PushCopies
  <2>5. to \in SUBSET Nodes
    BY DEF Peers
  <2> HIDE DEF m, to
  <2> QED
    BY <1>0, <2>2, <2>3, <2>4, <2>5, SendSound DEF Message
<1>8. ASSUME NEW i \in Nodes, NEW j \in Nodes, Disconnect(i, j)
      PROVE  ChannelsSound' /\ chan' \in [Nodes -> [Nodes -> Seq(Message)]]
  <2>1. /\ chan \in [Nodes -> [Nodes -> Seq(Message)]]
        /\ chan' = [chan EXCEPT ![i][j] = <<>>, ![j][i] = <<>>]
        /\ <<>> \in Seq(Message)
    BY <1>0, <1>8 DEF Disconnect, TypeOK, Message
  <2>4. chan' \in [Nodes -> [Nodes -> Seq(Message)]]
    BY <2>1
  <2>5. \A p, q \in Nodes : chan'[p][q] = chan[p][q] \/ chan'[p][q] = <<>>
    BY <2>1
  <2>2. \A q \in Nodes : SoundFor(q)' = SoundFor(q)
    BY <1>8 DEF Disconnect, SoundFor, Signed
  <2>3. \A p, q \in Nodes : chan'[p][q] \in Seq(SoundFor(q))
    <3>1. \A p, q \in Nodes : chan[p][q] \in Seq(SoundFor(q)) /\ <<>> \in Seq(SoundFor(q))
      BY <1>0 DEF ChannelsSound
    <3> QED
      BY <2>5, <3>1
  <2> QED
    BY <2>2, <2>3, <2>4, ChannelsKeep
<1>9. ASSUME NEW i \in Nodes, Forget(i) \/ \E n \in FileNames : CheckFile(i, n)
      PROVE  UNCHANGED <<chan, signed>>
  BY <1>9 DEF Forget, CheckFile
<1>10. ASSUME NEW i \in Nodes, NEW j \in Nodes, Connect(i, j)
      PROVE  UNCHANGED <<chan, signed>>
  BY <1>10 DEF Connect
<1>11. CASE UNCHANGED vars
  BY <1>11, <1>u DEF vars
<1> QED
  BY <1>u, <1>1, <1>2, <1>3, <1>4, <1>5, <1>6, <1>7, <1>8, <1>9, <1>10, <1>11,
     DeletionAssumption DEF Next, UserStep, LoopStep, Handle, RepairStep

-----------------------------------------------------------------------------
(* The inductive invariant. *)
LEMMA InvInit == Init => DeletionInv
<1> SUFFICES ASSUME Init PROVE DeletionInv
  OBVIOUS
<1> USE DEF Init
<1>1. TypeOK
  <2>1. {l \in SUBSET Nodes : Cardinality(l) = 2} \subseteq SUBSET Nodes
    OBVIOUS
  <2> HIDE DEF Init
  <2>2. links \subseteq SUBSET Nodes
    BY <2>1 DEF Init
  <2>3. ops \in 0 .. MaxOps /\ drops \in 0 .. MaxDrops /\ fails \in 0 .. MaxFails
    BY DeletionAssumption DEF Init
  <2> QED
    BY <2>2, <2>3 DEF TypeOK, Init
<1>2. ChannelsSound
  BY DEF ChannelsSound
<1>3. RecordsSigned /\ GrantStands /\ OwnFilesLive
  BY DEF RecordsSigned, GrantStands, StandsAt, OwnFilesLive
<1> QED
  BY <1>1, <1>2, <1>3 DEF DeletionInv

(* An authorised deletion that finds its row carries the signature of the  *)
(* row's owner, and is not about a live file of the node's own - unless    *)
(* the user has stored that file since.                                    *)
LEMMA GrantMeaning ==
    ASSUME DeletionInv, NEW i \in Nodes, granted[i] # None,
           Matches(i, granted[i].name, granted[i].digest)
    PROVE  LET f == rows[i][granted[i].name] IN
           /\ f.owner # None /\ ~(f.owner = i /\ i \in overtaken) =>
                /\ f.owner = granted[i].owner
                /\ granted[i].sig = <<f.owner, granted[i].name, f.hash>>
                /\ granted[i].sig \in signed
                /\ f.owner # i
           /\ granted[i].owner # None =>
                granted[i].sig = <<granted[i].owner, granted[i].name, f.hash>>
<1> DEFINE g == granted[i]
           f == rows[i][g.name]
<1> DEFINE own == f.owner = i /\ i \in overtaken
<1>1. g \in DeleteFile /\ Signed(g) /\ (Authorised(i, g) \/ own)
  BY DEF DeletionInv, TypeOK, GrantStands, StandsAt, RecordsSigned
<1>2. g.name \in FileNames /\ g.owner \in Owners /\ g.digest \in Digests \cup {None}
  BY <1>1 DEF DeleteFile
<1>3. f \in Row /\ f # None /\ g.digest \in {None, f.hash}
  BY <1>2 DEF DeletionInv, TypeOK, Matches
<1>4. f.hash \in Digests /\ f.owner \in Owners
  BY <1>3 DEF Row
<1>5. \/ own
      \/ f.owner = None
      \/ /\ g.owner = f.owner
         /\ g.sig = <<g.owner, g.name, f.hash>>
         /\ f.owner = i => IsDeleted(i, g.name, f.hash)
  BY <1>1, <1>3 DEF Authorised
<1>6. f.owner = i => ~IsDeleted(i, g.name, f.hash)
  BY <1>2, <1>3 DEF DeletionInv, OwnFilesLive
<1>7. f.owner # None /\ ~own => g.sig \in signed
  <2> SUFFICES ASSUME f.owner # None, ~own PROVE g.sig \in signed
    OBVIOUS
  <2>1. g.sig = <<f.owner, g.name, f.hash>> /\ f.owner \in Nodes
    BY <1>4, <1>5 DEF Owners
  <2>2. g.sig \in Signatures
    BY <1>2, <1>4, <2>1 DEF Signatures
  <2>3. g.sig # None
    BY <2>2, DeletionAssumption
  <2> QED
    BY <1>1, <2>3 DEF Signed
<1>8. g.owner # None => g.sig = <<g.owner, g.name, f.hash>>
  <2> SUFFICES ASSUME g.owner # None PROVE g.sig = <<g.owner, g.name, f.hash>>
    OBVIOUS
  <2>1. g.sig = <<g.owner, g.name, g.digest>> /\ g.sig # None
    BY <1>1 DEF Signed
  <2>2. g.sig \in Signatures
    BY <1>1, <2>1 DEF DeleteFile
  <2>3. g.digest \in Digests
    BY <2>1, <2>2 DEF Signatures
  <2>4. g.digest # None
    BY <2>3, DeletionAssumption DEF FileNames
  <2> QED
    BY <1>3, <2>1, <2>4
<1> QED
  BY <1>3, <1>5, <1>6, <1>7, <1>8

(* What a user's delete writes is signed, or about a file without owner.   *)
LEMMA DeleteSigns ==
    ASSUME TypeOK, NEW i \in Nodes, NEW n \in FileNames, Delete(i, n)
    PROVE  \E o \in {i, None}, s \in Signatures \cup {None} :
             /\ o = rows[i][n].owner
             /\ o = i => s = <<i, n, rows[i][n].hash>> /\ s # None /\ s \in signed'
             /\ o = None => s = None
             /\ ForgetRow(i, n, rows[i][n].hash, o, s)
             /\ signed \subseteq signed'
<1> DEFINE d == rows[i][n].hash
           o == rows[i][n].owner
           s == IF o = i THEN <<i, n, d>> ELSE None
<1>1. d \in Digests /\ o \in {i, None}
  BY DEF Delete, TypeOK, Row, MayDelete
<1>2. <<i, n, d>> \in Signatures
  BY <1>1 DEF Signatures
<1>3. <<i, n, d>> # None /\ i # None
  BY <1>2, DeletionAssumption
<1>4. s \in Signatures \cup {None}
  BY <1>2
<1>5. ForgetRow(i, n, d, o, s) /\ signed' = IF s = None THEN signed ELSE signed \cup {s}
  BY DEF Delete
<1>6. /\ o = i => s = <<i, n, d>> /\ s # None /\ s \in signed'
      /\ o = None => s = None
      /\ signed \subseteq signed'
  BY <1>3, <1>5
<1> HIDE DEF s
<1> QED
  BY <1>1, <1>4, <1>5, <1>6

(* Records: whoever names an owner in one has the owner's signature. *)
LEMMA RecordsStep ==
    ASSUME DeletionInv, [Next]_vars
    PROVE  RecordsSigned' /\ signed \subseteq signed'
<1>0. TypeOK /\ ChannelsSound /\ RecordsSigned
  BY DEF DeletionInv
<1>u. ASSUME UNCHANGED <<tombs, granted, signed>>
      PROVE  RecordsSigned' /\ signed \subseteq signed'
  BY <1>0, <1>u DEF RecordsSigned, Signed
<1>1. ASSUME NEW i \in Authors, NEW n \in Names, NEW d \in Digests, Store(i, n, d)
      PROVE  RecordsSigned' /\ signed \subseteq signed'
  <2>1. \A p \in Nodes : tombs'[p] \subseteq tombs[p]
    BY <1>0, <1>1, DeletionAssumption DEF Store, Cleared, TypeOK
  <2>2. UNCHANGED <<granted, signed>>
    BY <1>1 DEF Store
  <2> QED
    BY <1>0, <2>1, <2>2 DEF RecordsSigned, Signed
<1>2. ASSUME NEW i \in Deleters, NEW n \in Names, Delete(i, n)
      PROVE  RecordsSigned' /\ signed \subseteq signed'
  <2>1. i \in Nodes /\ n \in FileNames
    BY DeletionAssumption DEF FileNames
  <2>2. PICK o \in {i, None}, s \in Signatures \cup {None} :
          /\ o = rows[i][n].owner
          /\ o = i => s = <<i, n, rows[i][n].hash>> /\ s # None /\ s \in signed'
          /\ o = None => s = None
          /\ ForgetRow(i, n, rows[i][n].hash, o, s)
          /\ signed \subseteq signed'
    BY <1>0, <1>2, <2>1, DeleteSigns
  <2>3. \A p \in Nodes : \A t \in tombs'[p] :
          t \in tombs[p] \/ t = [name |-> n, digest |-> rows[i][n].hash, owner |-> o, sig |-> s]
    BY <1>0, <2>1, <2>2, ForgetEffect
  <2>4. granted' = granted
    BY <1>2 DEF Delete
  <2> QED
    BY <1>0, <2>2, <2>3, <2>4 DEF RecordsSigned, Signed
<1>3. ASSUME NEW i \in Nodes, NEW j \in Nodes, Authorize(i, j)
      PROVE  RecordsSigned' /\ signed \subseteq signed'
  <2> DEFINE m == Head(chan[j][i])
  <2>1. m \in SoundFor(i) /\ m.type = "delete"
    BY <1>0, <1>3, NextSound DEF Authorize
  <2>2. Signed(m)
    BY <2>1 DEF SoundFor
  <2>3. granted' = [granted EXCEPT ![i] = IF Authorised(i, m) THEN m ELSE None]
    BY <1>3 DEF Authorize
  <2>4. UNCHANGED <<tombs, signed>>
    BY <1>3 DEF Authorize
  <2> HIDE DEF m
  <2>5. \A p \in Nodes : granted'[p] # None => granted'[p] = granted[p] \/ granted'[p] = m
    BY <1>0, <2>3 DEF TypeOK
  <2> QED
    BY <1>0, <2>2, <2>4, <2>5 DEF RecordsSigned, Signed
<1>4. ASSUME NEW i \in Nodes, Forget(i)
      PROVE  RecordsSigned' /\ signed \subseteq signed'
  <2> DEFINE g == granted[i]
             f == rows[i][g.name]
  <2>1. g \in DeleteFile /\ g # None /\ ForgetRow(i, g.name, g.digest, g.owner, g.sig)
    BY <1>0, <1>4 DEF Forget, TypeOK
  <2>2. g.name \in FileNames
    BY <2>1 DEF DeleteFile
  <2>3. signed' = signed /\ \A p \in Nodes : granted'[p] # None => granted'[p] = granted[p]
    BY <1>0, <1>4 DEF Forget, TypeOK
  <2>4. \A p \in Nodes : \A t \in tombs'[p] :
          \/ t \in tombs[p]
          \/ /\ Matches(i, g.name, g.digest)
             /\ t = [name |-> g.name, digest |-> f.hash, owner |-> g.owner, sig |-> g.sig]
    BY <1>0, <2>1, <2>2, ForgetEffect
  <2>5. Matches(i, g.name, g.digest) =>
          (g.owner # None => g.sig = <<g.owner, g.name, f.hash>>)
    BY <2>1, GrantMeaning
  <2>6. Signed(g)
    BY <1>0, <2>1 DEF RecordsSigned
  <2> HIDE DEF g, f
  <2>7. \A p \in Nodes : \A t \in tombs'[p] : Signed(t)
    BY <1>0, <2>4, <2>5, <2>6 DEF RecordsSigned, Signed
  <2>8. \A p \in Nodes : \A t \in tombs'[p] : Signed(t)'
    BY <2>3, <2>7 DEF Signed
  <2>9. \A p \in Nodes : granted'[p] # None => Signed(granted[p])' /\ granted'[p] = granted[p]
    BY <1>0, <2>3 DEF RecordsSigned, Signed
  <2> QED
    BY <2>3, <2>8, <2>9 DEF RecordsSigned, Signed
<1>5. CASE UNCHANGED vars
  BY <1>5, <1>u DEF vars
<1>6. ASSUME NEW i \in Nodes, PushCopies(i)
      PROVE  UNCHANGED <<tombs, granted, signed>>
  BY <1>6 DEF PushCopies
<1>7. ASSUME NEW i \in Nodes, NEW j \in Nodes,
             RefuseCopy(i, j) \/ KeepCopy(i, j) \/ Disconnect(i, j) \/ Connect(i, j)
      PROVE  UNCHANGED <<tombs, granted, signed>>
  BY <1>7 DEF RefuseCopy, KeepCopy, Disconnect, Connect
<1>8. ASSUME NEW i \in Nodes, NEW n \in FileNames, DeleteUnknown(i, n) \/ CheckFile(i, n)
      PROVE  UNCHANGED <<tombs, granted, signed>>
  BY <1>8 DEF DeleteUnknown, CheckFile
<1>9. ASSUME NEW i \in Nodes, NEW j \in Nodes, NEW n \in Names, Get(i, j, n)
      PROVE  UNCHANGED <<tombs, granted, signed>>
  BY <1>9 DEF Get
<1> QED
  BY <1>u, <1>1, <1>2, <1>3, <1>4, <1>5, <1>6, <1>7, <1>8, <1>9,
     DeletionAssumption DEF Next, UserStep, LoopStep, Handle, RepairStep, FileNames

(* What the loop has authorised stays authorised until it is carried out:  *)
(* the loop handles nothing else, a deletion by the user leaves nothing to *)
(* delete, and a store under another name does not matter.                 *)
LEMMA GrantStep ==
    ASSUME DeletionInv, [Next]_vars
    PROVE  GrantStands'
<1>0. TypeOK /\ GrantStands
  BY DEF DeletionInv
<1>a. ASSUME NEW i \in Nodes, rows'[i] = rows[i], tombs'[i] = tombs[i],
             granted'[i] = granted[i], i \in overtaken' <=> i \in overtaken
      PROVE  StandsAt(i)'
  BY <1>0, <1>a DEF GrantStands, StandsAt, Authorised, IsDeleted
<1>u. ASSUME UNCHANGED <<rows, tombs, granted, overtaken>>
      PROVE  GrantStands'
  BY <1>a, <1>u DEF GrantStands
<1>n. ASSUME NEW i \in Nodes, StandsAt(i)',
             \A p \in Nodes \ {i} :
               /\ rows'[p] = rows[p] /\ tombs'[p] = tombs[p] /\ granted'[p] = granted[p]
               /\ p \in overtaken' <=> p \in overtaken
      PROVE  GrantStands'
  BY <1>a, <1>n DEF GrantStands
<1>1. ASSUME NEW i \in Authors, NEW n \in Names, NEW d \in Digests, Store(i, n, d)
      PROVE  GrantStands'
  <2>1. i \in Nodes /\ n \in FileNames /\ granted' = granted
    BY <1>1, DeletionAssumption DEF Store, FileNames
  <2>2. \A p \in Nodes \ {i} :
          /\ rows'[p] = rows[p] /\ tombs'[p] = tombs[p]
          /\ p \in overtaken' <=> p \in overtaken
    BY <1>0, <1>1 DEF Store, TypeOK
  <2>3. rows'[i] = [rows[i] EXCEPT ![n] = [hash |-> d, owner |-> i]]
    BY <1>0, <1>1, <2>1 DEF Store, TypeOK
  <2>4. ASSUME granted[i] = None
        PROVE  StandsAt(i)'
    BY <1>0, <1>1, <2>1, <2>4 DEF Store, GrantStands, StandsAt
  <2>5. ASSUME granted[i] # None /\ granted[i].name = n
        PROVE  StandsAt(i)'
    <3>1. i \in overtaken'
      BY <1>1, <2>5 DEF Store
    <3>2. rows'[i][n].owner = i
      BY <1>0, <2>1, <2>3 DEF TypeOK
    <3> QED
      BY <2>1, <2>5, <3>1, <3>2 DEF StandsAt
  <2>6. ASSUME granted[i] # None /\ granted[i].name # n
        PROVE  StandsAt(i)'
    <3> DEFINE k == granted[i].name
    <3>1. granted[i] \in DeleteFile
      BY <1>0, <2>1, <2>6 DEF TypeOK
    <3>2. k \in FileNames
      BY <3>1 DEF DeleteFile
    <3>3. rows'[i][k] = rows[i][k] /\ overtaken' = overtaken
      BY <1>0, <1>1, <2>1, <2>3, <2>6, <3>2 DEF Store, TypeOK
    <3>4. \A h : IsDeleted(i, k, h)' <=> IsDeleted(i, k, h)
      BY <1>0, <1>1, <2>1, <2>6 DEF Store, Cleared, IsDeleted, TypeOK
    <3> QED
      BY <1>0, <2>1, <2>6, <3>3, <3>4 DEF GrantStands, StandsAt, Authorised
  <2> QED
    BY <1>n, <2>1, <2>2, <2>4, <2>5, <2>6
<1>2. ASSUME NEW i \in Deleters, NEW n \in Names, Delete(i, n)
      PROVE  GrantStands'
  <2>1. i \in Nodes /\ n \in FileNames /\ UNCHANGED <<granted, overtaken>>
    BY <1>2, DeletionAssumption DEF Delete, FileNames
  <2>2. \A p \in Nodes \ {i} : rows'[p] = rows[p] /\ tombs'[p] = tombs[p]
    BY <1>0, <1>2 DEF Delete, ForgetRow, TypeOK
  <2>3. ForgetRow(i, n, rows[i][n].hash, rows[i][n].owner,
                  IF rows[i][n].owner = i THEN <<i, n, rows[i][n].hash>> ELSE None)
    BY <1>2 DEF Delete
  <2>4. rows[i][n] # None
    BY <1>2 DEF Delete
  <2>5. rows'[i] = [rows[i] EXCEPT ![n] = None]
    BY <1>0, <2>1, <2>3, <2>4 DEF ForgetRow, Matches, TypeOK
  <2>6. ASSUME granted[i] = None
        PROVE  StandsAt(i)'
    BY <1>0, <2>1, <2>6 DEF GrantStands, StandsAt
  <2>7. ASSUME granted[i] # None /\ granted[i].name = n
        PROVE  StandsAt(i)'
    <3>1. rows'[i][n] = None
      BY <1>0, <2>1, <2>5 DEF TypeOK
    <3> QED
      BY <2>1, <2>7, <3>1 DEF StandsAt, Authorised
  <2>8. ASSUME granted[i] # None /\ granted[i].name # n
        PROVE  StandsAt(i)'
    <3> DEFINE k == granted[i].name
    <3>1. granted[i] \in DeleteFile
      BY <1>0, <2>1, <2>8 DEF TypeOK
    <3>2. k \in FileNames
      BY <3>1 DEF DeleteFile
    <3>3. rows'[i][k] = rows[i][k]
      BY <1>0, <2>1, <2>5, <2>8, <3>2 DEF TypeOK
    <3>4. \A h : IsDeleted(i, k, h)' <=> IsDeleted(i, k, h)
      <4> DEFINE h0 == rows[i][n].hash
                 s == IF rows[i][n].owner = i THEN <<i, n, h0>> ELSE None
                 rec == [name |-> n, digest |-> h0, owner |-> rows[i][n].owner, sig |-> s]
      <4>1. tombs'[i] = {t \in tombs[i] : t.name # n \/ t.digest # h0} \cup {rec}
        BY <1>0, <2>1, <2>3, <2>4 DEF ForgetRow, Matches, TypeOK
      <4>2. rec.name = n /\ k # n
        BY <2>8
      <4> HIDE DEF rec, h0, k
      <4>3. \A t \in tombs'[i] : t.name = k => t \in tombs[i]
        BY <4>1, <4>2
      <4>4. \A t \in tombs[i] : t.name = k => t \in tombs'[i]
        BY <4>1, <4>2
      <4> QED
        BY <2>1, <4>3, <4>4 DEF k, IsDeleted
    <3> QED
      BY <1>0, <2>1, <2>8, <3>3, <3>4 DEF GrantStands, StandsAt, Authorised
  <2> QED
    BY <1>n, <2>1, <2>2, <2>6, <2>7, <2>8
<1>3. ASSUME NEW i \in Nodes, NEW j \in Nodes, KeepCopy(i, j)
      PROVE  GrantStands'
  <2>1. UNCHANGED <<granted, overtaken>> /\ granted[i] = None
    BY <1>3 DEF KeepCopy, Next1
  <2>2. \A p \in Nodes \ {i} : rows'[p] = rows[p] /\ tombs'[p] = tombs[p]
    BY <1>0, <1>3 DEF KeepCopy, TypeOK
  <2>3. StandsAt(i)'
    BY <1>0, <2>1 DEF GrantStands, StandsAt
  <2> QED
    BY <1>n, <2>1, <2>2, <2>3
<1>4. ASSUME NEW i \in Nodes, NEW j \in Nodes, Authorize(i, j)
      PROVE  GrantStands'
  <2> DEFINE m == Head(chan[j][i])
  <2>1. granted' = [granted EXCEPT ![i] = IF Authorised(i, m) THEN m ELSE None]
    BY <1>4 DEF Authorize
  <2>2. UNCHANGED <<rows, tombs, overtaken>> /\ granted[i] = None
    BY <1>4 DEF Authorize, Next1
  <2> HIDE DEF m
  <2>3. granted'[i] = IF Authorised(i, m) THEN m ELSE None
    BY <1>0, <2>1 DEF TypeOK
  <2>4. Authorised(i, m) => Authorised(i, granted[i])'
    BY <2>2, <2>3 DEF Authorised, IsDeleted
  <2>5. StandsAt(i)'
    BY <1>0, <2>2, <2>3, <2>4 DEF GrantStands, StandsAt
  <2>6. \A p \in Nodes \ {i} : granted'[p] = granted[p]
    BY <1>0, <2>1 DEF TypeOK
  <2> QED
    BY <1>n, <2>2, <2>5, <2>6
<1>5. ASSUME NEW i \in Nodes, Forget(i)
      PROVE  GrantStands'
  <2>1. /\ granted'[i] = None /\ overtaken' = overtaken \ {i}
        /\ \A p \in Nodes \ {i} : granted'[p] = granted[p]
    BY <1>0, <1>5 DEF Forget, TypeOK
  <2>2. \A p \in Nodes \ {i} : rows'[p] = rows[p] /\ tombs'[p] = tombs[p]
    BY <1>0, <1>5 DEF Forget, ForgetRow, TypeOK
  <2>3. StandsAt(i)'
    BY <2>1 DEF StandsAt
  <2> QED
    BY <1>n, <2>1, <2>2, <2>3
<1>6. ASSUME NEW i \in Nodes, PushCopies(i)
      PROVE  UNCHANGED <<rows, tombs, granted, overtaken>>
  BY <1>6 DEF PushCopies
<1>7. ASSUME NEW i \in Nodes, NEW j \in Nodes,
             RefuseCopy(i, j) \/ Disconnect(i, j) \/ Connect(i, j)
      PROVE  UNCHANGED <<rows, tombs, granted, overtaken>>
  BY <1>7 DEF RefuseCopy, Disconnect, Connect
<1>8. ASSUME NEW i \in Nodes, NEW n \in FileNames, DeleteUnknown(i, n) \/ CheckFile(i, n)
      PROVE  UNCHANGED <<rows, tombs, granted, overtaken>>
  BY <1>8 DEF DeleteUnknown, CheckFile
<1>9. ASSUME NEW i \in Nodes, NEW j \in Nodes, NEW n \in Names, Get(i, j, n)
      PROVE  UNCHANGED <<rows, tombs, granted, overtaken>>
  BY <1>9 DEF Get
<1>10. CASE UNCHANGED vars
  BY <1>10, <1>u DEF vars
<1> QED
  BY <1>u, <1>1, <1>2, <1>3, <1>4, <1>5, <1>6, <1>7, <1>8, <1>9, <1>10,
     DeletionAssumption DEF Next, UserStep, LoopStep, Handle, RepairStep, FileNames

(* A node's own file is never tombstoned: storing clears the record, and   *)
(* no copy arrives with the receiver as its owner.                         *)
LEMMA OwnStep ==
    ASSUME DeletionInv, [Next]_vars
    PROVE  OwnFilesLive'
<1>0. TypeOK /\ ChannelsSound /\ OwnFilesLive
  BY DEF DeletionInv
<1>u. ASSUME UNCHANGED <<rows, tombs>>
      PROVE  OwnFilesLive'
  BY <1>0, <1>u DEF OwnFilesLive, IsDeleted
<1>1. ASSUME NEW i \in Authors, NEW n \in Names, NEW d \in Digests, Store(i, n, d)
      PROVE  OwnFilesLive'
  <2>1. i \in Nodes /\ n \in FileNames
    BY DeletionAssumption DEF FileNames
  <2>2. \A p \in Nodes, q \in FileNames :
          rows'[p][q] = IF p = i /\ q = n THEN [hash |-> d, owner |-> i] ELSE rows[p][q]
    BY <1>0, <1>1, <2>1 DEF Store, TypeOK
  <2>3. \A p \in Nodes : tombs'[p] \subseteq tombs[p]
    BY <1>0, <1>1, <2>1 DEF Store, Cleared, TypeOK
  <2>4. \A t \in tombs'[i] : t.name # n \/ t.digest # d
    BY <1>0, <1>1, <2>1 DEF Store, Cleared, TypeOK
  <2> QED
    BY <1>0, <2>1, <2>2, <2>3, <2>4 DEF OwnFilesLive, IsDeleted
<1>f. ASSUME NEW i \in Nodes, NEW n \in FileNames, NEW d, NEW o, NEW s, ForgetRow(i, n, d, o, s)
      PROVE  OwnFilesLive'
  <2>1. \A p \in Nodes, q \in FileNames :
          rows'[p][q] = IF p = i /\ q = n /\ Matches(i, n, d) THEN None ELSE rows[p][q]
    BY <1>0, <1>f, ForgetEffect
  <2>2. \A p \in Nodes : \A t \in tombs'[p] :
          \/ t \in tombs[p]
          \/ p = i /\ Matches(i, n, d) /\ t.name = n
    BY <1>0, <1>f, ForgetEffect
  <2> QED
    BY <1>0, <2>1, <2>2 DEF OwnFilesLive, IsDeleted
<1>2. ASSUME NEW i \in Deleters, NEW n \in Names, Delete(i, n)
      PROVE  OwnFilesLive'
  <2>1. i \in Nodes /\ n \in FileNames
    BY DeletionAssumption DEF FileNames
  <2> QED
    BY <1>0, <1>2, <1>f, <2>1, DeleteSigns
<1>3. ASSUME NEW i \in Nodes, NEW j \in Nodes, KeepCopy(i, j)
      PROVE  OwnFilesLive'
  <2> DEFINE m == Head(chan[j][i])
             q == FiledUnder(i, m)
  <2>1. m \in SoundFor(i) /\ m.type = "store" /\ m \in StoreFile
    BY <1>0, <1>3, NextSound DEF KeepCopy, Message, StoreFile, DeleteFile
  <2>2. m.owner # i
    BY <2>1 DEF SoundFor
  <2>3. tombs' = tombs /\ rows' = [rows EXCEPT ![i][q] = [hash |-> m.digest, owner |-> m.owner]]
    BY <1>3 DEF KeepCopy
  <2> HIDE DEF m, q
  <2>4. \A p \in Nodes, r \in FileNames :
          rows'[p][r] = rows[p][r] \/ (p = i /\ rows'[p][r].owner = m.owner)
    BY <1>0, <2>3 DEF TypeOK
  <2> QED
    BY <1>0, <2>2, <2>3, <2>4 DEF OwnFilesLive, IsDeleted
<1>4. ASSUME NEW i \in Nodes, Forget(i)
      PROVE  OwnFilesLive'
  <2>1. granted[i] \in DeleteFile
    BY <1>0, <1>4 DEF Forget, TypeOK
  <2>2. granted[i].name \in FileNames
    BY <2>1 DEF DeleteFile
  <2> QED
    BY <1>4, <1>f, <2>2 DEF Forget
<1>5. ASSUME NEW i \in Nodes, NEW j \in Nodes,
             RefuseCopy(i, j) \/ Authorize(i, j) \/ Disconnect(i, j) \/ Connect(i, j)
      PROVE  UNCHANGED <<rows, tombs>>
  BY <1>5 DEF RefuseCopy, Authorize, Disconnect, Connect
<1>6. ASSUME NEW i \in Nodes, PushCopies(i)
      PROVE  UNCHANGED <<rows, tombs>>
  BY <1>6 DEF PushCopies
<1>7. ASSUME NEW i \in Nodes, NEW n \in FileNames, DeleteUnknown(i, n) \/ CheckFile(i, n)
      PROVE  UNCHANGED <<rows, tombs>>
  BY <1>7 DEF DeleteUnknown, CheckFile
<1>8. ASSUME NEW i \in Nodes, NEW j \in Nodes, NEW n \in Names, Get(i, j, n)
      PROVE  UNCHANGED <<rows, tombs>>
  BY <1>8 DEF Get
<1>9. CASE UNCHANGED vars
  BY <1>9, <1>u DEF vars
<1> QED
  BY <1>u, <1>1, <1>2, <1>3, <1>4, <1>5, <1>6, <1>7, <1>8, <1>9,
     DeletionAssumption DEF Next, UserStep, LoopStep, Handle, RepairStep, FileNames

LEMMA InvStep ==
    ASSUME DeletionInv, [Next]_vars
    PROVE  DeletionInv'
<1>1. ChannelsSound' /\ chan' \in [Nodes -> [Nodes -> Seq(Message)]]
  BY ChannelStep
<1>2. TypeOK'
  BY <1>1, TypeStep DEF DeletionInv
<1> QED
  BY <1>1, <1>2, RecordsStep, GrantStep, OwnStep DEF DeletionInv

-----------------------------------------------------------------------------
(* The steps that remove a copy: a user's deletion, and a message of its   *)
(* owner's making.                                                         *)
LEMMA RemovalStep ==
    ASSUME DeletionInv, [Next]_vars, NEW i \in Nodes, NEW n \in FileNames,
           rows[i][n] # None, rows[i][n].owner # None, rows'[i][n] = None
    PROVE  \/ /\ <<rows[i][n].owner, n, rows[i][n].hash>> \in signed'
              /\ rows[i][n].owner = i => ops' = ops + 1
           \/ rows[i][n].owner = i /\ i \in overtaken /\ granted[i].name = n
<1>0. TypeOK
  BY DEF DeletionInv
<1> DEFINE late == rows[i][n].owner = i /\ i \in overtaken /\ granted[i].name = n
           goal == \/ /\ <<rows[i][n].owner, n, rows[i][n].hash>> \in signed'
                      /\ rows[i][n].owner = i => ops' = ops + 1
                   \/ late
<1>1. ASSUME NEW p \in Authors, NEW q \in Names, NEW d \in Digests, Store(p, q, d)
      PROVE  goal
  <2>1. p \in Nodes /\ q \in FileNames
    BY DeletionAssumption DEF FileNames
  <2>2. rows'[i][n] \in {rows[i][n], [hash |-> d, owner |-> p]}
    BY <1>0, <1>1, <2>1 DEF Store, TypeOK
  <2>3. [hash |-> d, owner |-> p] # None
    <3>1. [hash |-> d, owner |-> p] \in Row
      BY <2>1 DEF Row, Owners
    <3> QED
      BY <3>1, DeletionAssumption
  <2> QED
    BY <2>2, <2>3
<1>2. ASSUME NEW p \in Deleters, NEW q \in Names, Delete(p, q)
      PROVE  goal
  <2>1. p \in Nodes /\ q \in FileNames
    BY DeletionAssumption DEF FileNames
  <2>2. PICK o \in {p, None}, s \in Signatures \cup {None} :
          /\ o = rows[p][q].owner
          /\ o = p => s = <<p, q, rows[p][q].hash>> /\ s # None /\ s \in signed'
          /\ o = None => s = None
          /\ ForgetRow(p, q, rows[p][q].hash, o, s)
    BY <1>0, <1>2, <2>1, DeleteSigns
  <2>3. i = p /\ n = q
    BY <1>0, <2>1, <2>2, ForgetEffect
  <2>4. ops' = ops + 1
    BY <1>2 DEF Delete, MayOperate
  <2> QED
    BY <2>2, <2>3, <2>4
<1>3. ASSUME NEW p \in Nodes, NEW j \in Nodes, KeepCopy(p, j)
      PROVE  goal
  <2> DEFINE m == Head(chan[j][p])
             q == FiledUnder(p, m)
  <2>1. m \in StoreFile
    BY <1>0, <1>3, NextSound DEF DeletionInv, KeepCopy, Message, StoreFile, DeleteFile
  <2>2. rows' = [rows EXCEPT ![p][q] = [hash |-> m.digest, owner |-> m.owner]]
    BY <1>3 DEF KeepCopy
  <2>3. [hash |-> m.digest, owner |-> m.owner] \in Row
    BY <2>1 DEF StoreFile, Row
  <2>4. [hash |-> m.digest, owner |-> m.owner] # None
    BY <2>3, DeletionAssumption
  <2> HIDE DEF m, q
  <2> QED
    BY <1>0, <2>2, <2>4 DEF TypeOK
<1>4. ASSUME NEW p \in Nodes, Forget(p)
      PROVE  goal
  <2> DEFINE g == granted[p]
  <2>1. g \in DeleteFile /\ g # None /\ ForgetRow(p, g.name, g.digest, g.owner, g.sig)
    BY <1>0, <1>4 DEF Forget, TypeOK
  <2>2. g.name \in FileNames
    BY <2>1 DEF DeleteFile
  <2>3. i = p /\ n = g.name /\ Matches(p, g.name, g.digest)
    BY <1>0, <2>1, <2>2, ForgetEffect
  <2>4. \/ late
        \/ /\ g.sig = <<rows[i][n].owner, n, rows[i][n].hash>> /\ g.sig \in signed
           /\ rows[i][n].owner # i
    BY <2>1, <2>3, GrantMeaning
  <2>5. signed' = signed
    BY <1>4 DEF Forget
  <2> HIDE DEF g
  <2> QED
    BY <2>4, <2>5
<1>5. ASSUME NEW p \in Nodes, NEW j \in Nodes,
             RefuseCopy(p, j) \/ Authorize(p, j) \/ Disconnect(p, j) \/ Connect(p, j)
      PROVE  rows' = rows
  BY <1>5 DEF RefuseCopy, Authorize, Disconnect, Connect
<1>6. ASSUME NEW p \in Nodes, PushCopies(p)
      PROVE  rows' = rows
  BY <1>6 DEF PushCopies
<1>7. ASSUME NEW p \in Nodes, NEW q \in FileNames, DeleteUnknown(p, q) \/ CheckFile(p, q)
      PROVE  rows' = rows
  BY <1>7 DEF DeleteUnknown, CheckFile
<1>8. ASSUME NEW p \in Nodes, NEW j \in Nodes, NEW q \in Names, Get(p, j, q)
      PROVE  rows' = rows
  BY <1>8 DEF Get
<1>9. CASE UNCHANGED vars
  BY <1>9 DEF vars
<1> QED
  BY <1>1, <1>2, <1>3, <1>4, <1>5, <1>6, <1>7, <1>8, <1>9,
     DeletionAssumption DEF Next, UserStep, LoopStep, Handle, RepairStep, FileNames

(* The invariant, for every network and every schedule. *)
THEOREM DeletionInvariant == Spec => []DeletionInv
<1>1. DeletionInv /\ [Next]_vars => DeletionInv'
  BY InvStep
<1> QED
  BY <1>1, InvInit, PTL DEF Spec

(* Records of a deletion can be replayed by any node: they verify. *)
THEOREM RecordsVerify == Spec => []TombstonesVerify
<1>1. DeletionInv => TombstonesVerify
  BY DEF DeletionInv, RecordsSigned, Signed, TombstonesVerify
<1> QED
  BY <1>1, DeletionInvariant, PTL

(* No copy of another node's goes without that node's signature; nor does  *)
(* one of this node's own, but for what its user stored while the loop was *)
(* past its check of a deletion of that name.                              *)
THEOREM RemovalAuthorised == Spec => AuthorisedRemoval
<1>1. DeletionInv /\ [Next]_vars =>
        [\A i \in Nodes, n \in FileNames :
           (rows[i][n] # None /\ rows[i][n].owner # None /\ rows'[i][n] = None)
             => \/ <<rows[i][n].owner, n, rows[i][n].hash>> \in signed'
                \/ rows[i][n].owner = i /\ i \in overtaken /\ granted[i].name = n]_vars
  BY RemovalStep
<1> QED
  BY <1>1, DeletionInvariant, PTL DEF Spec, AuthorisedRemoval

(* A node's own file goes only when its own user deletes it, with the same *)
(* exception.                                                              *)
THEOREM OwnFileKept == Spec => OwnCopyKept
<1>1. DeletionInv /\ [Next]_vars =>
        [\A i \in Nodes, n \in FileNames :
           (rows[i][n] # None /\ rows[i][n].owner = i /\ rows'[i][n] = None)
             => ops' = ops + 1 \/ (i \in overtaken /\ granted[i].name = n)]_vars
  BY RemovalStep, DeletionAssumption
<1> QED
  BY <1>1, DeletionInvariant, PTL DEF Spec, OwnCopyKept
=============================================================================
