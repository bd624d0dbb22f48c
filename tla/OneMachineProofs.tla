-------------------------- MODULE OneMachineProofs --------------------------
(***************************************************************************)
(* What the processes that share one machine's database rely on, for any   *)
(* number of them, of files and of peers. First the repair cycles of the   *)
(* serving node and of a repair command (RepairCycle.tla): they stay       *)
(* within their bound and count only copies that exist. Then the start-up  *)
(* of the processes (KeyInit.tla): however many start at once, they agree  *)
(* on both keys, and start-up implements a write-once register.            *)
(***************************************************************************)
EXTENDS RepairCycle, KeyInit, FiniteSetTheorems, WellFoundedInduction, TLAPS

-----------------------------------------------------------------------------
(* The repair cycles.                                                      *)

(* What the cycle needs besides: it has checked finitely many contents. *)
CycleInv == RepairInv /\ \A c \in Cyclers : IsFiniteSet(cyc[c].seen)

(* The least number of a set is one of it. *)
LEMMA MinIsIn == ASSUME NEW S \in SUBSET Nat, S # {} PROVE Min(S) \in S
<1> DEFINE less == {ss \in Nat \X Nat : ss[1] < ss[2]}
<1>1. IsWellFoundedOn(less, Nat)
  BY NatLessThanWellFounded, Zenon DEF OpToRel
<1> HIDE DEF less
<1>2. PICK x \in S : \A y \in S : <<y, x>> \notin less
  BY <1>1, WFMin
<1>3. \A y \in S : x =< y
  <2> SUFFICES ASSUME NEW y \in S PROVE x =< y
    OBVIOUS
  <2>1. x \in Nat /\ y \in Nat /\ <<y, x>> \in Nat \X Nat
    OBVIOUS
  <2>2. ~(y < x)
    BY <1>2, <2>1 DEF less
  <2>3. QED  BY <2>1, <2>2
<1>4. QED  BY <1>3 DEF Min

(* The file after another is one of those still to be examined. *)
LEMMA FollowingIsIn ==
    ASSUME NEW fs \in SUBSET Files, fs # {}, NEW f PROVE Following(fs, f) \in fs
<1>1. Files \subseteq Nat
  BY RepairAssumption DEF RepairAssumption
<1>2. CASE \E g \in fs : g > f
  <2>1. Min({g \in fs : g > f}) \in {g \in fs : g > f}
    BY <1>1, <1>2, MinIsIn
  <2>2. QED  BY <1>2, <2>1 DEF Following
<1>3. CASE ~\E g \in fs : g > f
  BY <1>1, <1>3, MinIsIn DEF Following
<1>4. QED  BY <1>2, <1>3

(* A machine has finitely many peers, never itself. *)
LEMMA ConnectedIs ==
    ASSUME TypeOK, NEW c \in Cyclers, NEW answering \in SUBSET Connected(c)
    PROVE  /\ IsFiniteSet(answering)
           /\ answering \subseteq Peers \ {c}
<1>1. up \subseteq Helpers /\ IsFiniteSet(up)
  <2>1. up \subseteq Helpers /\ IsFiniteSet(Helpers)
    BY RepairAssumption DEF RepairAssumption, TypeOK
  <2>2. QED  BY <2>1, FS_Subset
<1>2. IsFiniteSet((up \cup {Server}) \cup {Command})
  BY <1>1, FS_AddElement
<1>3. answering \in SUBSET ((up \cup {Server}) \cup {Command})
  BY DEF Connected, Cyclers
<1>4. answering \subseteq Peers \ {c}
  BY <1>1, RepairAssumption DEF RepairAssumption, Connected, Peers, Cyclers
<1>5. QED  BY <1>2, <1>3, <1>4, FS_Subset

(* What a check counts is a number. *)
LEMMA CopiesType ==
    ASSUME TypeOK, NEW c \in Cyclers, NEW answering \in SUBSET Connected(c),
           NEW known, NEW f, NEW d
    PROVE  Copies(c, answering, known, f, d) \in Nat
<1>1. IsFiniteSet(answering)
  BY ConnectedIs
<1>2. Yes(answering, f, d) \in SUBSET answering
  BY DEF Yes
<1>3. Cardinality(Yes(answering, f, d)) \in Nat
  BY <1>1, <1>2, FS_Subset, FS_CardinalityType
<1>4. QED  BY <1>3 DEF Copies

(* The file a cycle examines next is one it has listed. *)
LEMMA NextIs ==
    ASSUME TypeOK, NEW c \in Cyclers, MayExamine(c)
    PROVE  /\ Next1(c) \in Files
           /\ cyc[c].files[Next1(c)] \in Digests
<1>1. ToDo(c) \in SUBSET Files /\ ToDo(c) # {}
  BY DEF MayExamine, ToDo
<1>2. Next1(c) \in ToDo(c)
  BY <1>1, FollowingIsIn DEF Next1
<1>3. cyc[c] \in Cycle
  BY DEF TypeOK
<1>4. cyc[c].files \in [Files -> Digests \cup {None}]
  BY <1>3 DEF Cycle, Rows
<1>5. QED  BY <1>2, <1>4 DEF ToDo

(* Examining a file keeps the record of the cycle well typed. *)
LEMMA ExaminedIs ==
    ASSUME TypeOK, NEW c \in Cyclers, MayExamine(c)
    PROVE  /\ Examined(c) \in Cycle
           /\ Examined(c).pc = "scan" /\ Examined(c).seen = cyc[c].seen
           /\ Examined(c).lacking = cyc[c].lacking
           /\ Examined(c).need = cyc[c].need
           /\ Examined(c).unsure = cyc[c].unsure
<1>1. Next1(c) \in Files
  BY NextIs
<1>2. cyc[c] \in Cycle /\ cyc[c].pc = "scan"
  BY DEF TypeOK, MayExamine
<1>3. cyc[c].files \in [Files -> Digests \cup {None}]
  BY <1>2 DEF Cycle, Rows
<1>4. [cyc[c].files EXCEPT ![Next1(c)] = None] \in Rows
  BY <1>3 DEF Rows
<1>5. cyc[c] = [pc |-> cyc[c].pc, files |-> cyc[c].files, seen |-> cyc[c].seen,
                examined |-> cyc[c].examined, digest |-> cyc[c].digest,
                lacking |-> cyc[c].lacking, need |-> cyc[c].need,
                unsure |-> cyc[c].unsure]
  BY <1>2 DEF Cycle
<1>6. Examined(c) = [cyc[c] EXCEPT !.examined = Next1(c),
                       !.files = [cyc[c].files EXCEPT ![Next1(c)] = None]]
  BY <1>5 DEF Examined
<1>7. QED  BY <1>1, <1>2, <1>4, <1>6 DEF Cycle

(* Initially nobody runs a cycle. *)
LEMMA CycleInit == Init => CycleInv
<1> SUFFICES ASSUME Init PROVE CycleInv
  OBVIOUS
<1> USE RepairAssumption DEF RepairAssumption
<1>1. Idle \in Cycle /\ Idle.seen = {} /\ Idle.lacking = {} /\ Idle.pc = "idle"
  BY DEF Idle, Cycle, NoFiles, Rows
<1>2. held \subseteq Digests
  BY DEF Init, Used
<1>3. TypeOK
  <2>1. cyc \in [Cyclers -> Cycle] /\ kept \in [Helpers -> SUBSET Digests]
    BY <1>1 DEF Init
  <2>2. /\ ops \in 0 .. MaxOps /\ runs \in 0 .. MaxRuns /\ faults \in 0 .. MaxFaults
        /\ rows \in Rows
    BY DEF Init
  <2>3. QED  BY <1>2, <2>1, <2>2 DEF Init, TypeOK
<1>4. \A c \in Cyclers : cyc[c] = Idle
  BY DEF Init
<1>5. Cardinality({}) = 0 /\ IsFiniteSet({})
  BY FS_EmptySet
<1>6. Command \in Cyclers
  BY DEF Cyclers
<1>7. /\ \A c \in Cyclers : /\ Cardinality(cyc[c].seen) <= Limit
                            /\ IsFiniteSet(cyc[c].seen)
      /\ \A c \in Cyclers : cyc[c].pc # "push" /\ cyc[c].lacking = {}
  <2>1. Limit \in Nat /\ 0 <= Limit
    OBVIOUS
  <2>2. QED  BY <1>1, <1>4, <1>5, <2>1
<1>8. QED  BY <1>3, <1>6, <1>7 DEF CycleInv, RepairInv

(* What the invariant asks of one cycler's record. *)
RecordOk(c, r) ==
    /\ r \in Cycle
    /\ IsFiniteSet(r.seen) /\ Cardinality(r.seen) <= Limit
    /\ r.pc = "push" => r.digest \in r.seen
    /\ r.lacking \subseteq Peers \ {c}
    /\ c = Command /\ Server \in r.lacking => r.unsure

(* A step of one cycler is right when the record it leaves is. *)
LEMMA RecordStep ==
    ASSUME CycleInv, NEW c \in Cyclers, NEW r, RecordOk(c, r),
           cyc' = [cyc EXCEPT ![c] = r],
           rows' \in Rows, held' \subseteq Digests,
           kept' \in [Helpers -> SUBSET Digests],
           up' \subseteq Helpers, cursor' \in Files \cup {0}, running' \in BOOLEAN,
           linked' \in BOOLEAN, linked' => running',
           ops' \in 0 .. MaxOps, runs' \in 0 .. MaxRuns, faults' \in 0 .. MaxFaults
    PROVE  CycleInv'
<1>1. TypeOK'
  BY DEF CycleInv, RepairInv, TypeOK, RecordOk
<1>2. \A x \in Cyclers : RecordOk(x, cyc[x])
  BY DEF CycleInv, RepairInv, TypeOK, RecordOk
<1>3. cyc'[c] = r /\ \A x \in Cyclers \ {c} : cyc'[x] = cyc[x]
  BY DEF CycleInv, RepairInv, TypeOK
<1>4. \A x \in Cyclers : RecordOk(x, cyc'[x])
  BY <1>2, <1>3
<1>5. Command \in Cyclers
  BY DEF Cyclers
<1>6. QED  BY <1>1, <1>4, <1>5 DEF CycleInv, RepairInv, RecordOk

(* The record of a cycler that does nothing. *)
LEMMA IdleOk == ASSUME NEW c \in Cyclers PROVE RecordOk(c, Idle)
<1>1. Idle \in Cycle
  BY RepairAssumption DEF RepairAssumption, Idle, Cycle, NoFiles, Rows
<1>2. Cardinality({}) = 0 /\ IsFiniteSet({}) /\ 0 <= Limit
  BY FS_EmptySet, RepairAssumption DEF RepairAssumption
<1>3. QED  BY <1>1, <1>2 DEF RecordOk, Idle

(* Checking one more content stays within the bound, and asks for at most  *)
(* the target, of peers of this cycler.                                    *)
LEMMA CheckedOk ==
    ASSUME CycleInv, NEW c \in Cyclers, CheckFile(c)
    PROVE  \E r : RecordOk(c, r) /\ cyc' = [cyc EXCEPT ![c] = r]
<1> DEFINE f == Next1(c)
           d == cyc[c].files[f]
           spared(known) == IF c = Command /\ known THEN {Server} ELSE {}
           r(answering, known) ==
             [Examined(c) EXCEPT
                !.pc = "push", !.seen = @ \cup {d}, !.digest = d,
                !.need = IF Copies(c, answering, known, f, d) < Target
                           THEN Target - Copies(c, answering, known, f, d) ELSE 0,
                !.lacking = answering \ (Yes(answering, f, d) \cup spared(known)),
                !.unsure = ~known]
<1>1. PICK answering \in SUBSET Connected(c), known \in BOOLEAN :
        cyc' = [cyc EXCEPT ![c] = r(answering, known)]
  BY DEF CheckFile
<1>2. TypeOK /\ RecordOk(c, cyc[c]) /\ MayExamine(c)
  BY DEF CycleInv, RepairInv, TypeOK, RecordOk, CheckFile
<1>3. f \in Files /\ d \in Digests
  BY <1>2, NextIs
<1>4. Examined(c) \in Cycle /\ Examined(c).seen = cyc[c].seen
  BY <1>2, ExaminedIs
<1>5. /\ answering \subseteq Peers \ {c}
      /\ Copies(c, answering, known, f, d) \in Nat
  <2>1. answering \subseteq Peers \ {c}
    BY <1>2, ConnectedIs
  <2>2. Copies(c, answering, known, f, d) \in Nat
    BY <1>2, CopiesType
  <2>3. QED  BY <2>1, <2>2
<1> DEFINE q == r(answering, known)
<1>6. q.need \in 0 .. Target
  <2>1. Target \in Nat
    BY RepairAssumption DEF RepairAssumption
  <2>2. q.need = IF Copies(c, answering, known, f, d) < Target
                   THEN Target - Copies(c, answering, known, f, d) ELSE 0
    BY <1>4 DEF Cycle
  <2>3. QED  BY <1>5, <2>1, <2>2
<1>7. /\ q.lacking \subseteq Peers \ {c}
      /\ q.unsure \in BOOLEAN
      /\ c = Command /\ Server \in q.lacking => q.unsure
  <2>1. q.lacking = answering \ (Yes(answering, f, d) \cup spared(known))
    BY <1>4 DEF Cycle
  <2>2. q.unsure = ~known
    BY <1>4 DEF Cycle
  <2>3. QED  BY <1>5, <2>1, <2>2
<1>8. /\ q.pc = "push" /\ q.digest = d
      /\ q.seen = cyc[c].seen \cup {d}
      /\ q.files = Examined(c).files
      /\ q.examined = Examined(c).examined
  BY <1>4 DEF Cycle
<1>9. cyc[c].seen \subseteq Digests
  BY <1>2 DEF RecordOk, Cycle
<1>10. q \in Cycle
  BY <1>3, <1>4, <1>6, <1>7, <1>8, <1>9 DEF Cycle
<1>11. /\ IsFiniteSet(q.seen)
       /\ Cardinality(q.seen) <= Limit
  <2>1. IsFiniteSet(cyc[c].seen) /\ Cardinality(cyc[c].seen) < Limit
    BY <1>2 DEF RecordOk, MayExamine
  <2>2. /\ IsFiniteSet(cyc[c].seen \cup {d})
        /\ \/ Cardinality(cyc[c].seen \cup {d}) = Cardinality(cyc[c].seen)
           \/ Cardinality(cyc[c].seen \cup {d}) = Cardinality(cyc[c].seen) + 1
    BY <2>1, FS_AddElement
  <2>3. Cardinality(cyc[c].seen) \in Nat /\ Limit \in Nat
    BY <2>1, FS_CardinalityType, RepairAssumption DEF RepairAssumption
  <2>4. /\ IsFiniteSet(cyc[c].seen \cup {d})
        /\ Cardinality(cyc[c].seen \cup {d}) <= Limit
    BY <2>1, <2>2, <2>3
  <2>5. q.seen = cyc[c].seen \cup {d}
    BY <1>8
  <2>6. QED  BY <2>4, <2>5, Zenon
<1>12. RecordOk(c, q)
  BY <1>7, <1>8, <1>10, <1>11 DEF RecordOk
<1>13. QED  BY <1>1, <1>12

(* A command ends with its connections. *)
LEMMA EndsIs ==
    ASSUME NEW c \in Cyclers, Ends(c), linked \in BOOLEAN, running \in BOOLEAN,
           linked => running
    PROVE  running' \in BOOLEAN /\ linked' \in BOOLEAN /\ (linked' => running')
<1>1. CASE c = Command
  BY <1>1 DEF Ends
<1>2. CASE c # Command
  <2>1. running' = running /\ linked' = linked
    BY <1>2, Zenon DEF Ends
  <2>2. QED  BY <2>1
<1>3. QED  BY <1>1, <1>2

(* Every step of a cycle leaves a record that is right. *)
LEMMA RepairStep ==
    ASSUME CycleInv, NEW c \in Cyclers, RepairOnce(c) PROVE CycleInv'
<1>1. TypeOK /\ RecordOk(c, cyc[c]) /\ RecordOk(c, Idle)
  <2>1. RecordOk(c, cyc[c])
    BY DEF CycleInv, RepairInv, TypeOK, RecordOk
  <2>2. QED  BY <2>1, IdleOk DEF CycleInv, RepairInv
<1>2. /\ rows \in Rows /\ held \subseteq Digests
      /\ kept \in [Helpers -> SUBSET Digests]
      /\ up \subseteq Helpers /\ cursor \in Files \cup {0} /\ running \in BOOLEAN
      /\ linked \in BOOLEAN /\ (linked => running)
      /\ ops \in 0 .. MaxOps /\ runs \in 0 .. MaxRuns /\ faults \in 0 .. MaxFaults
      /\ cyc[c] \in Cycle
  BY <1>1 DEF TypeOK, RecordOk
<1>3. MaxFaults \in Nat /\ Target \in Nat
  BY RepairAssumption DEF RepairAssumption
<1>4. CASE Begin(c)
  <2>1. PICK from \in {cursor, 0} :
           cyc' = [cyc EXCEPT ![c] = [Idle EXCEPT !.pc = "scan", !.files = rows,
                                                 !.examined = from]]
    BY <1>4 DEF Begin
  <2>2. RecordOk(c, [Idle EXCEPT !.pc = "scan", !.files = rows, !.examined = from])
    BY <1>1, <1>2 DEF RecordOk, Cycle, Idle
  <2>3. faults' \in 0 .. MaxFaults
    BY <1>2, <1>3, <1>4 DEF Begin, Goes
  <2>4. QED  BY <1>2, <1>4, <2>1, <2>2, <2>3, RecordStep DEF Begin
<1>5. CASE Skip(c)
  <2>1. Examined(c) \in Cycle /\ Examined(c).pc = "scan"
        /\ Examined(c).seen = cyc[c].seen /\ Examined(c).lacking = cyc[c].lacking
        /\ Examined(c).unsure = cyc[c].unsure
    BY <1>1, <1>5, ExaminedIs DEF Skip
  <2>2. RecordOk(c, Examined(c))
    BY <1>1, <2>1 DEF RecordOk
  <2>3. QED  BY <1>2, <1>5, <2>2, RecordStep DEF Skip
<1>6. CASE CheckFile(c)
  <2>1. PICK r : RecordOk(c, r) /\ cyc' = [cyc EXCEPT ![c] = r]
    BY <1>6, CheckedOk
  <2>2. faults' \in 0 .. MaxFaults /\ linked' \in BOOLEAN /\ (linked' => linked)
    BY <1>2, <1>3, <1>6 DEF CheckFile, Goes
  <2>3. QED  BY <1>2, <1>6, <2>1, <2>2, RecordStep DEF CheckFile
<1>7. ASSUME NEW p \in Peers, Push(c, p) PROVE CycleInv'
  <2> DEFINE r(sent) == [cyc[c] EXCEPT !.lacking = @ \ {p},
                                       !.need = IF sent THEN @ - 1 ELSE @]
  <2>1. PICK sent, keeps :
          /\ kept' = IF keeps /\ p \in Helpers
                      THEN [kept EXCEPT ![p] = @ \cup {cyc[c].digest}] ELSE kept
          /\ cyc' = [cyc EXCEPT ![c].lacking = @ \ {p},
                                ![c].need = IF sent THEN @ - 1 ELSE @]
    BY <1>7 DEF Push
  <2>2. cyc[c].need \in 0 .. Target /\ cyc[c].need > 0
    BY <1>2, <1>7 DEF Push, Cycle
  <2>3. (IF sent THEN cyc[c].need - 1 ELSE cyc[c].need) \in 0 .. Target
    BY <1>3, <2>2
  <2>4. r(sent) \in Cycle
    BY <1>2, <2>3 DEF Cycle
  <2>5. /\ r(sent).seen = cyc[c].seen /\ r(sent).pc = cyc[c].pc
        /\ r(sent).digest = cyc[c].digest /\ r(sent).unsure = cyc[c].unsure
        /\ r(sent).lacking = cyc[c].lacking \ {p}
    BY <1>2 DEF Cycle
  <2>6. RecordOk(c, r(sent))
    BY <1>1, <2>4, <2>5 DEF RecordOk
  <2>7. kept' \in [Helpers -> SUBSET Digests]
    <3>1. cyc[c].digest \in Digests
      <4>1. cyc[c].digest \in cyc[c].seen
        BY <1>1, <1>7 DEF RecordOk, Push
      <4>2. cyc[c].seen \subseteq Digests
        BY <1>2 DEF Cycle
      <4>3. QED  BY <4>1, <4>2
    <3>2. CASE keeps /\ p \in Helpers
      BY <1>2, <2>1, <3>1, <3>2
    <3>3. CASE ~(keeps /\ p \in Helpers)
      BY <1>2, <2>1, <3>3
    <3>4. QED  BY <3>2, <3>3
  <2>8. cyc' = [cyc EXCEPT ![c] = r(sent)]
    BY <1>1, <2>1 DEF TypeOK
  <2>9. faults' \in 0 .. MaxFaults
    BY <1>2, <1>3, <1>7 DEF Push, Goes
  <2>10. QED  BY <1>2, <1>7, <2>6, <2>7, <2>8, <2>9, RecordStep DEF Push
<1>8. CASE FileDone(c)
  <2> DEFINE r == [cyc[c] EXCEPT !.pc = "scan", !.digest = None, !.lacking = {},
                                 !.need = 0, !.unsure = FALSE]
  <2>1. cyc' = [cyc EXCEPT ![c] = r]
    BY <1>1, <1>8 DEF FileDone, TypeOK
  <2>2. r \in Cycle /\ r.seen = cyc[c].seen /\ r.pc = "scan" /\ r.lacking = {}
    <3>1. 0 \in 0 .. Target
      BY <1>3
    <3>2. r \in Cycle
      <4> DEFINE q == [cyc[c] EXCEPT !.lacking = {}, !.need = 0]
      <4>1. q \in Cycle
        BY <1>2, <3>1 DEF Cycle
      <4>2. [q EXCEPT !.pc = "scan", !.digest = None, !.unsure = FALSE] \in Cycle
        <5> HIDE DEF q
        <5>1. QED  BY <4>1 DEF Cycle
      <4>3. r = [q EXCEPT !.pc = "scan", !.digest = None, !.unsure = FALSE]
        BY <1>2 DEF Cycle
      <4>4. QED  BY <4>2, <4>3, Zenon
    <3>3. r.seen = cyc[c].seen
      BY <1>2 DEF Cycle
    <3>4. r.pc = "scan" /\ r.lacking = {}
      BY <1>2 DEF Cycle
    <3>5. QED  BY <3>2, <3>3, <3>4
  <2>3. RecordOk(c, r)
    BY <1>1, <2>2 DEF RecordOk
  <2>4. QED  BY <1>2, <1>8, <2>1, <2>3, RecordStep DEF FileDone
<1>9. CASE Return(c) /\ UNCHANGED <<rows, held, kept, up, ops, runs>>
  <2>1. cursor' \in Files \cup {0}
    BY <1>2, <1>9 DEF Return, Record, Cycle
  <2>2. faults' \in 0 .. MaxFaults
    BY <1>2, <1>3, <1>9 DEF Return, Goes
  <2>3. running' \in BOOLEAN /\ linked' \in BOOLEAN /\ (linked' => running')
    BY <1>2, <1>9, EndsIs DEF Return
  <2>4. cyc' = [cyc EXCEPT ![c] = Idle]
    BY <1>9 DEF Return
  <2>5. QED  BY <1>1, <1>2, <1>9, <2>1, <2>2, <2>3, <2>4, RecordStep
<1>10. CASE NothingToDo(c)
  <2>1. running' \in BOOLEAN /\ linked' \in BOOLEAN /\ (linked' => running')
    BY <1>2, <1>10, EndsIs DEF NothingToDo
  <2>2. cyc' = [cyc EXCEPT ![c] = cyc[c]]
    BY <1>1, <1>10 DEF NothingToDo, TypeOK
  <2>3. QED  BY <1>1, <1>2, <1>10, <2>1, <2>2, RecordStep DEF NothingToDo
<1>11. QED
  BY <1>4, <1>5, <1>6, <1>7, <1>8, <1>9, <1>10 DEF RepairOnce, CycleDone, Interrupted

(* Every step keeps the invariant: one case per action. *)
LEMMA CycleStep == CycleInv /\ [Next]_vars => CycleInv'
<1> SUFFICES ASSUME CycleInv, [Next]_vars PROVE CycleInv'
  OBVIOUS
<1>1. /\ rows \in Rows /\ held \subseteq Digests
      /\ kept \in [Helpers -> SUBSET Digests]
      /\ up \subseteq Helpers /\ cursor \in Files \cup {0} /\ running \in BOOLEAN
      /\ linked \in BOOLEAN /\ (linked => running)
      /\ ops \in 0 .. MaxOps /\ runs \in 0 .. MaxRuns /\ faults \in 0 .. MaxFaults
      /\ MaxOps \in Nat /\ MaxRuns \in Nat /\ MaxFaults \in Nat
  BY RepairAssumption DEF RepairAssumption, CycleInv, RepairInv, TypeOK
<1>2. ASSUME NEW c \in Cyclers, RepairOnce(c) PROVE CycleInv'
  BY <1>2, RepairStep
<1>3. ASSUME NEW c \in Cyclers, Crash(c) PROVE CycleInv'
  <2>1. faults' \in 0 .. MaxFaults
    BY <1>1, <1>3 DEF Crash, Goes
  <2>2. running' \in BOOLEAN /\ linked' = FALSE
    BY <1>1, <1>3, Zenon DEF Crash
  <2>3. QED  BY <1>1, <1>3, <2>1, <2>2, IdleOk, RecordStep DEF Crash
<1>4. ASSUME UNCHANGED cyc,
             rows' \in Rows, held' \subseteq Digests,
             kept' \in [Helpers -> SUBSET Digests],
             up' \subseteq Helpers, cursor' \in Files \cup {0}, running' \in BOOLEAN,
             linked' \in BOOLEAN, linked' => running',
             ops' \in 0 .. MaxOps, runs' \in 0 .. MaxRuns, faults' \in 0 .. MaxFaults
      PROVE  CycleInv'
  BY <1>4 DEF CycleInv, RepairInv, TypeOK
<1>5. CASE StartCommand
  <2>1. runs' \in 0 .. MaxRuns
    BY <1>1, <1>5 DEF StartCommand
  <2>2. QED  BY <1>1, <1>4, <1>5, <2>1 DEF StartCommand
<1>6. CASE Unlink
  <2>1. faults' \in 0 .. MaxFaults
    BY <1>1, <1>6 DEF Unlink, Goes
  <2>2. QED  BY <1>1, <1>4, <1>6, <2>1 DEF Unlink
<1>7. ASSUME NEW f \in Files, NEW d \in Digests, Store(f, d) PROVE CycleInv'
  <2>1. ops' \in 0 .. MaxOps /\ rows' \in Rows /\ held' \subseteq Digests
    BY <1>1, <1>7 DEF Store, Rows
  <2>2. PICK to \in SUBSET up :
          kept' = [h \in Helpers |-> IF h \in to THEN kept[h] \cup {d} ELSE kept[h]]
    BY <1>7 DEF Store
  <2>3. kept' \in [Helpers -> SUBSET Digests]
    BY <1>1, <2>2
  <2>4. QED  BY <1>1, <1>4, <1>7, <2>1, <2>3 DEF Store
<1>8. ASSUME NEW f \in Files, Delete(f) PROVE CycleInv'
  <2>1. ops' \in 0 .. MaxOps /\ rows' \in Rows
    BY <1>1, <1>8 DEF Delete, Rows
  <2>2. QED  BY <1>1, <1>4, <1>8, <2>1 DEF Delete
<1>9. ASSUME NEW d \in Digests, Reclaim(d) PROVE CycleInv'
  BY <1>1, <1>4, <1>9 DEF Reclaim
<1>10. ASSUME NEW h \in Helpers, Join(h) PROVE CycleInv'
  BY <1>1, <1>4, <1>10 DEF Join
<1>11. ASSUME NEW h \in Helpers, Leave(h) PROVE CycleInv'
  <2>1. faults' \in 0 .. MaxFaults
    BY <1>1, <1>11 DEF Leave, Goes
  <2>2. QED  BY <1>1, <1>4, <1>11, <2>1 DEF Leave
<1>12. ASSUME NEW h \in Helpers, NEW d \in Digests, LoseCopy(h, d) PROVE CycleInv'
  <2>1. faults' \in 0 .. MaxFaults /\ kept' \in [Helpers -> SUBSET Digests]
    BY <1>1, <1>12 DEF LoseCopy, Goes
  <2>2. QED  BY <1>1, <1>4, <1>12, <2>1 DEF LoseCopy
<1>13. CASE UNCHANGED vars
  BY <1>1, <1>4, <1>13 DEF vars
<1>14. QED
  BY <1>2, <1>3, <1>5, <1>6, <1>7, <1>8, <1>9, <1>10, <1>11, <1>12, <1>13 DEF Next

(* repair.go:29-32 and 233-237 for any number of files and helpers: a      *)
(* cycle checks no more contents than its bound, and never decides to push *)
(* a file to the node whose storage it is borrowing, but to one that has   *)
(* answered and was not known for that node.                               *)
THEOREM CyclesAreBounded == Spec => []RepairInv
<1>1. CycleInv => RepairInv
  BY DEF CycleInv
<1>2. QED  BY <1>1, CycleInit, CycleStep, PTL DEF Spec

(* What a check counts exists: a helper that says yes keeps the contents,  *)
(* the machine counts itself once, and besides only the serving node can   *)
(* hear yes from a command, or a command that does not recognise the       *)
(* serving node.                                                           *)
More(c, answering, known, f, d) ==
    IF c = Server THEN linked ELSE ~known /\ Server \in Yes(answering, f, d)

LEMMA CopiesExist ==
    ASSUME CycleInv, NEW c \in Cyclers, NEW answering \in SUBSET Connected(c),
           NEW known \in BOOLEAN, NEW f, NEW d \in held
    PROVE  Copies(c, answering, known, f, d)
             <= TrueCopies(d) + (IF More(c, answering, known, f, d) THEN 1 ELSE 0)
<1> DEFINE Keepers == {h \in Helpers : d \in kept[h]}
           Y       == Yes(answering, f, d)
           other   == IF c = Command THEN Server ELSE Command
<1>1. TypeOK /\ IsFiniteSet(answering) /\ IsFiniteSet(Helpers)
  BY ConnectedIs, RepairAssumption DEF CycleInv, RepairInv, RepairAssumption
<1>2. IsFiniteSet(Keepers) /\ Cardinality(Keepers) \in Nat
  <2>1. Keepers \in SUBSET Helpers
    OBVIOUS
  <2>2. QED  BY <1>1, <2>1, FS_Subset, FS_CardinalityType
<1>3. IsFiniteSet(Y) /\ Cardinality(Y) \in Nat
  <2>1. Y \in SUBSET answering
    BY DEF Yes
  <2>2. QED  BY <1>1, <2>1, FS_Subset, FS_CardinalityType
<1>4. Y \ {other} \subseteq Keepers
  <2> SUFFICES ASSUME NEW p \in Y, p # other PROVE p \in Keepers
    OBVIOUS
  <2>1. p \in answering /\ SaysHave(p, f, d)
    BY DEF Yes
  <2>2. p \in Helpers
    BY <1>1, <2>1 DEF Connected, TypeOK, Cyclers
  <2>3. QED  BY <2>1, <2>2 DEF SaysHave
<1>5. Cardinality(Y \ {other}) <= Cardinality(Keepers)
  BY <1>2, <1>4, FS_Subset
<1>6. Cardinality(Y \ {other}) =
        IF other \in Y THEN Cardinality(Y) - 1 ELSE Cardinality(Y)
  BY <1>3, FS_RemoveElement
<1>7. TrueCopies(d) = 1 + Cardinality(Keepers)
  BY DEF TrueCopies, Machine
<1>8. CASE c = Command
  <2>1. other = Server /\ c # Server
    BY <1>8, RepairAssumption DEF RepairAssumption
  <2>2. Copies(c, answering, known, f, d)
          = Cardinality(Y) + IF known /\ Server \in Y THEN 0 ELSE 1
    BY <1>8 DEF Copies
  <2>3. More(c, answering, known, f, d) <=> ~known /\ Server \in Y
    BY <2>1 DEF More
  <2> HIDE DEF Y, Keepers, other
  <2>4. QED  BY <1>2, <1>3, <1>5, <1>6, <1>7, <2>1, <2>2, <2>3
<1>9. CASE c = Server
  <2>1. other = Command /\ c # Command
    BY <1>9, RepairAssumption DEF RepairAssumption
  <2>2. Copies(c, answering, known, f, d) = Cardinality(Y) + 1
    BY <2>1 DEF Copies
  <2>3. Command \in Y => linked
    <3>1. Command \notin up
      BY <1>1, RepairAssumption DEF RepairAssumption, TypeOK, Cyclers
    <3>2. QED  BY <2>1, <3>1 DEF Yes, Connected
  <2>4. More(c, answering, known, f, d) <=> linked
    BY <1>9 DEF More
  <2> HIDE DEF Y, Keepers, other
  <2>5. QED  BY <1>2, <1>3, <1>5, <1>6, <1>7, <2>1, <2>2, <2>3, <2>4
<1>10. QED  BY <1>8, <1>9 DEF Cyclers

(* A step that takes a cycler from its list to a push is its check. *)
LEMMA PushesAfterCheck ==
    ASSUME CycleInv, [Next]_vars, NEW c \in Cyclers,
           cyc[c].pc = "scan", cyc'[c].pc = "push"
    PROVE  CheckFile(c)
<1>1. cyc \in [Cyclers -> Cycle]
  BY DEF CycleInv, RepairInv, TypeOK
<1>2. ASSUME NEW x \in Cyclers, RepairOnce(x) \/ Crash(x), x # c PROVE FALSE
  <2>1. \E r : cyc' = [cyc EXCEPT ![x] = r]
    BY <1>1, <1>2
    DEF RepairOnce, Crash, Begin, NothingToDo, Skip, CheckFile, Push, FileDone,
        CycleDone, Interrupted, Return
  <2>2. QED  BY <1>1, <1>2, <2>1
<1>3. ASSUME RepairOnce(c) \/ Crash(c), ~CheckFile(c) PROVE FALSE
  <2>1. Idle.pc = "idle"
    BY DEF Idle
  <2>2. CASE Begin(c)
    BY <2>2 DEF Begin
  <2>3. CASE Skip(c)
    <3>1. Examined(c).pc = "scan"
      BY <2>3, ExaminedIs DEF Skip, CycleInv, RepairInv
    <3>2. QED  BY <1>1, <2>3, <3>1 DEF Skip
  <2>4. ASSUME NEW p \in Peers, Push(c, p) PROVE FALSE
    BY <2>4 DEF Push
  <2>5. CASE FileDone(c)
    BY <2>5 DEF FileDone, Pushed
  <2>6. CASE Return(c) \/ Crash(c)
    BY <1>1, <2>1, <2>6 DEF Return, Crash
  <2>7. CASE NothingToDo(c)
    BY <2>7 DEF NothingToDo
  <2>8. QED
    BY <1>3, <2>2, <2>3, <2>4, <2>5, <2>6, <2>7 DEF RepairOnce, CycleDone, Interrupted
<1>4. cyc' # cyc
  OBVIOUS
<1>5. QED
  BY <1>2, <1>3, <1>4
  DEF Next, vars, StartCommand, Unlink, Store, Delete, Reclaim, Join, Leave,
      LoseCopy

(* What a check does not ask for exists. *)
LEMMA CheckHonest ==
    ASSUME CycleInv, NEW c \in Cyclers, CheckFile(c)
    PROVE  cyc'[c].need + TrueCopies(cyc'[c].digest)
             + (IF TakenForMore(c) THEN 1 ELSE 0) >= Target
<1> DEFINE f == Next1(c)
           d == cyc[c].files[f]
           spared(known) == IF c = Command /\ known THEN {Server} ELSE {}
           r(answering, known) ==
             [Examined(c) EXCEPT
                !.pc = "push", !.seen = @ \cup {d}, !.digest = d,
                !.need = IF Copies(c, answering, known, f, d) < Target
                           THEN Target - Copies(c, answering, known, f, d) ELSE 0,
                !.lacking = answering \ (Yes(answering, f, d) \cup spared(known)),
                !.unsure = ~known]
<1>1. PICK answering \in SUBSET Connected(c), known \in BOOLEAN :
        /\ ~known => c = Command /\ Server \in answering
        /\ cyc' = [cyc EXCEPT ![c] = r(answering, known)]
  BY DEF CheckFile
<1> DEFINE copies == Copies(c, answering, known, f, d)
           more   == More(c, answering, known, f, d)
<1>2. TypeOK /\ MayExamine(c) /\ d \in held
  BY DEF CycleInv, RepairInv, CheckFile
<1>3. Examined(c) \in Cycle
  BY <1>2, ExaminedIs
<1>4. /\ cyc'[c].digest = d
      /\ cyc'[c].need = IF copies < Target THEN Target - copies ELSE 0
      /\ cyc'[c].lacking = answering \ (Yes(answering, f, d) \cup spared(known))
      /\ cyc'[c].unsure = ~known
  BY <1>1, <1>2, <1>3 DEF TypeOK, Cycle
<1>5. copies <= TrueCopies(d) + (IF more THEN 1 ELSE 0)
  BY <1>2, CopiesExist
<1>6. copies \in Nat /\ Target \in Nat
  BY <1>2, CopiesType, RepairAssumption DEF RepairAssumption
<1>7. TrueCopies(d) \in Nat
  <2>1. {h \in Helpers : d \in kept[h]} \in SUBSET Helpers
    OBVIOUS
  <2>2. Cardinality({h \in Helpers : d \in kept[h]}) \in Nat
    BY <2>1, FS_Subset, FS_CardinalityType, RepairAssumption DEF RepairAssumption
  <2>3. QED  BY <2>2 DEF TrueCopies, Machine
<1>8. more => TakenForMore(c)
  BY <1>4 DEF More, TakenForMore
<1> HIDE DEF d, copies, more
<1>9. QED  BY <1>4, <1>5, <1>6, <1>7, <1>8

(* repair.go:283-285 for any number of helpers: no copy is counted twice,  *)
(* so what a check does not ask for exists, but for one copy: of a command *)
(* the serving node is connected to, or of storage a command counts twice  *)
(* since it did not recognise the node it belongs to.                      *)
THEOREM CopiesAreReal == Spec => CountsHonest
<1> DEFINE Honest ==
      \A c \in Cyclers :
         cyc[c].pc = "scan" /\ cyc'[c].pc = "push" =>
           cyc'[c].need + TrueCopies(cyc'[c].digest)
             + (IF TakenForMore(c) THEN 1 ELSE 0) >= Target
<1>1. CycleInv /\ [Next]_vars => [Honest]_vars
  BY PushesAfterCheck, CheckHonest
<1>2. QED  BY <1>1, CycleInit, CycleStep, PTL DEF Spec, CountsHonest

-----------------------------------------------------------------------------
(* The start-up of processes.                                              *)

(* Initially nothing is stored. *)
LEMMA KeyInvInit == StartInit => KeyInv
  BY KeyAssumption
  DEF StartInit, KeyInv, StartTypeOK, Nothing, Slots,
         StoredFilesUsable, KeyAssumption

(* Every step keeps the invariant: one case per action. *)
LEMMA KeyInvStep == KeyInv /\ [StartNext]_startVars => KeyInv'
<1> SUFFICES ASSUME KeyInv, [StartNext]_startVars PROVE KeyInv'
  OBVIOUS
<1> USE KeyAssumption
        DEF KeyAssumption, KeyInv, StartTypeOK, Nothing, Slots,
            StoredFilesUsable, Holds, InsertIfAbsent
<1>1. ASSUME NEW p \in Processes, Start(p) PROVE KeyInv'
  BY <1>1 DEF Start
<1>2. ASSUME NEW p \in Processes, GetKey(p) PROVE KeyInv'
  BY <1>2 DEF GetKey
<1>3. ASSUME NEW p \in Processes, Generate(p) PROVE KeyInv'
  BY <1>3 DEF Generate
<1>4. ASSUME NEW p \in Processes, putKeyIfAbsent(p) PROVE KeyInv'
  BY <1>4 DEF putKeyIfAbsent
<1>5. ASSUME NEW p \in Processes, PutNodeId(p) PROVE KeyInv'
  BY <1>5 DEF PutNodeId
<1>6. ASSUME NEW p \in Processes, StoreFile(p) PROVE KeyInv'
  BY <1>6 DEF StoreFile
<1>7. ASSUME NEW p \in Processes, Exit(p) PROVE KeyInv'
  BY <1>7 DEF Exit
<1>8. CASE UNCHANGED startVars
  BY <1>8 DEF startVars
<1>9. QED
  BY <1>1, <1>2, <1>3, <1>4, <1>5, <1>6, <1>7, <1>8 DEF StartNext

(* The invariant holds of every behaviour. *)
THEOREM KeyInvariant == StartSpec => []KeyInv
<1>1. QED  BY KeyInvInit, KeyInvStep, PTL DEF StartSpec

(* repo.go:560-573, cmd_helpers.go:91-93 for any number of processes:      *)
(* every stored file is encrypted under the one key, and owned by the one  *)
(* identity, that later processes load.                                    *)
THEOREM FilesStayUsable == StartSpec => []StoredFilesUsable
<1>1. KeyInv => StoredFilesUsable
  BY DEF KeyInv
<1>2. QED  BY <1>1, KeyInvariant, PTL

(* The recorded node id is that of the identity key. *)
THEOREM NodeIdRecorded == StartSpec => []NodeIdFollowsKey
<1>1. KeyInv => NodeIdFollowsKey
  BY KeyAssumption DEF KeyInv, NodeIdFollowsKey, StartTypeOK, Slots, KeyAssumption
<1>2. QED  BY <1>1, KeyInvariant, PTL

(* Initial states of the database are initial states of the register. *)
LEMMA RegisterInit == StartInit => Register!Init
  BY DEF StartInit, Nothing, Register!Init

(* Loading a key is learning it, inserting one is proposing it, exiting is *)
(* stopping; nothing else touches the register.                            *)
LEMMA RegisterStep ==
    KeyInv /\ [StartNext]_startVars => [Register!Next]_<<keys, heldKeys>>
<1> SUFFICES ASSUME KeyInv, [StartNext]_startVars
             PROVE  [Register!Next]_<<keys, heldKeys>>
  OBVIOUS
<1>1. ASSUME NEW p \in Processes, GetKey(p) PROVE Register!Next
  <2>1. slot[p] \in Slots
    BY DEF KeyInv, StartTypeOK
  <2>2. Register!Learn(p, slot[p])
    BY <1>1 DEF GetKey, Holds, Register!Learn
  <2>3. QED  BY <2>1, <2>2 DEF Register!Next
<1>2. ASSUME NEW p \in Processes, putKeyIfAbsent(p) PROVE Register!Next
  <2>1. slot[p] \in Slots /\ made[p] \in Values
    BY <1>2 DEF putKeyIfAbsent, KeyInv, StartTypeOK
  <2>2. Register!Propose(p, slot[p], made[p])
    BY <1>2 DEF putKeyIfAbsent, Holds, InsertIfAbsent, Register!Propose
  <2>3. QED  BY <2>1, <2>2 DEF Register!Next
<1>3. ASSUME NEW p \in Processes, Exit(p) PROVE Register!Next
  <2>1. Register!Stop(p)
    BY <1>3 DEF Exit, Nothing, Register!Stop
  <2>2. QED  BY <2>1 DEF Register!Next
<1>4. CASE UNCHANGED <<keys, heldKeys>>
  BY <1>4
<1>5. QED
  BY <1>1, <1>2, <1>3, <1>4
  DEF StartNext, Start, Generate, PutNodeId, StoreFile, startVars

(* Start-up implements the write-once register. *)
THEOREM KeysAreWrittenOnce == StartSpec => RegisterSpec
<1>1. QED
  BY RegisterInit, RegisterStep, KeyInvariant, PTL
  DEF StartSpec, RegisterSpec, Register!Spec
=============================================================================
