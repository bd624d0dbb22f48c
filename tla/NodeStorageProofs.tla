------------------------- MODULE NodeStorageProofs -------------------------
(***************************************************************************)
(* What holds of NodeStorage for every set of names, digests, commands and *)
(* sweepers: the types, and that the grace period protects everything but  *)
(* contents stored again while a collector already holds them condemned.   *)
(***************************************************************************)
EXTENDS NodeStorage, TLAPS

(* Every step keeps the types and the arguments of writers: one case per   *)
(* action. The two go together, because what a call writes is its argument.*)
LEMMA TypeStep ==
    TypeOK /\ ArgumentsSet /\ [Next]_vars => (TypeOK /\ ArgumentsSet)'
<1> SUFFICES ASSUME TypeOK, ArgumentsSet, [Next]_vars PROVE (TypeOK /\ ArgumentsSet)'
  OBVIOUS
<1> USE ConstantsAssumption
        DEF ConstantsAssumption, TypeOK, ArgumentsSet, Phases, FileNames, Actors,
            Writers, database, storage, args,
            Goto, Return, Call
<1>1. ASSUME NEW c \in Commands, NEW o \in Offers, Store(c, o) PROVE (TypeOK /\ ArgumentsSet)'
  BY <1>1 DEF Store
<1>2. ASSUME NEW o \in Offers, HandleStream(o) PROVE (TypeOK /\ ArgumentsSet)'
  BY <1>2 DEF HandleStream
<1>3. ASSUME NEW w \in Writers, Stall(w) PROVE (TypeOK /\ ArgumentsSet)'
  BY <1>3 DEF Stall
<1>4. ASSUME NEW w \in Writers, CopyDone(w) PROVE (TypeOK /\ ArgumentsSet)'
  BY <1>4 DEF CopyDone
<1>5. ASSUME NEW w \in Writers, CopyFails(w) PROVE (TypeOK /\ ArgumentsSet)'
  BY <1>5 DEF CopyFails
<1>6. ASSUME NEW w \in Writers, RenameFails(w) PROVE (TypeOK /\ ArgumentsSet)'
  BY <1>6 DEF RenameFails
<1>7. ASSUME NEW w \in Writers, Rename(w) PROVE (TypeOK /\ ArgumentsSet)'
  BY <1>7 DEF Rename, Condemned
<1>8. ASSUME NEW c \in Commands, ClearDeletion(c) PROVE (TypeOK /\ ArgumentsSet)'
  BY <1>8 DEF ClearDeletion
<1>9. ASSUME NEW c \in Commands, RecordFile(c) PROVE (TypeOK /\ ArgumentsSet)'
  BY <1>9 DEF RecordFile
<1>10. ASSUME RecordReplica PROVE (TypeOK /\ ArgumentsSet)'
  BY <1>10 DEF RecordReplica
<1>11. ASSUME NEW c \in Commands, NEW n \in Requested, Delete(c, n) PROVE (TypeOK /\ ArgumentsSet)'
  BY <1>11 DEF Delete, Resolved
<1>12. ASSUME NEW n \in Requested, NEW d \in Digests \cup {None}, HandleDelete(n, d) PROVE (TypeOK /\ ArgumentsSet)'
  BY <1>12 DEF HandleDelete
<1>13. ASSUME NEW w \in Writers, ForgetNothing(w) PROVE (TypeOK /\ ArgumentsSet)'
  BY <1>13 DEF ForgetNothing
<1>14. ASSUME NEW w \in Writers, NEW h \in Digests, ForgetRow(w, h) PROVE (TypeOK /\ ArgumentsSet)'
  BY <1>14 DEF ForgetRow, RemoveRow
<1>15. ASSUME NEW w \in Writers, ReclaimCheck(w) PROVE (TypeOK /\ ArgumentsSet)'
  BY <1>15 DEF ReclaimCheck, Unreachable
<1>16. ASSUME NEW s \in Sweepers, SweepCheck(s) PROVE (TypeOK /\ ArgumentsSet)'
  BY <1>16 DEF SweepCheck, Unreachable
<1>17. ASSUME NEW a \in Actors, Judge(a) PROVE (TypeOK /\ ArgumentsSet)'
  BY <1>17 DEF Judge, Expendable
<1>18. ASSUME NEW a \in Actors, NEW d \in Digests, Unlink(a, d) PROVE (TypeOK /\ ArgumentsSet)'
  BY <1>18 DEF Unlink
<1>19. ASSUME NEW w \in Writers, ReclaimDone(w) PROVE (TypeOK /\ ArgumentsSet)'
  BY <1>19 DEF ReclaimDone
<1>20. ASSUME NEW s \in Sweepers, SweepBlobsDone(s) PROVE (TypeOK /\ ArgumentsSet)'
  BY <1>20 DEF SweepBlobsDone
<1>21. ASSUME NEW s \in Sweepers, PruneDeletions(s) PROVE (TypeOK /\ ArgumentsSet)'
  BY <1>21 DEF PruneDeletions
<1>22. ASSUME NEW s \in Sweepers, RemoveStaleTemporaries(s) PROVE (TypeOK /\ ArgumentsSet)'
  BY <1>22 DEF RemoveStaleTemporaries
<1>23. ASSUME NEW a \in Actors, Crash(a) PROVE (TypeOK /\ ArgumentsSet)'
  <2>1. temp' \in [Writers -> {"none", "fresh", "stale"}] /\ litter' \subseteq {"fresh", "stale"}
    <3>1. CASE a \in Writers /\ pc[a] \in {"copy", "rename"}
      <4>1. temp[a] \in {"none", "fresh", "stale"}
        BY <3>1
      <4>2. temp' = [temp EXCEPT ![a] = "none"] /\ litter' = litter \cup ({temp[a]} \ {"none"})
        BY <1>23, <3>1 DEF Crash
      <4>3. QED  BY <4>1, <4>2
    <3>2. CASE ~(a \in Writers /\ pc[a] \in {"copy", "rename"})
      BY <1>23, <3>2 DEF Crash
    <3>3. QED  BY <3>1, <3>2
  <2>2. QED  BY <1>23, <2>1 DEF Crash
<1>24. ASSUME NEW d \in Digests, Age(d) PROVE (TypeOK /\ ArgumentsSet)'
  BY <1>24 DEF Age
<1>25. ASSUME AgeLitter PROVE (TypeOK /\ ArgumentsSet)'
  BY <1>25 DEF AgeLitter
<1>26. CASE UNCHANGED vars
  BY <1>26 DEF vars
<1>27. QED
  BY <1>1, <1>2, <1>3, <1>4, <1>5, <1>6, <1>7, <1>8, <1>9, <1>10, <1>11, <1>12, <1>13, <1>14, <1>15, <1>16, <1>17, <1>18, <1>19, <1>20, <1>21, <1>22, <1>23, <1>24, <1>25, <1>26
  DEF Next, Command, ServerLoop, Writing, Forgetting, Reclaiming, SweepOrphans

(* Initially nothing is stored, recorded or condemned. *)
LEMMA InvInit == Init => StorageInv
  BY ConstantsAssumption
  DEF ConstantsAssumption, Init, StorageInv, TypeOK, ArgumentsSet, Phases,
      NamesBackedUnlessRaced, WrittenIsRecent, JudgedLater, CondemnedIsOrphan,
      FileNames, Actors, Writers, Referenced, BeingRecorded, Condemned

(* Every step keeps the four clauses about contents. *)
LEMMA InvStep == StorageInv /\ [Next]_vars => StorageInv'
<1> SUFFICES ASSUME StorageInv, [Next]_vars PROVE StorageInv'
  OBVIOUS
<1>a. TypeOK /\ ArgumentsSet /\ TypeOK' /\ ArgumentsSet'
  BY TypeStep DEF StorageInv
<1> USE ConstantsAssumption, <1>a
        DEF ConstantsAssumption, StorageInv, TypeOK, ArgumentsSet, Phases, FileNames, Actors,
            Writers, database, storage, args, Goto, Return, Call,
            NamesBackedUnlessRaced, WrittenIsRecent, JudgedLater, CondemnedIsOrphan,
            Referenced, BeingRecorded, Condemned, Has
<1>1. ASSUME NEW c \in Commands, NEW o \in Offers, Store(c, o) PROVE StorageInv'
  BY <1>1 DEF Store
<1>2. ASSUME NEW o \in Offers, HandleStream(o) PROVE StorageInv'
  BY <1>2 DEF HandleStream
<1>3. ASSUME NEW w \in Writers, Stall(w) PROVE StorageInv'
  BY <1>3 DEF Stall
<1>4. ASSUME NEW w \in Writers, CopyDone(w) PROVE StorageInv'
  BY <1>4 DEF CopyDone
<1>5. ASSUME NEW w \in Writers, CopyFails(w) PROVE StorageInv'
  BY <1>5 DEF CopyFails
<1>6. ASSUME NEW w \in Writers, RenameFails(w) PROVE StorageInv'
  BY <1>6 DEF RenameFails
<1>7. ASSUME NEW w \in Writers, Rename(w) PROVE StorageInv'
  <2>1. NamesBackedUnlessRaced'
    BY <1>7 DEF Rename
  <2>2. WrittenIsRecent'
    BY <1>7 DEF Rename
  <2>3. JudgedLater'
    BY <1>7 DEF Rename
  <2>4. CondemnedIsOrphan'
    BY <1>7 DEF Rename
  <2>5. QED  BY <2>1, <2>2, <2>3, <2>4
<1>8. ASSUME NEW c \in Commands, ClearDeletion(c) PROVE StorageInv'
  BY <1>8 DEF ClearDeletion
<1>9. ASSUME NEW c \in Commands, RecordFile(c) PROVE StorageInv'
  <2>1. NamesBackedUnlessRaced'
    BY <1>9 DEF RecordFile
  <2>2. WrittenIsRecent'
    BY <1>9 DEF RecordFile
  <2>3. JudgedLater'
    BY <1>9 DEF RecordFile
  <2>4. CondemnedIsOrphan'
    BY <1>9 DEF RecordFile
  <2>5. QED  BY <2>1, <2>2, <2>3, <2>4
<1>10. ASSUME RecordReplica PROVE StorageInv'
  <2>1. NamesBackedUnlessRaced'
    BY <1>10 DEF RecordReplica
  <2>2. WrittenIsRecent'
    BY <1>10 DEF RecordReplica
  <2>3. JudgedLater'
    BY <1>10 DEF RecordReplica
  <2>4. CondemnedIsOrphan'
    BY <1>10 DEF RecordReplica
  <2>5. QED  BY <2>1, <2>2, <2>3, <2>4
<1>11. ASSUME NEW c \in Commands, NEW n \in Requested, Delete(c, n) PROVE StorageInv'
  BY <1>11 DEF Delete
<1>12. ASSUME NEW n \in Requested, NEW d \in Digests \cup {None}, HandleDelete(n, d) PROVE StorageInv'
  BY <1>12 DEF HandleDelete
<1>13. ASSUME NEW w \in Writers, ForgetNothing(w) PROVE StorageInv'
  BY <1>13 DEF ForgetNothing
<1>14. ASSUME NEW w \in Writers, NEW h \in Digests, ForgetRow(w, h) PROVE StorageInv'
  <2>1. NamesBackedUnlessRaced'
    BY <1>14 DEF ForgetRow, RemoveRow
  <2>2. WrittenIsRecent'
    BY <1>14 DEF ForgetRow, RemoveRow
  <2>3. JudgedLater'
    BY <1>14 DEF ForgetRow, RemoveRow
  <2>4. CondemnedIsOrphan'
    BY <1>14 DEF ForgetRow, RemoveRow
  <2>5. QED  BY <2>1, <2>2, <2>3, <2>4
<1>15. ASSUME NEW w \in Writers, ReclaimCheck(w) PROVE StorageInv'
  <2>1. NamesBackedUnlessRaced'
    BY <1>15 DEF ReclaimCheck, Unreachable
  <2>2. WrittenIsRecent'
    BY <1>15 DEF ReclaimCheck, Unreachable
  <2>3. JudgedLater'
    BY <1>15 DEF ReclaimCheck, Unreachable
  <2>4. CondemnedIsOrphan'
    BY <1>15 DEF ReclaimCheck, Unreachable
  <2>5. QED  BY <2>1, <2>2, <2>3, <2>4
<1>16. ASSUME NEW s \in Sweepers, SweepCheck(s) PROVE StorageInv'
  <2>1. NamesBackedUnlessRaced'
    BY <1>16 DEF SweepCheck, Unreachable
  <2>2. WrittenIsRecent'
    BY <1>16 DEF SweepCheck, Unreachable
  <2>3. JudgedLater'
    BY <1>16 DEF SweepCheck, Unreachable
  <2>4. CondemnedIsOrphan'
    BY <1>16 DEF SweepCheck, Unreachable
  <2>5. QED  BY <2>1, <2>2, <2>3, <2>4
<1>17. ASSUME NEW a \in Actors, Judge(a) PROVE StorageInv'
  <2>1. NamesBackedUnlessRaced'
    BY <1>17 DEF Judge, Expendable
  <2>2. WrittenIsRecent'
    BY <1>17 DEF Judge, Expendable
  <2>3. JudgedLater'
    BY <1>17 DEF Judge, Expendable
  <2>4. CondemnedIsOrphan'
    BY <1>17 DEF Judge, Expendable
  <2>5. QED  BY <2>1, <2>2, <2>3, <2>4
<1>18. ASSUME NEW a \in Actors, NEW d \in Digests, Unlink(a, d) PROVE StorageInv'
  <2>1. NamesBackedUnlessRaced'
    BY <1>18 DEF Unlink
  <2>2. WrittenIsRecent'
    BY <1>18 DEF Unlink
  <2>3. JudgedLater'
    BY <1>18 DEF Unlink
  <2>4. CondemnedIsOrphan'
    BY <1>18 DEF Unlink
  <2>5. QED  BY <2>1, <2>2, <2>3, <2>4
<1>19. ASSUME NEW w \in Writers, ReclaimDone(w) PROVE StorageInv'
  BY <1>19 DEF ReclaimDone
<1>20. ASSUME NEW s \in Sweepers, SweepBlobsDone(s) PROVE StorageInv'
  BY <1>20 DEF SweepBlobsDone
<1>21. ASSUME NEW s \in Sweepers, PruneDeletions(s) PROVE StorageInv'
  BY <1>21 DEF PruneDeletions
<1>22. ASSUME NEW s \in Sweepers, RemoveStaleTemporaries(s) PROVE StorageInv'
  BY <1>22 DEF RemoveStaleTemporaries
<1>23. ASSUME NEW a \in Actors, Crash(a) PROVE StorageInv'
  BY <1>23 DEF Crash
<1>24. ASSUME NEW d \in Digests, Age(d) PROVE StorageInv'
  <2>1. NamesBackedUnlessRaced'
    BY <1>24 DEF Age
  <2>2. WrittenIsRecent'
    BY <1>24 DEF Age
  <2>3. JudgedLater'
    BY <1>24 DEF Age
  <2>4. CondemnedIsOrphan'
    BY <1>24 DEF Age
  <2>5. QED  BY <2>1, <2>2, <2>3, <2>4
<1>25. ASSUME AgeLitter PROVE StorageInv'
  BY <1>25 DEF AgeLitter
<1>26. CASE UNCHANGED vars
  BY <1>26 DEF vars
<1>27. QED
  BY <1>1, <1>2, <1>3, <1>4, <1>5, <1>6, <1>7, <1>8, <1>9, <1>10, <1>11, <1>12, <1>13, <1>14, <1>15, <1>16, <1>17, <1>18, <1>19, <1>20, <1>21, <1>22, <1>23, <1>24, <1>25, <1>26
  DEF Next, Command, ServerLoop, Writing, Forgetting, Reclaiming, SweepOrphans

-----------------------------------------------------------------------------
(* The invariant holds of every behaviour.                                 *)
THEOREM StorageInvariant == Spec => []StorageInv
<1>1. Init => StorageInv
  BY InvInit
<1>2. StorageInv /\ [Next]_vars => StorageInv'
  BY InvStep
<1>3. QED  BY <1>1, <1>2, PTL DEF Spec

(* Every variable keeps its type. *)
THEOREM TypeCorrect == Spec => []TypeOK
<1>1. StorageInv => TypeOK
  BY DEF StorageInv
<1>2. QED  BY <1>1, StorageInvariant, PTL

(* repair.go:41-48, whatever the names, digests, commands and sweepers: a  *)
(* recorded name loses its contents only if they were stored again while a *)
(* collector already held them condemned.                                  *)
THEOREM NamesBacked == Spec => []NamesBackedUnlessRaced
<1>1. StorageInv => NamesBackedUnlessRaced
  BY DEF StorageInv
<1>2. QED  BY <1>1, StorageInvariant, PTL

(* One step removes only aged orphans, or raced contents. *)
LEMMA GraceStep ==
    ASSUME StorageInv, [Next]_vars, NEW d \in Digests, Has(d), ~Has(d)'
    PROVE  disk[d] = "old" \/ d \in raced
<1> USE DEF Has
<1>1. TypeOK /\ CondemnedIsOrphan
  BY DEF StorageInv
<1>2. CASE \E a \in Actors, e \in Digests : Unlink(a, e)
  <2>1. PICK a \in Actors, e \in Digests : Unlink(a, e)
    BY <1>2
  <2>2. d = e
    BY <1>1, <2>1 DEF Unlink, TypeOK
  <2>3. Condemned(d)
    BY <2>1, <2>2 DEF Unlink, Condemned
  <2>4. disk[d] # "recent" \/ d \in raced
    BY <1>1, <2>3 DEF CondemnedIsOrphan
  <2>5. QED  BY <1>1, <2>4 DEF TypeOK
<1>3. CASE \E w \in Writers : Rename(w)
  BY <1>1, <1>3 DEF Rename, TypeOK
<1>4. CASE \E e \in Digests : Age(e)
  BY <1>1, <1>4 DEF Age, TypeOK
<1>5. CASE UNCHANGED disk
  BY <1>5
<1>6. QED
  BY <1>2, <1>3, <1>4, <1>5
  DEF Actors, Writers, Next, Command, ServerLoop, Writing, Forgetting, Reclaiming, SweepOrphans, vars,
      database, storage, Store, HandleStream, Stall, CopyDone, CopyFails, RenameFails,
      ClearDeletion, RecordFile, RecordReplica, Delete, HandleDelete, ForgetNothing,
      ForgetRow, ReclaimCheck, SweepCheck, Judge, ReclaimDone, SweepBlobsDone,
      PruneDeletions, RemoveStaleTemporaries, Crash, AgeLitter

(* No step unlinks contents younger than the grace period, races aside. *)
THEOREM GraceRespected == Spec => GraceHolds
<1>1. StorageInv /\ [Next]_vars =>
        [\A d \in Digests : Has(d) /\ ~Has(d)' => disk[d] = "old" \/ d \in raced]_vars
  BY GraceStep
<1>2. QED  BY <1>1, StorageInvariant, PTL DEF Spec, GraceHolds

(* server.go:286-288 for every instance: a step of the loop never repoints *)
(* a name to other contents.                                               *)
LEMMA RepointStep ==
    ASSUME StorageInv, [Next]_vars, NEW n \in FileNames,
           names[n] # None, names'[n] \notin {None, names[n]}
    PROVE  pc'[Loop] = pc[Loop]
<1>1. TypeOK /\ ArgumentsSet
  BY DEF StorageInv
<1>2. CASE \E c \in Commands : RecordFile(c)
  BY <1>1, <1>2, ConstantsAssumption
  DEF RecordFile, Return, Goto, TypeOK, ConstantsAssumption, Actors, Writers
<1>3. CASE RecordReplica
  <2>1. dig[Loop] \in Digests /\ names[n] \in Digests
    BY <1>1, <1>3 DEF RecordReplica, ArgumentsSet, TypeOK, Writers
  <2>2. names' = names \/ names' = [names EXCEPT ![name[Loop]] = dig[Loop]]
    BY <1>3 DEF RecordReplica
  <2>3. names'[n] = dig[Loop] /\ n = name[Loop] /\ ~NameTaken(name[Loop], dig[Loop])
    BY <1>1, <1>3, <2>2 DEF RecordReplica, TypeOK
  <2>4. names[n] = dig[Loop]
    BY <2>1, <2>3 DEF NameTaken, Refers
  <2>5. QED  BY <2>3, <2>4
<1>4. CASE \E w \in Writers, h \in Digests : ForgetRow(w, h)
  BY <1>1, <1>4 DEF ForgetRow, RemoveRow, TypeOK
<1>5. CASE UNCHANGED names
  BY <1>5
<1>6. QED
  BY <1>2, <1>3, <1>4, <1>5
  DEF Next, Command, ServerLoop, Writing, Forgetting, Reclaiming, SweepOrphans, vars,
      database, Store, HandleStream, Stall, CopyDone, CopyFails, RenameFails, Rename,
      ClearDeletion, Delete, HandleDelete, ForgetNothing, Unlink, Age,
      ReclaimCheck, SweepCheck, Judge, ReclaimDone, SweepBlobsDone,
      PruneDeletions, RemoveStaleTemporaries, Crash, AgeLitter

(* A copy received from a peer never repoints a name of this node. *)
THEOREM NeverRepoints == Spec => ReplicaNeverRepoints
<1>1. StorageInv /\ [Next]_vars =>
        [\A n \in FileNames :
           names[n] # None /\ names'[n] \notin {None, names[n]} => pc'[Loop] = pc[Loop]]_vars
  BY RepointStep
<1>2. QED  BY <1>1, StorageInvariant, PTL DEF Spec, ReplicaNeverRepoints
-----------------------------------------------------------------------------
(* No tombstone, no writer: the clauses about deletions hold at first.     *)
LEMMA TombstoneInit == Init => TombstoneInv
  BY InvInit
  DEF TombstoneInv, WritersChecked, PastCheck, TombstoneHolds, Init, Writers, Actors

(* Every step keeps them: whatever writes a tombstone under a writer that  *)
(* has looked already marks it as overtaken, as does a look that fails.    *)
LEMMA TombstoneStep ==
    ASSUME TombstoneInv, [Next]_vars
    PROVE  TombstoneInv'
<1>a. StorageInv' /\ TypeOK /\ ArgumentsSet /\ TypeOK'
  BY InvStep DEF TombstoneInv, StorageInv
<1> USE ConstantsAssumption, <1>a
        DEF ConstantsAssumption, TombstoneInv, TypeOK, ArgumentsSet, Phases, FileNames, Actors,
            Writers, database, storage, args, Goto, Return, Call, WritersChecked, PastCheck,
            TombstoneHolds, Refers, NameTaken
<1>1. ASSUME NEW c \in Commands, NEW o \in Offers, Store(c, o) PROVE (WritersChecked /\ TombstoneHolds)'
  BY <1>1 DEF Store
<1>2. ASSUME NEW o \in Offers, HandleStream(o) PROVE (WritersChecked /\ TombstoneHolds)'
  BY <1>2 DEF HandleStream
<1>3. ASSUME NEW w \in Writers, Stall(w) PROVE (WritersChecked /\ TombstoneHolds)'
  BY <1>3 DEF Stall
<1>4. ASSUME NEW w \in Writers, CopyDone(w) PROVE (WritersChecked /\ TombstoneHolds)'
  BY <1>4 DEF CopyDone
<1>5. ASSUME NEW w \in Writers, CopyFails(w) PROVE (WritersChecked /\ TombstoneHolds)'
  BY <1>5 DEF CopyFails
<1>6. ASSUME NEW w \in Writers, RenameFails(w) PROVE (WritersChecked /\ TombstoneHolds)'
  BY <1>6 DEF RenameFails
<1>7. ASSUME NEW w \in Writers, Rename(w) PROVE (WritersChecked /\ TombstoneHolds)'
  BY <1>7 DEF Rename
<1>8. ASSUME NEW c \in Commands, ClearDeletion(c) PROVE (WritersChecked /\ TombstoneHolds)'
  <2>1. WritersChecked'
    BY <1>8 DEF ClearDeletion
  <2>2. TombstoneHolds'
    BY <1>8 DEF ClearDeletion
  <2>3. QED  BY <2>1, <2>2
<1>9. ASSUME NEW c \in Commands, RecordFile(c) PROVE (WritersChecked /\ TombstoneHolds)'
  <2>1. WritersChecked'
    BY <1>9 DEF RecordFile
  <2>2. TombstoneHolds'
    BY <1>9 DEF RecordFile
  <2>3. QED  BY <2>1, <2>2
<1>10. ASSUME RecordReplica PROVE (WritersChecked /\ TombstoneHolds)'
  <2>1. WritersChecked'
    BY <1>10 DEF RecordReplica
  <2>2. TombstoneHolds'
    BY <1>10 DEF RecordReplica
  <2>3. QED  BY <2>1, <2>2
<1>11. ASSUME NEW c \in Commands, NEW n \in Requested, Delete(c, n) PROVE (WritersChecked /\ TombstoneHolds)'
  BY <1>11 DEF Delete
<1>12. ASSUME NEW n \in Requested, NEW d \in Digests \cup {None}, HandleDelete(n, d) PROVE (WritersChecked /\ TombstoneHolds)'
  BY <1>12 DEF HandleDelete
<1>13. ASSUME NEW w \in Writers, ForgetNothing(w) PROVE (WritersChecked /\ TombstoneHolds)'
  BY <1>13 DEF ForgetNothing
<1>14. ASSUME NEW w \in Writers, NEW h \in Digests, ForgetRow(w, h) PROVE (WritersChecked /\ TombstoneHolds)'
  <2>1. WritersChecked'
    BY <1>14 DEF ForgetRow, RemoveRow, Overtakes
  <2>2. TombstoneHolds'
    BY <1>14 DEF ForgetRow, RemoveRow, Overtakes
  <2>3. QED  BY <2>1, <2>2
<1>15. ASSUME NEW w \in Writers, ReclaimCheck(w) PROVE (WritersChecked /\ TombstoneHolds)'
  BY <1>15 DEF ReclaimCheck
<1>16. ASSUME NEW s \in Sweepers, SweepCheck(s) PROVE (WritersChecked /\ TombstoneHolds)'
  BY <1>16 DEF SweepCheck
<1>17. ASSUME NEW a \in Actors, Judge(a) PROVE (WritersChecked /\ TombstoneHolds)'
  BY <1>17 DEF Judge
<1>18. ASSUME NEW a \in Actors, NEW d \in Digests, Unlink(a, d) PROVE (WritersChecked /\ TombstoneHolds)'
  BY <1>18 DEF Unlink
<1>19. ASSUME NEW w \in Writers, ReclaimDone(w) PROVE (WritersChecked /\ TombstoneHolds)'
  BY <1>19 DEF ReclaimDone
<1>20. ASSUME NEW s \in Sweepers, SweepBlobsDone(s) PROVE (WritersChecked /\ TombstoneHolds)'
  BY <1>20 DEF SweepBlobsDone
<1>21. ASSUME NEW s \in Sweepers, PruneDeletions(s) PROVE (WritersChecked /\ TombstoneHolds)'
  <2>1. WritersChecked'
    BY <1>21 DEF PruneDeletions
  <2>2. TombstoneHolds'
    BY <1>21 DEF PruneDeletions
  <2>3. QED  BY <2>1, <2>2
<1>22. ASSUME NEW s \in Sweepers, RemoveStaleTemporaries(s) PROVE (WritersChecked /\ TombstoneHolds)'
  BY <1>22 DEF RemoveStaleTemporaries
<1>23. ASSUME NEW a \in Actors, Crash(a) PROVE (WritersChecked /\ TombstoneHolds)'
  BY <1>23 DEF Crash
<1>24. ASSUME NEW d \in Digests, Age(d) PROVE (WritersChecked /\ TombstoneHolds)'
  BY <1>24 DEF Age
<1>25. ASSUME AgeLitter PROVE (WritersChecked /\ TombstoneHolds)'
  BY <1>25 DEF AgeLitter
<1>26. CASE UNCHANGED vars
  BY <1>26 DEF vars
<1>27. QED
  BY <1>1, <1>2, <1>3, <1>4, <1>5, <1>6, <1>7, <1>8, <1>9, <1>10, <1>11, <1>12, <1>13, <1>14, <1>15, <1>16, <1>17, <1>18, <1>19, <1>20, <1>21, <1>22, <1>23, <1>24, <1>25, <1>26
  DEF Next, Command, ServerLoop, Writing, Forgetting, Reclaiming, SweepOrphans

(* server.go:166-184, for every instance: a user's name is held for        *)
(* contents whose deletion is remembered only if that deletion came while  *)
(* a writer of just that was past its look at the tombstones, or that look *)
(* (or, for a user's own file, the removal of the tombstone) failed.       *)
THEOREM DeletionsStick == Spec => []TombstoneHolds
<1>1. TombstoneInv /\ [Next]_vars => TombstoneInv'
  BY TombstoneStep
<1>2. TombstoneInv => TombstoneHolds
  BY DEF TombstoneInv
<1>3. QED  BY TombstoneInit, <1>1, <1>2, PTL DEF Spec
=============================================================================
