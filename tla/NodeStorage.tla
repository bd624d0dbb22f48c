---------------------------- MODULE NodeStorage ----------------------------
(***************************************************************************)
(* One machine's share of the store: the SQLite database that maps names   *)
(* to content digests, the directory of blobs the digests name, and the    *)
(* actors that work on both at once.                                       *)
(*                                                                         *)
(*   Commands   callers of Store and Delete: API goroutines, and one-shot  *)
(*              CLI processes that open the same database and directory    *)
(*   Loop       the server loop, which handles one message or one incoming *)
(*              stream at a time                                           *)
(*   Sweepers   the sweepLoop goroutines (every process runs one)          *)
(*                                                                         *)
(* Every database call is a transaction on a single connection and every   *)
(* file system call is atomic; between two calls any other actor may run.  *)
(* One action below is one such call, with the code up to the next one.    *)
(***************************************************************************)
EXTENDS FiniteSets, Naturals

CONSTANTS
    Names,        \* file names users choose
    Digests,      \* SHA-256 digests of contents
    None,         \* no digest, no name (the empty string)
    Commands, Loop, Sweepers,
    Offers,       \* the <<name, digest>> pairs users and peers store
    Requested,    \* the names users and peers delete
    MaxCrashes    \* bound: actors stopped half way, database calls failed

FileNames == Names \cup Digests
Writers   == Commands \cup {Loop}
Actors    == Writers \cup Sweepers

(* A row filed under a digest is named by that digest (recordReplica);     *)
(* users do not choose digests as names.                                   *)
ASSUME ConstantsAssumption ==
    /\ Names \cap Digests = {}
    /\ None \notin FileNames
    /\ Loop \notin Commands \cup Sweepers
    /\ Commands \cap Sweepers = {}
    /\ Offers \subseteq FileNames \X Digests
    /\ \A o \in Offers : o[1] \in Digests => o[1] = o[2]
    /\ Requested \subseteq FileNames
    /\ MaxCrashes \in Nat

VARIABLES
    names,    \* rows of table files whose id is nameKey(name): name -> hash
    filed,    \* rows of table files whose id, name and hash are one digest
    tombs,    \* table deletions: <<name, digest>>
    disk,     \* blobs: "absent", "recent" (within the grace period) or "old"
    temp,     \* the temporary file each writer is filling
    litter,   \* ages of temporary files whose writer was stopped
    pc, name, dig,   \* per actor: the next call it makes, and its arguments
    unref,    \* per actor: digests it has judged unreachable so far
    crashes,
    raced,    \* history: digests written again while already condemned
    overtaken \* history: tombstones a writer of their file does not heed: it
              \* was past its look at them, or past their removal, when they
              \* were written, or its look or its removal failed

vars == <<names, filed, tombs, disk, temp, litter, pc, name, dig, unref,
          crashes, raced, overtaken>>

Phases == {"idle", "copy", "rename", "clear", "record", "forget", "refs",
           "judge", "unlink", "prune", "temps"}

TypeOK ==
    /\ names \in [FileNames -> Digests \cup {None}]
    /\ filed \subseteq Digests
    /\ tombs \subseteq FileNames \X Digests
    /\ disk \in [Digests -> {"absent", "recent", "old"}]
    /\ temp \in [Writers -> {"none", "fresh", "stale"}]
    /\ litter \subseteq {"fresh", "stale"}
    /\ pc \in [Actors -> Phases]
    /\ name \in [Actors -> FileNames \cup {None}]
    /\ dig \in [Actors -> Digests \cup {None}]
    /\ unref \in [Actors -> SUBSET Digests]
    /\ crashes \in 0 .. MaxCrashes
    /\ raced \subseteq Digests
    /\ overtaken \subseteq tombs

Init ==
    /\ names = [n \in FileNames |-> None]
    /\ filed = {}
    /\ tombs = {}
    /\ disk = [d \in Digests |-> "absent"]
    /\ temp = [a \in Writers |-> "none"]
    /\ litter = {}
    /\ pc = [a \in Actors |-> "idle"]
    /\ name = [a \in Actors |-> None]
    /\ dig = [a \in Actors |-> None]
    /\ unref = [a \in Actors |-> {}]
    /\ crashes = 0
    /\ raced = {}
    /\ overtaken = {}

-----------------------------------------------------------------------------
(* What the database and the directory answer.                             *)

(* FindFileByName: some row named n has hash d. *)
Refers(n, d) == names[n] = d \/ (n = d /\ d \in filed)

(* ReferencedHashes: SELECT DISTINCT hash FROM files. *)
Referenced == {d \in Digests : d \in filed \/ \E n \in FileNames : names[n] = d}

(* Store.Has *)
Has(d) == disk[d] # "absent"

(* resolve: the contents this node holds for n. *)
Resolved(n) == {d \in Digests : Has(d) /\ (Refers(n, d) \/ n = d)}

Goto(a, p) == pc' = [pc EXCEPT ![a] = p]

(* Actor a returns from what it was doing. *)
Return(a) ==
    /\ Goto(a, "idle")
    /\ name' = [name EXCEPT ![a] = None]
    /\ dig' = [dig EXCEPT ![a] = None]
    /\ unref' = [unref EXCEPT ![a] = {}]

Call(a, p, n, d) ==
    /\ Goto(a, p)
    /\ name' = [name EXCEPT ![a] = n]
    /\ dig' = [dig EXCEPT ![a] = d]
    /\ unref' = unref

database == <<names, filed, tombs, overtaken>>
storage  == <<disk, temp, litter, raced>>
args     == <<name, dig, unref>>

-----------------------------------------------------------------------------
(* Storing: the temporary file, the rename and the row.                    *)

(* Store: WriteContent opens a temporary file and starts hashing into it. *)
Store(c, o) ==
    /\ pc[c] = "idle"
    /\ o[1] \in Names
    /\ Call(c, "copy", o[1], o[2])
    /\ temp' = [temp EXCEPT ![c] = "fresh"]
    /\ UNCHANGED <<database, disk, litter, crashes, raced>>

(* Mutation for checking: deletions are not remembered. *)
HandleStreamUnchecked(o) ==
    /\ pc[Loop] = "idle"
    /\ Call(Loop, "copy", o[1], o[2])
    /\ temp' = [temp EXCEPT ![Loop] = "fresh"]
    /\ UNCHANGED <<database, disk, litter, crashes, raced>>

(* handleStream: an announced body arrives. If its deletion is remembered  *)
(* the body is drained and nothing changes, so that is no step; otherwise, *)
(* or when IsDeleted fails (which is only logged), WriteContentExpecting   *)
(* starts.                                                                 *)
HandleStream(o) ==
    /\ pc[Loop] = "idle"
    /\ \/ o \notin tombs /\ UNCHANGED <<crashes, overtaken>>
       \/ /\ o \in tombs
          /\ crashes < MaxCrashes /\ crashes' = crashes + 1
          /\ overtaken' = overtaken \cup {o}
    /\ Call(Loop, "copy", o[1], o[2])
    /\ temp' = [temp EXCEPT ![Loop] = "fresh"]
    /\ UNCHANGED <<names, filed, tombs, disk, litter, raced>>

(* The body stalls for longer than the grace period. *)
Stall(w) ==
    /\ pc[w] = "copy"
    /\ temp[w] = "fresh"
    /\ temp' = [temp EXCEPT ![w] = "stale"]
    /\ UNCHANGED <<database, disk, litter, pc, args, crashes, raced>>

(* The last bytes are written and the digest is the expected one. A file   *)
(* a sweep has unlinked in the meantime stays unlinked.                    *)
CopyDone(w) ==
    /\ pc[w] = "copy"
    /\ Goto(w, "rename")
    /\ temp' = [temp EXCEPT ![w] = IF @ = "none" THEN "none" ELSE "fresh"]
    /\ UNCHANGED <<database, disk, litter, args, crashes, raced>>

(* The body ends early or does not match: the temporary file is removed. *)
CopyFails(w) ==
    /\ pc[w] = "copy"
    /\ Return(w)
    /\ temp' = [temp EXCEPT ![w] = "none"]
    /\ UNCHANGED <<database, disk, litter, crashes, raced>>

(* Collectors whose next step for d is to unlink it. *)
Condemned(d) == \E a \in Actors : pc[a] = "unlink" /\ d \in unref[a]

(* Mutation for checking: the error is dropped and the name is recorded. *)
RenameFailureIgnored(w) ==
    /\ pc[w] = "rename"
    /\ temp[w] = "none"
    /\ Goto(w, "record")
    /\ UNCHANGED <<database, storage, args, crashes>>

(* os.Rename fails when the temporary file is gone. *)
RenameFails(w) ==
    /\ pc[w] = "rename"
    /\ temp[w] = "none"
    /\ Return(w)
    /\ UNCHANGED <<database, storage, crashes>>

(* os.Rename moves the contents into place, with the age of their last     *)
(* byte; older contents under the same digest are replaced.                *)
Rename(w) ==
    /\ pc[w] = "rename"
    /\ temp[w] # "none"
    /\ disk' = [disk EXCEPT ![dig[w]] = "recent"]
    /\ temp' = [temp EXCEPT ![w] = "none"]
    /\ raced' = IF Condemned(dig[w]) THEN raced \cup {dig[w]} ELSE raced
    /\ Goto(w, IF w = Loop THEN "record" ELSE "clear")
    /\ UNCHANGED <<database, litter, args, crashes>>

(* Store: ClearDeletion. Its failure is only logged. *)
ClearDeletion(c) ==
    /\ pc[c] = "clear"
    /\ LET pair == <<name[c], dig[c]>> IN
       \/ /\ tombs' = tombs \ {pair} /\ crashes' = crashes
          /\ overtaken' = overtaken \ {pair}
       \/ /\ crashes < MaxCrashes /\ crashes' = crashes + 1 /\ tombs' = tombs
          /\ overtaken' = overtaken \cup ({pair} \cap tombs)
    /\ Goto(c, "record")
    /\ UNCHANGED <<names, filed, storage, args>>

(* Store: recordFile, an upsert of the row nameKey(name). *)
RecordFile(c) ==
    /\ pc[c] = "record"
    /\ names' = [names EXCEPT ![name[c]] = dig[c]]
    /\ Return(c)
    /\ UNCHANGED <<filed, tombs, overtaken, storage, crashes>>

(* Mutation for checking: the name is taken over. *)
NameNeverTaken(n, d) == FALSE

(* InsertReplica: a name in use for other contents is left alone and the   *)
(* copy is filed under its digest. One transaction.                        *)
NameTaken(n, d) == \E h \in Digests \ {d} : Refers(n, h)

RecordReplica ==
    /\ pc[Loop] = "record"
    /\ IF NameTaken(name[Loop], dig[Loop])
         THEN /\ filed' = filed \cup {dig[Loop]}
              /\ names' = names
         ELSE /\ names' = [names EXCEPT ![name[Loop]] = dig[Loop]]
              /\ filed' = filed
    /\ Return(Loop)
    /\ UNCHANGED <<tombs, overtaken, storage, crashes>>

-----------------------------------------------------------------------------
(* Deleting.                                                               *)

(* Delete: resolve the name to the digest the peers will be told. *)
Delete(c, n) ==
    /\ pc[c] = "idle"
    /\ \/ \E d \in Resolved(n) : Call(c, "forget", n, d)
       \/ Resolved(n) = {} /\ Call(c, "forget", n, None)
    /\ UNCHANGED <<database, storage, crashes>>

(* handleMessageDeleteFile after authorizeDelete let the request through;  *)
(* who may delete what is the subject of Deletion.tla. The digest is None  *)
(* when the deleting node held no contents for the name.                   *)
HandleDelete(n, d) ==
    /\ pc[Loop] = "idle"
    /\ Call(Loop, "forget", n, d)
    /\ UNCHANGED <<database, storage, crashes>>

(* DeleteFileByName finds no row, or one that refers to other contents. *)
ForgetNothing(w) ==
    /\ pc[w] = "forget"
    /\ ~ \E h \in Digests : Refers(name[w], h) /\ dig[w] \in {None, h}
    /\ Return(w)
    /\ UNCHANGED <<database, storage, crashes>>

(* DeleteFileByName: one row named n goes (the first the query returns),   *)
(* its tombstone is written, and contents no row refers to any more are    *)
(* handed to reclaim. One transaction.                                     *)
RemoveRow(n, h) ==
    \/ /\ names[n] = h
       /\ names' = [names EXCEPT ![n] = None]
       /\ filed' = filed
    \/ /\ n = h /\ h \in filed
       /\ filed' = filed \ {h}
       /\ names' = names

(* A writer that will record what it has without looking at tombstones     *)
(* again: handleStream looks before the body, Store clears before the row. *)
PastCheck(w) == pc[w] = "record" \/ (w = Loop /\ pc[w] \in {"copy", "rename"})

Overtakes(n, d) == \E w \in Writers : PastCheck(w) /\ name[w] = n /\ dig[w] = d

ForgetRow(w, h) ==
    /\ pc[w] = "forget"
    /\ dig[w] \in {None, h}
    /\ RemoveRow(name[w], h)
    /\ tombs' = tombs \cup {<<name[w], h>>}
    /\ overtaken' = IF Overtakes(name[w], h) THEN overtaken \cup {<<name[w], h>>}
                                             ELSE overtaken \ {<<name[w], h>>}
    /\ IF h \in Referenced' THEN Return(w) ELSE Call(w, "refs", None, h)
    /\ UNCHANGED <<storage, crashes>>

-----------------------------------------------------------------------------
(* Reclaiming contents: reclaim for one digest, SweepOrphans for all.      *)

(* Mutation for checking: only the age decides. *)
UnreachableUnasked(ds) == ds

(* Both: ReferencedHashes. What is outside its answer may be unreachable. *)
Unreachable(ds) == ds \ Referenced

ReclaimCheck(w) ==
    /\ pc[w] = "refs"
    /\ unref' = [unref EXCEPT ![w] = Unreachable({dig[w]})]
    /\ Goto(w, "judge")
    /\ UNCHANGED <<database, storage, name, dig, crashes>>

SweepCheck(s) ==
    /\ pc[s] = "idle"
    /\ unref' = [unref EXCEPT ![s] = Unreachable(Digests)]
    /\ Goto(s, "judge")
    /\ UNCHANGED <<database, storage, name, dig, crashes>>

(* Mutations for checking: the grace period is dropped, or read backwards. *)
ExpendableAtOnce(ds) == {d \in ds : Has(d)}
ExpendableWhileRecent(ds) == {d \in ds : disk[d] = "recent"}

(* Blobs (or ModTime for one digest): contents younger than the grace      *)
(* period are too recent to judge.                                         *)
Expendable(ds) == {d \in ds : disk[d] = "old"}

Judge(a) ==
    /\ pc[a] = "judge"
    /\ unref' = [unref EXCEPT ![a] = Expendable(@)]
    /\ Goto(a, "unlink")
    /\ UNCHANGED <<database, storage, name, dig, crashes>>

(* Store.Delete: idempotent, whatever the path holds by now. *)
Unlink(a, d) ==
    /\ pc[a] = "unlink"
    /\ d \in unref[a]
    /\ disk' = [disk EXCEPT ![d] = "absent"]
    /\ unref' = [unref EXCEPT ![a] = @ \ {d}]
    /\ UNCHANGED <<database, temp, litter, pc, name, dig, crashes, raced>>

ReclaimDone(w) ==
    /\ pc[w] = "unlink"
    /\ unref[w] = {}
    /\ Return(w)
    /\ UNCHANGED <<database, storage, crashes>>

SweepBlobsDone(s) ==
    /\ pc[s] = "unlink"
    /\ unref[s] = {}
    /\ Goto(s, "prune")
    /\ UNCHANGED <<database, storage, args, crashes>>

(* PruneDeletions: tombstones past their retention go; which ones those    *)
(* are is left open.                                                       *)
PruneDeletions(s) ==
    /\ pc[s] = "prune"
    /\ tombs' \in SUBSET tombs
    /\ overtaken' = overtaken \cap tombs'
    /\ Goto(s, "temps")
    /\ UNCHANGED <<names, filed, storage, args, crashes>>

(* Mutation for checking: only files of transfers in progress are looked at. *)
RemoveStalledTemporaries(s) ==
    /\ pc[s] = "temps"
    /\ temp' = [w \in Writers |-> IF temp[w] = "stale" THEN "none" ELSE temp[w]]
    /\ litter' = litter
    /\ Return(s)
    /\ UNCHANGED <<database, disk, crashes, raced>>

(* RemoveStaleTemporaries: by name prefix and age, so also the temporary   *)
(* file of a transfer that has only stalled.                               *)
RemoveStaleTemporaries(s) ==
    /\ pc[s] = "temps"
    /\ temp' = [w \in Writers |-> IF temp[w] = "stale" THEN "none" ELSE temp[w]]
    /\ litter' = litter \ {"stale"}
    /\ Return(s)
    /\ UNCHANGED <<database, disk, crashes, raced>>

-----------------------------------------------------------------------------
(* The environment.                                                        *)

(* A database call fails and the operation returns its error, or the       *)
(* process is killed: the actor is back where it started, and the          *)
(* temporary file it was filling, if any, is left behind.                  *)
Crash(a) ==
    /\ pc[a] # "idle"
    /\ crashes < MaxCrashes
    /\ crashes' = crashes + 1
    /\ Return(a)
    /\ IF a \in Writers /\ pc[a] \in {"copy", "rename"}
         THEN /\ litter' = litter \cup ({temp[a]} \ {"none"})
              /\ temp' = [temp EXCEPT ![a] = "none"]
         ELSE UNCHANGED <<temp, litter>>
    /\ UNCHANGED <<database, disk, raced>>

(* The premise of DefaultOrphanGrace: the grace period is longer than the  *)
(* time from a rename to the insert that follows it, and than the time     *)
(* from a reference query to the directory listing that judges what the    *)
(* query found unreachable.                                                *)
Age(d) ==
    /\ disk[d] = "recent"
    /\ \A a \in Actors : /\ pc[a] \in {"clear", "record"} => dig[a] # d
                         /\ pc[a] = "judge" => d \notin unref[a]
    /\ disk' = [disk EXCEPT ![d] = "old"]
    /\ UNCHANGED <<database, temp, litter, pc, args, crashes, raced>>

AgeLitter ==
    /\ "fresh" \in litter
    /\ litter' = {"stale"}
    /\ UNCHANGED <<database, disk, temp, pc, args, crashes, raced>>

-----------------------------------------------------------------------------
Writing(w) == Stall(w) \/ CopyDone(w) \/ CopyFails(w) \/ RenameFails(w) \/ Rename(w)

Forgetting(w) == ForgetNothing(w) \/ \E h \in Digests : ForgetRow(w, h)

Reclaiming(w) ==
    \/ ReclaimCheck(w)
    \/ Judge(w)
    \/ \E d \in Digests : Unlink(w, d)
    \/ ReclaimDone(w)

Command(c) ==
    \/ \E o \in Offers : Store(c, o)
    \/ \E n \in Requested : Delete(c, n)
    \/ ClearDeletion(c)
    \/ RecordFile(c)

ServerLoop ==
    \/ \E o \in Offers : HandleStream(o)
    \/ \E n \in Requested, d \in Digests \cup {None} : HandleDelete(n, d)
    \/ RecordReplica

SweepOrphans(s) ==
    \/ SweepCheck(s)
    \/ Judge(s)
    \/ \E d \in Digests : Unlink(s, d)
    \/ SweepBlobsDone(s)
    \/ PruneDeletions(s)
    \/ RemoveStaleTemporaries(s)

Next ==
    \/ \E c \in Commands : Command(c)
    \/ ServerLoop
    \/ \E w \in Writers : Writing(w) \/ Forgetting(w) \/ Reclaiming(w)
    \/ \E s \in Sweepers : SweepOrphans(s)
    \/ \E a \in Actors : Crash(a)
    \/ \E d \in Digests : Age(d)
    \/ AgeLitter

Spec == Init /\ [][Next]_vars

(* Sweepers run for ever on their timer; an operation past its copy makes  *)
(* its next call; time passes, though not while an actor is inside one of  *)
(* the windows Age excludes. Nobody has to store or delete anything, and a *)
(* copy may stall for good.                                                *)
Fairness ==
    /\ \A s \in Sweepers : WF_vars(SweepOrphans(s))
    /\ \A w \in Writers :
         /\ WF_vars(RenameFails(w) \/ Rename(w))
         /\ WF_vars(Forgetting(w))
         /\ WF_vars(Reclaiming(w))
    /\ \A c \in Commands : WF_vars(ClearDeletion(c) \/ RecordFile(c))
    /\ WF_vars(RecordReplica)
    /\ \A d \in Digests : SF_vars(Age(d))
    /\ WF_vars(AgeLitter)

FairSpec == Spec /\ Fairness

-----------------------------------------------------------------------------
(* Properties.                                                             *)

(* README.md:126-127 and repair.go:419-423 promise that no name is ever    *)
(* left pointing at deleted data. The sweep's reference query, listing and *)
(* unlinks are separate steps, and the code breaks this promise.           *)
NoDanglingName == \A d \in Referenced : Has(d)

(* What the grace period does guarantee: the only contents a recorded name *)
(* can lose are ones that were already condemned, as an aged orphan, at    *)
(* the moment they were stored again. New contents are never lost between  *)
(* their rename and the insert of their name, nor contents shared by a     *)
(* name that stays when another is deleted.                                *)
NamesBackedUnlessRaced == \A d \in Referenced : Has(d) \/ d \in raced

(* The grace period is respected: contents written less than a grace       *)
(* period ago are unlinked only in that same race.                         *)
GraceHolds ==
    [][\A d \in Digests : Has(d) /\ ~Has(d)' => disk[d] = "old" \/ d \in raced]_vars

(* README.md:129: a tombstone is what makes a deletion stick. No user's    *)
(* name is held for contents whose deletion under it is remembered, unless *)
(* the deletion came while a writer of just that was past its check, or    *)
(* the database call of that check failed, which the code only logs        *)
(* (server.go:172, server.go:897).                                         *)
TombstoneHolds ==
    \A n \in Names, d \in Digests :
        Refers(n, d) /\ <<n, d>> \in tombs => <<n, d>> \in overtaken

(* server.go:286-288: a copy received from a peer never repoints a name    *)
(* this node uses for other contents, whatever is stored or deleted under  *)
(* that name while the copy is arriving.                                   *)
ReplicaNeverRepoints ==
    [][\A n \in FileNames :
         names[n] # None /\ names'[n] \notin {None, names[n]}
           => pc'[Loop] = pc[Loop]]_vars

(* repair.go:416-425: contents no name refers to do not stay on disk for   *)
(* ever, however they became unreferenced: replaced, deleted, or written   *)
(* by an operation that stopped before recording them.                     *)
OrphansReclaimed ==
    \A d \in Digests : (Has(d) /\ d \notin Referenced)
                         ~> (~Has(d) \/ d \in Referenced)

(* storage.go:342-343: partial writes of stopped transfers are removed. *)
PartialWritesCleared == (litter # {}) ~> (litter = {})

-----------------------------------------------------------------------------
(* The inductive invariant behind NamesBackedUnlessRaced and GraceHolds.   *)

(* Contents some actor has moved into place and is about to record. *)
BeingRecorded(d) == \E w \in Writers : pc[w] \in {"clear", "record"} /\ dig[w] = d

WrittenIsRecent ==
    \A d \in Digests : BeingRecorded(d) => disk[d] = "recent" \/ d \in raced

(* Between the query and the listing: what has been recorded since is too  *)
(* recent to be judged.                                                    *)
JudgedLater ==
    \A a \in Actors : pc[a] = "judge" =>
        \A d \in unref[a] \cap Referenced : disk[d] = "recent" \/ d \in raced

(* After the listing: what is condemned is an aged orphan, or raced. *)
CondemnedIsOrphan ==
    \A d \in Digests : Condemned(d) =>
        \/ d \in raced
        \/ d \notin Referenced /\ ~BeingRecorded(d) /\ disk[d] # "recent"

(* A writer that is storing or deleting has its arguments. *)
ArgumentsSet ==
    \A w \in Writers :
        /\ pc[w] \in {"copy", "rename", "clear", "record", "forget"} => name[w] \in FileNames
        /\ pc[w] \in {"copy", "rename", "clear", "record", "refs"} => dig[w] \in Digests

StorageInv ==
    /\ TypeOK
    /\ ArgumentsSet
    /\ NamesBackedUnlessRaced
    /\ WrittenIsRecent
    /\ JudgedLater
    /\ CondemnedIsOrphan

(* Behind TombstoneHolds: what a writer past its check is about to record  *)
(* has no tombstone but an overtaken one.                                  *)
WritersChecked ==
    \A w \in Writers : PastCheck(w) =>
        (<<name[w], dig[w]>> \in tombs => <<name[w], dig[w]>> \in overtaken)

TombstoneInv == StorageInv /\ WritersChecked /\ TombstoneHolds
=============================================================================
