------------------------------ MODULE BlobTree ------------------------------
(***************************************************************************)
(* The directories blobs are kept in. The path of a blob is its digest cut *)
(* into blocks (CASPathTransformFunc), so blobs share the upper            *)
(* directories. Writers make the directories they need (os.MkdirAll) and   *)
(* rename a finished file into place; removers unlink a file and then,     *)
(* upwards, the directories that have become empty; walkers list the blobs *)
(* for a sweep. They are goroutines of several processes, and only single  *)
(* file system calls are atomic: each is an action.                        *)
(*                                                                         *)
(* Which blob may be removed, and when, is the subject of NodeStorage.tla. *)
(***************************************************************************)
EXTENDS Naturals, Sequences

CONSTANTS
    Digests,
    Blocks,
    Path,       \* digest -> the blocks of its path (Pathname)
    None,
    Writers, Removers, Walkers,
    MaxFaults   \* bound: actors killed, temporary files lost

Busy == Writers \cup Removers

ASSUME TreeAssumption ==
    /\ Path \in [Digests -> Seq(Blocks)]
    /\ \A d \in Digests : Path[d] # <<>>
    /\ None \notin Digests
    /\ Writers \cap Removers = {}
    /\ MaxFaults \in Nat

VARIABLES
    dirs,    \* directories below the root, which is always there
    blobs,   \* digests with a file in place
    at,      \* per writer and remover: the next call it makes ...
    blob,    \* ... for this blob ...
    level,   \* ... at this depth of its path
    todo,    \* per walker: directories still to be read
    files,   \* per walker: files whose age is still to be looked at
    found,   \* per walker: what Blobs will return
    steady,  \* history, per walker: blobs in place since its walk began
    pruned,  \* history: writers whose path lost a directory
    faults

vars == <<dirs, blobs, at, blob, level, todo, files, found, steady,
          pruned, faults>>

Depth(d) == Len(Path[d])

(* The directory k levels below the root, on the way to blob d. *)
Dir(d, k) == SubSeq(Path[d], 1, k)

Root   == <<>>
Dirs   == UNION {{Dir(d, k) : k \in 1 .. Depth(d)} : d \in Digests}
Levels == {0} \cup UNION {1 .. Depth(d) : d \in Digests}
Above(p) == SubSeq(p, 1, Len(p) - 1)

Phases == {"idle", "stat", "mkdir", "look", "rename", "prune"}

TypeOK ==
    /\ dirs \subseteq Dirs
    /\ blobs \subseteq Digests
    /\ at \in [Busy -> Phases]
    /\ blob \in [Busy -> Digests \cup {None}]
    /\ level \in [Busy -> Levels]
    /\ todo \in [Walkers -> SUBSET (Dirs \cup {Root})]
    /\ files \in [Walkers -> SUBSET Digests]
    /\ found \in [Walkers -> SUBSET Digests]
    /\ steady \in [Walkers -> SUBSET Digests]
    /\ pruned \subseteq Writers
    /\ faults \in 0 .. MaxFaults

Init ==
    /\ dirs = {}
    /\ blobs = {}
    /\ at = [a \in Busy |-> "idle"]
    /\ blob = [a \in Busy |-> None]
    /\ level = [a \in Busy |-> 0]
    /\ todo = [l \in Walkers |-> {}]
    /\ files = [l \in Walkers |-> {}]
    /\ found = [l \in Walkers |-> {}]
    /\ steady = [l \in Walkers |-> {}]
    /\ pruned = {}
    /\ faults = 0

-----------------------------------------------------------------------------
Exists(p) == p = Root \/ p \in dirs

(* Mutation for checking: directories inside do not count. *)
EmptyOfFiles(p) == \A d \in blobs : Path[d] # p

(* os.Remove of a directory succeeds only then. *)
Empty(p) ==
    /\ \A q \in dirs : Above(q) # p
    /\ \A d \in blobs : Path[d] # p

Here(a) == Dir(blob[a], level[a])

Goto(a, p, k) ==
    /\ at' = [at EXCEPT ![a] = p]
    /\ level' = [level EXCEPT ![a] = k]
    /\ blob' = blob

Return(a) ==
    /\ at' = [at EXCEPT ![a] = "idle"]
    /\ level' = [level EXCEPT ![a] = 0]
    /\ blob' = [blob EXCEPT ![a] = None]

walks == <<todo, files, found, steady>>

-----------------------------------------------------------------------------
(* writeContent, from where the temporary file in the root is complete.    *)

Write(w, d) ==
    /\ at[w] = "idle"
    /\ at' = [at EXCEPT ![w] = "stat"]
    /\ blob' = [blob EXCEPT ![w] = d]
    /\ level' = [level EXCEPT ![w] = Depth(d)]
    /\ pruned' = pruned \ {w}
    /\ UNCHANGED <<dirs, blobs, walks, faults>>

(* The directory is there: on to the next below it, or to the rename. *)
Descend(w) ==
    IF level[w] = Depth(blob[w]) THEN Goto(w, "rename", level[w])
                                 ELSE Goto(w, "mkdir", level[w] + 1)

(* MkdirAll looks for the deepest directory there is, upwards ... *)
Stat(w) ==
    /\ at[w] = "stat"
    /\ IF Exists(Here(w)) THEN Descend(w) ELSE Goto(w, "stat", level[w] - 1)
    /\ UNCHANGED <<dirs, blobs, walks, pruned, faults>>

(* ... and makes the others on its way back. *)
Mkdir(w) ==
    /\ at[w] = "mkdir"
    /\ Exists(Above(Here(w))) /\ ~Exists(Here(w))
    /\ dirs' = dirs \cup {Here(w)}
    /\ Descend(w)
    /\ UNCHANGED <<blobs, walks, pruned, faults>>

(* Mutation for checking: that somebody else has made it is an error. *)
MkdirExclusive(w) ==
    /\ at[w] = "mkdir"
    /\ Exists(Here(w))
    /\ Return(w)
    /\ UNCHANGED <<dirs, blobs, walks, pruned, faults>>

(* Someone else has made it: MkdirAll looks whether it is there. *)
MkdirExists(w) ==
    /\ at[w] = "mkdir"
    /\ Exists(Here(w))
    /\ Goto(w, "look", level[w])
    /\ UNCHANGED <<dirs, blobs, walks, pruned, faults>>

Look(w) ==
    /\ at[w] = "look"
    /\ Exists(Here(w))
    /\ Descend(w)
    /\ UNCHANGED <<dirs, blobs, walks, pruned, faults>>

(* The directory, or the one above it, has gone meanwhile: the write       *)
(* fails, and the temporary file is removed.                               *)
WriteFails(w) ==
    /\ \/ at[w] = "mkdir" /\ ~Exists(Above(Here(w)))
       \/ at[w] = "look" /\ ~Exists(Here(w))
       \/ at[w] = "rename" /\ ~Exists(Here(w))
    /\ Return(w)
    /\ UNCHANGED <<dirs, blobs, walks, pruned, faults>>

Rename(w) ==
    /\ at[w] = "rename"
    /\ Exists(Here(w))
    /\ blobs' = blobs \cup {blob[w]}
    /\ Return(w)
    /\ UNCHANGED <<dirs, walks, pruned, faults>>

-----------------------------------------------------------------------------
(* Store.Delete and pruneEmptyDirs.                                        *)

(* os.Remove of the file; if it is not there that is no error, and nothing *)
(* more is done.                                                           *)
Delete(r, d) ==
    /\ at[r] = "idle"
    /\ d \in blobs
    /\ blobs' = blobs \ {d}
    /\ steady' = [l \in Walkers |-> steady[l] \ {d}]
    /\ at' = [at EXCEPT ![r] = "prune"]
    /\ blob' = [blob EXCEPT ![r] = d]
    /\ level' = [level EXCEPT ![r] = Depth(d)]
    /\ UNCHANGED <<dirs, todo, files, found, pruned, faults>>

OnPath(w, p) == blob[w] # None /\ \E k \in 1 .. Depth(blob[w]) : Dir(blob[w], k) = p

(* Mutations for checking: the top-level directory goes with all that is in *)
(* it, as in an earlier version of the code; or the last directory only.   *)
PruneTopLevel(r) ==
    /\ at[r] = "prune"
    /\ LET top == Dir(blob[r], 1) IN
         /\ dirs' = {q \in dirs : SubSeq(q, 1, 1) # top}
         /\ blobs' = {d \in blobs : Dir(d, 1) # top}
    /\ Return(r)
    /\ UNCHANGED <<walks, pruned, faults>>

PruneOnce(r) ==
    /\ at[r] = "prune"
    /\ dirs' = IF Empty(Here(r)) THEN dirs \ {Here(r)} ELSE dirs
    /\ pruned' = pruned \cup {w \in Writers : OnPath(w, Here(r))}
    /\ Return(r)
    /\ UNCHANGED <<blobs, walks, faults>>

(* os.Remove of one directory, then of the one above it, up to the root or *)
(* to the first that cannot be removed.                                    *)
Prune(r) ==
    /\ at[r] = "prune"
    /\ IF level[r] > 0 /\ Here(r) \in dirs /\ Empty(Here(r))
         THEN /\ dirs' = dirs \ {Here(r)}
              /\ Goto(r, "prune", level[r] - 1)
              /\ pruned' = pruned \cup {w \in Writers : OnPath(w, Here(r))}
         ELSE Return(r) /\ UNCHANGED <<dirs, pruned>>
    /\ UNCHANGED <<blobs, walks, faults>>

-----------------------------------------------------------------------------
(* Blobs: filepath.WalkDir from the root.                                  *)

Listed(l) == todo[l] = {} /\ files[l] = {}

Walk(l) ==
    /\ Listed(l)
    /\ todo' = [todo EXCEPT ![l] = {Root}]
    /\ found' = [found EXCEPT ![l] = {}]
    /\ steady' = [steady EXCEPT ![l] = blobs]
    /\ UNCHANGED <<dirs, blobs, at, blob, level, files, pruned, faults>>

(* Mutation for checking: an error ends the walk. *)
ReadDirAborts(l, p) ==
    /\ p \in todo[l]
    /\ todo' = [todo EXCEPT ![l] = IF Exists(p) THEN (@ \ {p}) \cup {q \in dirs : Above(q) = p} ELSE {}]
    /\ files' = [files EXCEPT ![l] = @ \cup {d \in blobs : Path[d] = p}]
    /\ UNCHANGED <<dirs, blobs, at, blob, level, found, steady, pruned, faults>>

(* A directory is read; one removed by a concurrent prune has no entries.  *)
ReadDir(l, p) ==
    /\ p \in todo[l]
    /\ todo' = [todo EXCEPT ![l] = (@ \ {p}) \cup {q \in dirs : Above(q) = p}]
    /\ files' = [files EXCEPT ![l] = @ \cup {d \in blobs : Path[d] = p}]
    /\ UNCHANGED <<dirs, blobs, at, blob, level, found, steady, pruned, faults>>

(* A file is listed with its age, unless it has gone. *)
Info(l, d) ==
    /\ d \in files[l]
    /\ files' = [files EXCEPT ![l] = @ \ {d}]
    /\ found' = [found EXCEPT ![l] = IF d \in blobs THEN @ \cup {d} ELSE @]
    /\ UNCHANGED <<dirs, blobs, at, blob, level, todo, steady, pruned, faults>>

-----------------------------------------------------------------------------
(* A process is killed; or the temporary file of a write that had stalled  *)
(* was swept before the rename, which fails.                               *)
Fault(a) ==
    /\ at[a] # "idle"
    /\ faults < MaxFaults
    /\ faults' = faults + 1
    /\ Return(a)
    /\ UNCHANGED <<dirs, blobs, walks, pruned>>

WriteStep(w) ==
    \/ \E d \in Digests : Write(w, d)
    \/ Stat(w) \/ Mkdir(w) \/ MkdirExists(w) \/ Look(w) \/ WriteFails(w) \/ Rename(w)

RemoveStep(r) ==
    \/ \E d \in Digests : Delete(r, d)
    \/ Prune(r)

WalkStep(l) ==
    \/ Walk(l)
    \/ \E p \in todo[l] : ReadDir(l, p)
    \/ \E d \in files[l] : Info(l, d)

Next ==
    \/ \E w \in Writers : WriteStep(w)
    \/ \E r \in Removers : RemoveStep(r)
    \/ \E l \in Walkers : WalkStep(l)
    \/ \E a \in Busy : Fault(a)

Spec == Init /\ [][Next]_vars

-----------------------------------------------------------------------------
(* Properties.                                                             *)

(* Every directory has those above it, every file its directory. *)
Rooted ==
    /\ \A p \in dirs : \A k \in 1 .. Len(p) : SubSeq(p, 1, k) \in dirs
    /\ \A d \in blobs : Path[d] \in dirs

(* storage.go:272-274: removing a blob destroys no other, though they share *)
(* directories and others are being written.                               *)
OthersUntouched ==
    [][\A d \in Digests : d \in blobs /\ d \notin blobs' =>
         \E r \in Removers : at[r] = "idle" /\ blob'[r] = d]_vars

(* storage.go:271, 281-283: removers leave no empty directory behind, be   *)
(* there writers and other removers in the same directories, writes that   *)
(* fail included.                                                          *)
Tidy ==
    (\A a \in Busy : at[a] = "idle") /\ faults = 0 =>
      \A p \in dirs : ~Empty(p)

(* repair.go:437: a sweep that misses a blob leaves it. Blobs returns all  *)
(* that were in place throughout, whatever was pruned around them.         *)
ListingComplete ==
    \A l \in Walkers : Listed(l) => steady[l] \subseteq found[l]

(* A write fails only when a directory of its own was pruned since it      *)
(* began.                                                                  *)
FailsOnlyPruned ==
    [][\A w \in Writers :
         at[w] \notin {"idle"} /\ at'[w] = "idle" /\ faults' = faults =>
           blob[w] \in blobs' \/ w \in pruned]_vars

-----------------------------------------------------------------------------
(* The inductive invariant behind these.                                   *)

(* How far an operation can be. *)
Working(a) ==
    /\ at[a] \in IF a \in Removers THEN {"prune"} ELSE {"stat", "mkdir", "look", "rename"}
    /\ blob[a] \in Digests
    /\ level[a] \in 0 .. Depth(blob[a])
    /\ at[a] \in {"mkdir", "look", "rename"} => level[a] > 0
    /\ at[a] = "rename" => level[a] = Depth(blob[a])

(* The directory a writer has seen or made last, or a remover looks at. *)
Holds(a, p) ==
    \/ at[a] = "mkdir" /\ Above(Here(a)) = p
    \/ at[a] \in {"look", "rename", "prune"} /\ Here(a) = p

(* Somebody is about to use, or to remove, each empty directory. *)
EmptyIsHeld ==
    faults = 0 => \A p \in dirs : Empty(p) => \E a \in Busy : Holds(a, p)

(* What a writer relies on is there unless it was pruned. *)
HeldIsThere ==
    \A w \in Writers \ pruned : \A p \in Dirs : Holds(w, p) => p \in dirs

(* A blob that stays is listed, or on the way to be. *)
OnItsWay(l, d) ==
    d \in found[l] \cup files[l] \/ \E k \in 0 .. Depth(d) : Dir(d, k) \in todo[l]

NoneMissed ==
    \A l \in Walkers : \A d \in steady[l] : d \in blobs /\ OnItsWay(l, d)

TreeInv ==
    /\ TypeOK
    /\ \A a \in Busy : at[a] # "idle" => Working(a)
    /\ Rooted
    /\ EmptyIsHeld
    /\ HeldIsThere
    /\ NoneMissed
=============================================================================
