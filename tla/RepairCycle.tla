---------------------------- MODULE RepairCycle ----------------------------
(***************************************************************************)
(* The repair cycle of one machine: RepairOnce works through the files the *)
(* machine holds, a bounded number per cycle, and goes on after a cursor   *)
(* kept in the database. Two processes may run it: the serving node on its *)
(* timer, and a repair command that borrows the serving node's database    *)
(* and directory. The command is a peer of the node whose storage it       *)
(* shares, and the other way round.                                        *)
(*                                                                         *)
(* Files are numbered in the order of their row ids, by which a cycle      *)
(* sorts them. A peer may refuse a copy, or lose it before it is kept; one *)
(* that refuses for good, since the file was deleted, is in Deletion.tla.  *)
(***************************************************************************)
EXTENDS Naturals, FiniteSets, FiniteSetsExt

CONSTANTS
    Files,       \* rows of table files, in the order of their ids
    Digests,
    None,        \* no row
    Stored,      \* tables to begin with
    Helpers,     \* the other nodes
    Taken,       \* <<h, f>>: h uses the name of f for contents of its own
    Server, Command,
    Target,      \* ReplicationFactor
    Limit,       \* maxRepairsPerCycle (25 in the code)
    MaxOps,      \* bound: files stored or deleted
    MaxRuns,     \* bound: repair commands started
    MaxFaults    \* bound: processes killed, database calls failed, answers late,
                 \* helpers gone, copies lost

Cyclers == {Server, Command}
Peers   == Helpers \cup Cyclers

Rows == [Files -> Digests \cup {None}]

ASSUME RepairAssumption ==
    /\ Files \subseteq Nat \ {0} /\ IsFiniteSet(Files)
    /\ IsFiniteSet(Helpers)
    /\ None \notin Digests
    /\ Stored \subseteq Rows
    /\ Taken \subseteq Helpers \X Files
    /\ Server # Command /\ Helpers \cap Cyclers = {}
    /\ Target \in Nat \ {0} /\ Limit \in Nat \ {0}
    /\ MaxOps \in Nat /\ MaxRuns \in Nat /\ MaxFaults \in Nat

VARIABLES
    rows,      \* table files: file -> digest
    held,      \* digests whose contents are on disk
    kept,      \* per helper: the digests it has a copy of
    up,        \* helpers that are connected
    cursor,    \* table settings: RepairCursorSetting (0: none)
    running,   \* the repair command is running
    linked,    \* and connected to the serving node
    cyc,       \* per cycler: where RepairOnce is
    ops, runs, faults

vars == <<rows, held, kept, up, cursor, running, linked, cyc, ops, runs, faults>>

(* files: the listing, without what has been examined; seen: digests       *)
(* checked in this cycle; examined: the file looked at last; lacking and   *)
(* need: peers that could take a copy of it, and the copies missing.       *)
(* unsure: history: the node whose storage this is has answered and was    *)
(* not known for it.                                                       *)
Cycle == [pc : {"idle", "scan", "push"}, files : Rows, seen : SUBSET Digests,
          examined : Files \cup {0}, digest : Digests \cup {None},
          lacking : SUBSET Peers, need : 0 .. Target,
          unsure : BOOLEAN]

NoFiles == [f \in Files |-> None]

Idle == [pc |-> "idle", files |-> NoFiles, seen |-> {}, examined |-> 0,
         digest |-> None, lacking |-> {}, need |-> 0, unsure |-> FALSE]

TypeOK ==
    /\ rows \in Rows
    /\ held \subseteq Digests
    /\ kept \in [Helpers -> SUBSET Digests]
    /\ up \subseteq Helpers
    /\ cursor \in Files \cup {0}
    /\ running \in BOOLEAN /\ linked \in BOOLEAN
    /\ linked => running
    /\ cyc \in [Cyclers -> Cycle]
    /\ ops \in 0 .. MaxOps /\ runs \in 0 .. MaxRuns /\ faults \in 0 .. MaxFaults

Used(r) == {d \in Digests : \E f \in Files : r[f] = d}

(* A node that has been stored to while it had no peers. *)
Init ==
    /\ rows \in Stored
    /\ held = Used(rows)
    /\ kept = [h \in Helpers |-> {}]
    /\ up = {}
    /\ cursor = 0
    /\ running = FALSE /\ linked = FALSE
    /\ cyc = [c \in Cyclers |-> Idle]
    /\ ops = 0 /\ runs = 0 /\ faults = 0

(* What does not go well counts as a fault. *)
Goes(well) ==
    IF well THEN faults' = faults ELSE faults < MaxFaults /\ faults' = faults + 1

-----------------------------------------------------------------------------
(* Who answers what.                                                       *)

Connected(c) == up \cup (IF linked THEN Cyclers \ {c} ELSE {})

(* resolve at p, asked for the name of f: does it answer with digest d?    *)
(* The two processes of the machine answer from one database.              *)
SaysHave(p, f, d) ==
    IF p \in Helpers THEN d \in kept[p] /\ <<p, f>> \notin Taken
                     ELSE rows[f] = d /\ d \in held

Yes(answering, f, d) == {p \in answering : SaysHave(p, f, d)}

(* Mutation for checking: borrowed storage is counted beside its owner. *)
CopiesTwice(c, answering, known, f, d) == Cardinality(Yes(answering, f, d)) + 1

(* checkFile: every peer that answers yes is a copy, and so is this node,  *)
(* unless the node whose storage it borrows has answered for it, and is    *)
(* known for that node.                                                    *)
Copies(c, answering, known, f, d) ==
    LET yes == Yes(answering, f, d)
    IN Cardinality(yes) + IF c = Command /\ known /\ Server \in yes THEN 0 ELSE 1

-----------------------------------------------------------------------------
(* RepairOnce.                                                             *)

ToDo(c) == {f \in Files : cyc[c].files[f] # None}

(* The file after f, going round at the end. *)
Following(fs, f) ==
    IF \E g \in fs : g > f THEN Min({g \in fs : g > f}) ELSE Min(fs)

(* A command ends, and its connections with it. *)
Ends(c) ==
    IF c = Command THEN running' = FALSE /\ linked' = FALSE
                   ELSE UNCHANGED <<running, linked>>

(* Listing the files and reading the cursor, which repairCursor takes for   *)
(* none when the database fails. With no peer, or no file, RepairOnce      *)
(* returns at once.                                                        *)
Begin(c) ==
    /\ cyc[c].pc = "idle"
    /\ c = Command => running
    /\ Connected(c) # {}
    /\ rows # NoFiles
    /\ \E from \in {cursor, 0} :
         /\ cyc' = [cyc EXCEPT ![c] = [Idle EXCEPT !.pc = "scan", !.files = rows,
                                                   !.examined = from]]
         /\ Goes(from = cursor)
    /\ UNCHANGED <<rows, held, kept, up, cursor, running, linked, ops, runs>>

(* A command that finds no peer or no file ends at once. *)
NothingToDo(c) ==
    /\ c = Command /\ running
    /\ cyc[c].pc = "idle"
    /\ rows = NoFiles \/ Connected(c) = {}
    /\ Ends(c)
    /\ UNCHANGED <<rows, held, kept, up, cursor, cyc, ops, runs, faults>>

(* Mutation for checking: one file too many. *)
MayExamineOneMore(c) ==
    /\ cyc[c].pc = "scan"
    /\ Cardinality(cyc[c].seen) <= Limit
    /\ ToDo(c) # {}

MayExamine(c) ==
    /\ cyc[c].pc = "scan"
    /\ Cardinality(cyc[c].seen) < Limit
    /\ ToDo(c) # {}

Next1(c) == Following(ToDo(c), cyc[c].examined)

Examined(c) == [cyc[c] EXCEPT !.examined = Next1(c), !.files[Next1(c)] = None]

(* The next file has contents already checked under another name, or none. *)
Skip(c) ==
    /\ MayExamine(c)
    /\ LET d == cyc[c].files[Next1(c)] IN d \in cyc[c].seen \/ d \notin held
    /\ cyc' = [cyc EXCEPT ![c] = Examined(c)]
    /\ UNCHANGED <<rows, held, kept, up, cursor, running, linked, ops, runs, faults>>

(* repairFile, up to its first push: checkFile, and which peers to skip.   *)
(* Not every peer may answer in time; those that answered anything else    *)
(* than yes could take a copy, though never the node whose storage this    *)
(* is. Which one that is (storageOwnerID) is looked up for the count and   *)
(* again for the pushes; either look may fail, and the node is not         *)
(* recognised once it has answered and gone. (The count is wrong only when *)
(* that node said yes, the pushes only when it did not, so known stands    *)
(* for the look that matters.)                                             *)
CheckFile(c) ==
    /\ MayExamine(c)
    /\ LET f == Next1(c)
           d == cyc[c].files[f]
       IN /\ d \notin cyc[c].seen /\ d \in held
          /\ \E answering \in SUBSET Connected(c), known \in BOOLEAN :
               LET copies == Copies(c, answering, known, f, d)
                   spared == IF c = Command /\ known THEN {Server} ELSE {}
               IN
               /\ ~known => c = Command /\ Server \in answering
               /\ cyc' = [cyc EXCEPT ![c] =
                 [Examined(c) EXCEPT
                    !.pc = "push", !.seen = @ \cup {d}, !.digest = d,
                    !.need = IF copies < Target THEN Target - copies ELSE 0,
                    !.lacking = answering \ (Yes(answering, f, d) \cup spared),
                    !.unsure = ~known]]
               /\ Goes(answering = Connected(c) /\ known)
               /\ linked' \in {linked, linked /\ known}
    /\ UNCHANGED <<rows, held, kept, up, cursor, running, ops, runs>>

(* pushTo: fails when the peer has gone or the contents have, or on the    *)
(* way; what was sent may still not be kept. The machine itself keeps      *)
(* nothing it did not have.                                                *)
Push(c, p) ==
    /\ cyc[c].pc = "push"
    /\ cyc[c].need > 0 /\ p \in cyc[c].lacking
    /\ LET able == p \in Connected(c) /\ cyc[c].digest \in held IN
         \E sent \in {able, FALSE} : \E keeps \in {sent, FALSE} :
           /\ kept' = IF keeps /\ p \in Helpers
                        THEN [kept EXCEPT ![p] = @ \cup {cyc[c].digest}] ELSE kept
           /\ cyc' = [cyc EXCEPT ![c].lacking = @ \ {p},
                                 ![c].need = IF sent THEN @ - 1 ELSE @]
           /\ Goes(keeps = able)
    /\ UNCHANGED <<rows, held, up, cursor, running, linked, ops, runs>>

Pushed(c) == cyc[c].pc = "push" /\ (cyc[c].need = 0 \/ cyc[c].lacking = {})

(* On to the next file. *)
FileDone(c) ==
    /\ Pushed(c)
    /\ cyc' = [cyc EXCEPT ![c].pc = "scan", ![c].digest = None,
                          ![c].lacking = {}, ![c].need = 0, ![c].unsure = FALSE]
    /\ UNCHANGED <<rows, held, kept, up, cursor, running, linked, ops, runs, faults>>

(* Mutation for checking: the cursor stays in memory. *)
ForgetExamined(c) == cursor

(* What setRepairCursor writes. *)
Record(c) == IF cyc[c].examined = 0 THEN cursor ELSE cyc[c].examined

(* setRepairCursor, when the database does not fail, and return.           *)
Return(c) ==
    /\ cyc' = [cyc EXCEPT ![c] = Idle]
    /\ \/ cursor' = Record(c) /\ Goes(TRUE)
       \/ cursor' = cursor /\ Goes(FALSE)
    /\ Ends(c)

(* The bound is reached, or the end of the list. *)
CycleDone(c) ==
    /\ cyc[c].pc = "scan"
    /\ ~MayExamine(c)
    /\ Return(c)
    /\ UNCHANGED <<rows, held, kept, up, ops, runs>>

(* The node is stopping: the cycle ends after this file. *)
Interrupted(c) ==
    /\ Pushed(c)
    /\ Return(c)
    /\ UNCHANGED <<rows, held, kept, up, ops, runs>>

-----------------------------------------------------------------------------
(* Around it.                                                              *)

(* A process is killed in the middle of a cycle. *)
Crash(c) ==
    /\ cyc[c].pc # "idle"
    /\ Goes(FALSE)
    /\ cyc' = [cyc EXCEPT ![c] = Idle]
    /\ running' = (running /\ c # Command)
    /\ linked' = FALSE
    /\ UNCHANGED <<rows, held, kept, up, cursor, ops, runs>>

StartCommand ==
    /\ ~running
    /\ runs < MaxRuns
    /\ runs' = runs + 1
    /\ running' = TRUE /\ linked' = TRUE
    /\ UNCHANGED <<rows, held, kept, up, cursor, cyc, ops, faults>>

(* The serving node and the command lose each other. *)
Unlink ==
    /\ linked
    /\ Goes(FALSE)
    /\ linked' = FALSE
    /\ UNCHANGED <<rows, held, kept, up, cursor, running, cyc, ops, runs>>

(* Files are stored (and pushed to some of the peers), and deleted.        *)
Store(f, d) ==
    /\ ops < MaxOps
    /\ ops' = ops + 1
    /\ rows' = [rows EXCEPT ![f] = d]
    /\ held' = held \cup {d}
    /\ \E to \in SUBSET up :
         kept' = [h \in Helpers |-> IF h \in to THEN kept[h] \cup {d} ELSE kept[h]]
    /\ UNCHANGED <<up, cursor, running, linked, cyc, runs, faults>>

Delete(f) ==
    /\ ops < MaxOps
    /\ rows[f] # None
    /\ ops' = ops + 1
    /\ rows' = [rows EXCEPT ![f] = None]
    /\ UNCHANGED <<held, kept, up, cursor, running, linked, cyc, runs, faults>>

(* Contents no row refers to are reclaimed. *)
Reclaim(d) ==
    /\ d \in held \ Used(rows)
    /\ held' = held \ {d}
    /\ UNCHANGED <<rows, kept, up, cursor, running, linked, cyc, ops, runs, faults>>

(* Helpers come and go, and lose copies. *)
Join(h) ==
    /\ h \notin up
    /\ up' = up \cup {h}
    /\ UNCHANGED <<rows, held, kept, cursor, running, linked, cyc, ops, runs, faults>>

Leave(h) ==
    /\ h \in up
    /\ Goes(FALSE)
    /\ up' = up \ {h}
    /\ UNCHANGED <<rows, held, kept, cursor, running, linked, cyc, ops, runs>>

LoseCopy(h, d) ==
    /\ d \in kept[h]
    /\ Goes(FALSE)
    /\ kept' = [kept EXCEPT ![h] = @ \ {d}]
    /\ UNCHANGED <<rows, held, up, cursor, running, linked, cyc, ops, runs>>

-----------------------------------------------------------------------------
RepairOnce(c) ==
    \/ Begin(c) \/ NothingToDo(c) \/ Skip(c) \/ CheckFile(c)
    \/ \E p \in Peers : Push(c, p)
    \/ FileDone(c) \/ CycleDone(c) \/ Interrupted(c)

Next ==
    \/ \E c \in Cyclers : RepairOnce(c) \/ Crash(c)
    \/ StartCommand \/ Unlink
    \/ \E f \in Files : Delete(f) \/ \E d \in Digests : Store(f, d)
    \/ \E d \in Digests : Reclaim(d)
    \/ \E h \in Helpers : Join(h) \/ Leave(h) \/ \E d \in Digests : LoseCopy(h, d)

Spec == Init /\ [][Next]_vars

(* Cycles go on for ever on their timer, and a command makes its next      *)
(* step. Nobody has to store, delete, come or go.                          *)
Fairness == \A c \in Cyclers : WF_vars(RepairOnce(c))

FairSpec == Spec /\ Fairness

-----------------------------------------------------------------------------
(* Properties.                                                             *)

(* repair.go:29-32 and 233-237: a cycle checks no more contents than its   *)
(* bound, listed ones only, and never decides to push a file to the node   *)
(* whose storage it is borrowing - unless the look for which node that is  *)
(* failed before that push, or that node was lost.                         *)
RepairInv ==
    /\ TypeOK
    /\ \A c \in Cyclers :
         /\ Cardinality(cyc[c].seen) <= Limit
         /\ cyc[c].pc = "push" => cyc[c].digest \in cyc[c].seen
         /\ cyc[c].lacking \subseteq Peers \ {c}
    /\ Server \in cyc[Command].lacking => cyc[Command].unsure

Machine(d) == IF d \in held THEN 1 ELSE 0

TrueCopies(d) == Machine(d) + Cardinality({h \in Helpers : d \in kept[h]})

Smaller(a, b) == IF a < b THEN a ELSE b

(* repair.go:70-72 and 142-144: replication is made good again for every   *)
(* file, however many there are and however often a cycle is cut short,    *)
(* as long as the network has the nodes for it: the cursor leaves nothing  *)
(* out while rows come and go around it, contents have several names, two  *)
(* processes move it, and a helper holds a copy under another name.        *)
Replicated(d) == TrueCopies(d) >= Smaller(Target, 1 + Cardinality(Helpers))

TargetReached ==
    \A f \in Files :
        (rows[f] # None /\ up = Helpers)
          ~> (rows[f] = None \/ Replicated(rows[f]) \/ up # Helpers)

(* repair.go:283-285: a copy is not counted twice. What a check does not   *)
(* ask for really exists, but for one copy: the serving node takes a       *)
(* command connected to it for one, which answers from its own storage,    *)
(* and a command counts that storage twice when it does not know it again. *)
TakenForMore(c) ==
    IF c = Server THEN linked ELSE cyc'[c].unsure /\ Server \notin cyc'[c].lacking

CountsHonest ==
    [][\A c \in Cyclers :
         cyc[c].pc = "scan" /\ cyc'[c].pc = "push" =>
           cyc'[c].need + TrueCopies(cyc'[c].digest)
             + (IF TakenForMore(c) THEN 1 ELSE 0) >= Target]_vars
=============================================================================
