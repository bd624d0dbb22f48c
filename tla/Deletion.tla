------------------------------ MODULE Deletion ------------------------------
(***************************************************************************)
(* Ownership, deletion and repair across nodes. A node is a database with  *)
(* the server loop and the commands that work on it; messages between two  *)
(* connected nodes keep their order, and are lost when the connection is.  *)
(*                                                                         *)
(* What one machine does between two database calls is the subject of      *)
(* NodeStorage.tla; here a handler is one step, except where the text of   *)
(* another node's message is checked against state that is used later:     *)
(* between authorizeDelete and forget, and between a repair's availability *)
(* check and its pushes. A row stands for its contents too. The two rows a *)
(* digest may name (NodeStorage.tla) are one here.                         *)
(***************************************************************************)
EXTENDS FiniteSets, Naturals, Sequences

CONSTANTS
    Nodes, Names, Digests,
    None,        \* no row, no owner, no signature, no digest
    Authors,     \* nodes whose users store files
    Deleters,    \* nodes whose users delete names
    Getters,     \* nodes whose users fetch files
    Target,      \* ReplicationFactor
    Isolated,    \* only schedules where no command runs while its node's loop deletes
    MaxOps,      \* bound: user operations
    MaxDrops,    \* bound: lost connections
    MaxFails     \* bound: lookups in a database that fail

FileNames == Names \cup Digests

Owners     == Nodes \cup {None}
Signatures == Nodes \X FileNames \X Digests
Row        == [hash : Digests, owner : Owners]
StoreFile  == [type : {"store"}, name : FileNames, digest : Digests, owner : Owners]
DeleteFile == [type : {"delete"}, name : FileNames, digest : Digests \cup {None},
               owner : Owners, sig : Signatures \cup {None}]
Tombstone  == [name : FileNames, digest : Digests, owner : Owners,
               sig : Signatures \cup {None}]
Pushes     == [name : FileNames, digest : Digests, to : SUBSET Nodes]

ASSUME DeletionAssumption ==
    /\ Names \cap Digests = {}
    /\ None \notin Nodes \cup FileNames
    /\ None \notin Signatures \cup Row \cup StoreFile \cup DeleteFile \cup Pushes
    /\ Authors \subseteq Nodes /\ Deleters \subseteq Nodes /\ Getters \subseteq Nodes
    /\ Target \in Nat \ {0}
    /\ Isolated \in BOOLEAN
    /\ MaxOps \in Nat /\ MaxDrops \in Nat /\ MaxFails \in Nat

VARIABLES
    rows,      \* table files, per node: name -> [hash, owner], or None
    tombs,     \* table deletions, per node, with the recorded authorisation
    shares,    \* table shares, outgoing: name -> nodes sent a copy
    links,     \* live connections: sets of two nodes
    chan,      \* chan[i][j]: messages from i to j not yet handled
    granted,   \* per node: the deletion its loop has authorised, or None
    plan,      \* per node: the pushes its repair cycle has decided on, or None
    signed,    \* history: deletions their owner has signed
    wanted,    \* history: per node, name -> digest its user stored and kept
    overtaken, \* history: nodes whose user stored the name their loop is deleting
    overlooked, \* history: names and contents kept as the look for a tombstone failed
    ops, drops, fails

faults == <<overlooked, fails>>

vars == <<rows, tombs, shares, links, chan, granted, plan, signed, wanted, overtaken,
          ops, drops, faults>>

TypeOK ==
    /\ rows \in [Nodes -> [FileNames -> Row \cup {None}]]
    /\ tombs \in [Nodes -> SUBSET Tombstone]
    /\ shares \in [Nodes -> [FileNames -> SUBSET Nodes]]
    /\ links \subseteq SUBSET Nodes
    /\ chan \in [Nodes -> [Nodes -> Seq(StoreFile \cup DeleteFile)]]
    /\ granted \in [Nodes -> DeleteFile \cup {None}]
    /\ plan \in [Nodes -> Pushes \cup {None}]
    /\ signed \subseteq Signatures
    /\ wanted \in [Nodes -> [FileNames -> Digests \cup {None}]]
    /\ overtaken \subseteq Nodes
    /\ overlooked \subseteq FileNames \X Digests
    /\ ops \in 0 .. MaxOps /\ drops \in 0 .. MaxDrops /\ fails \in 0 .. MaxFails

Init ==
    /\ rows = [i \in Nodes |-> [n \in FileNames |-> None]]
    /\ tombs = [i \in Nodes |-> {}]
    /\ shares = [i \in Nodes |-> [n \in FileNames |-> {}]]
    /\ links = {l \in SUBSET Nodes : Cardinality(l) = 2}
    /\ chan = [i \in Nodes |-> [j \in Nodes |-> <<>>]]
    /\ granted = [i \in Nodes |-> None]
    /\ plan = [i \in Nodes |-> None]
    /\ signed = {}
    /\ wanted = [i \in Nodes |-> [n \in FileNames |-> None]]
    /\ overtaken = {}
    /\ overlooked = {}
    /\ ops = 0
    /\ drops = 0
    /\ fails = 0

-----------------------------------------------------------------------------
Peers(i) == {j \in Nodes : {i, j} \in links /\ i # j}

Holds(i, n, d) == rows[i][n] # None /\ rows[i][n].hash = d

(* resolve: what i answers an availability query for n with. A digest also *)
(* names contents held under another name.                                 *)
Offer(i, n) ==
    IF rows[i][n] # None THEN rows[i][n].hash
    ELSE IF \E m \in FileNames : Holds(i, m, n) THEN n ELSE None

(* IsDeleted *)
IsDeleted(i, n, d) == \E t \in tombs[i] : t.name = n /\ t.digest = d

(* broadcast, or replicate: m to each peer in js. *)
Send(i, js, m) ==
    chan' = [chan EXCEPT ![i] = [j \in Nodes |-> IF j \in js THEN Append(@[j], m) ELSE @[j]]]

StoreMsg(n, d, o) == [type |-> "store", name |-> n, digest |-> d, owner |-> o]

DeleteMsg(n, d, o, s) ==
    [type |-> "delete", name |-> n, digest |-> d, owner |-> o, sig |-> s]

(* i's loop handles the next message from j: m answers it, None does not. *)
Next1(j, i) == i # j /\ chan[j][i] # <<>> /\ granted[i] = None

Handled(j, i, m) ==
    chan' = [chan EXCEPT ![j][i] = Tail(@),
                         ![i][j] = IF m = None THEN @ ELSE Append(@, m)]

(* A command of i's user may run. *)
MayOperate(i) ==
    /\ ops < MaxOps
    /\ ops' = ops + 1
    /\ Isolated => granted[i] = None

(* A look in i's database fails. *)
LookFails == fails < MaxFails /\ fails' = fails + 1

-----------------------------------------------------------------------------
(* Mutation for checking: storing again leaves the deletion record. *)
NothingCleared(i, n, d) == tombs[i]

(* ClearDeletion *)
Cleared(i, n, d) == {t \in tombs[i] : t.name # n \/ t.digest # d}

(* Store: the tombstone is cleared, the name recorded as i's own, and a    *)
(* copy announced with its owner goes to every peer. The loop may be past  *)
(* its check of a deletion of this very name.                              *)
Store(i, n, d) ==
    /\ MayOperate(i)
    /\ tombs' = [tombs EXCEPT ![i] = Cleared(i, n, d)]
    /\ rows' = [rows EXCEPT ![i][n] = [hash |-> d, owner |-> i]]
    /\ wanted' = [wanted EXCEPT ![i][n] = d]
    /\ Send(i, Peers(i), StoreMsg(n, d, i))
    /\ shares' = [shares EXCEPT ![i][n] = @ \cup Peers(i)]
    /\ overtaken' = IF granted[i] # None /\ granted[i].name = n
                      THEN overtaken \cup {i} ELSE overtaken
    /\ UNCHANGED <<links, granted, plan, signed, drops, faults>>

(* forget: DeleteFileByName. Nothing happens unless the name refers to the *)
(* digest that is being deleted; then the authorisation becomes part of    *)
(* the tombstone.                                                          *)
Matches(i, n, d) == rows[i][n] # None /\ d \in {None, rows[i][n].hash}

(* Mutation for checking: the authorisation is not recorded. *)
ForgetRowUnsigned(i, n, d, o, s) ==
    IF Matches(i, n, d)
      THEN LET h == rows[i][n].hash IN
           /\ rows' = [rows EXCEPT ![i][n] = None]
           /\ tombs' = [tombs EXCEPT ![i] =
                 {t \in @ : t.name # n \/ t.digest # h}
                   \cup {[name |-> n, digest |-> h, owner |-> o, sig |-> None]}]
           /\ shares' = [shares EXCEPT ![i][n] = {}]
      ELSE UNCHANGED <<rows, tombs, shares>>

ForgetRow(i, n, d, o, s) ==
    IF Matches(i, n, d)
      THEN LET h == rows[i][n].hash IN
           /\ rows' = [rows EXCEPT ![i][n] = None]
           /\ tombs' = [tombs EXCEPT ![i] =
                 {t \in @ : t.name # n \/ t.digest # h}
                   \cup {[name |-> n, digest |-> h, owner |-> o, sig |-> s]}]
           /\ shares' = [shares EXCEPT ![i][n] = {}]
      ELSE UNCHANGED <<rows, tombs, shares>>

MayDelete(i, o) == o \in {i, None}

(* Delete on a node that holds the name: refused for another node's file,  *)
(* signed for its own, unsigned for one without an owner. Peers that were  *)
(* sent a copy are dialled again, some of them in vain, and every peer     *)
(* then connected is told.                                                 *)
Delete(i, n) ==
    /\ MayOperate(i)
    /\ rows[i][n] # None
    /\ LET d == rows[i][n].hash
           o == rows[i][n].owner
           s == IF o = i THEN <<i, n, d>> ELSE None
       IN /\ MayDelete(i, o)
          /\ signed' = IF s = None THEN signed ELSE signed \cup {s}
          /\ ForgetRow(i, n, d, o, s)
          /\ \E back \in SUBSET (shares[i][n] \ {i}) :
               /\ links' = links \cup {{i, j} : j \in back}
               /\ Send(i, Peers(i) \cup back, DeleteMsg(n, d, o, s))
    /\ wanted' = [wanted EXCEPT ![i][n] = None]
    /\ UNCHANGED <<granted, plan, overtaken, drops, faults>>

(* Delete of a name this node does not hold: nothing is forgotten here,    *)
(* but peers are told, without digest, owner or signature.                 *)
DeleteUnknown(i, n) ==
    /\ MayOperate(i)
    /\ Offer(i, n) = None
    /\ Send(i, Peers(i), DeleteMsg(n, None, None, None))
    /\ UNCHANGED <<rows, tombs, shares, links, granted, plan, signed, wanted, overtaken,
                   drops, faults>>

(* Get at i: some peer offered its contents and is asked to send them. The *)
(* announcement of handleMessageFetchFile carries no owner.                *)
Get(i, j, n) ==
    /\ MayOperate(i)
    /\ Offer(i, n) = None
    /\ j \in Peers(i)
    /\ Offer(j, n) # None
    /\ Send(j, {i}, StoreMsg(n, Offer(j, n), None))
    /\ UNCHANGED <<rows, tombs, shares, links, granted, plan, signed, wanted, overtaken,
                   drops, faults>>

-----------------------------------------------------------------------------
(* The server loop.                                                        *)

(* Mutation for checking: the sender is not told. *)
RefuseQuietly(i, j) ==
    /\ Next1(j, i)
    /\ LET m == Head(chan[j][i]) IN
         /\ m.type = "store"
         /\ IsDeleted(i, m.name, m.digest)
    /\ Handled(j, i, None)
    /\ UNCHANGED <<rows, tombs, shares, links, granted, plan, signed, wanted, overtaken,
                   ops, drops, faults>>

(* handleStream, contents whose deletion is remembered: they are drained,  *)
(* and the sender is told with the recorded authorisation (notifyDeleted), *)
(* or without any when that cannot be read.                                *)
RefuseCopy(i, j) ==
    /\ Next1(j, i)
    /\ LET m == Head(chan[j][i]) IN
         /\ m.type = "store"
         /\ \E t \in tombs[i] :
              /\ t.name = m.name /\ t.digest = m.digest
              /\ \/ /\ Handled(j, i, DeleteMsg(m.name, m.digest, t.owner, t.sig))
                    /\ UNCHANGED fails
                 \/ /\ Handled(j, i, DeleteMsg(m.name, m.digest, None, None))
                    /\ LookFails
    /\ UNCHANGED <<rows, tombs, shares, links, granted, plan, signed, wanted, overtaken,
                   ops, drops, overlooked>>

(* InsertReplica: the name the copy is filed under. *)
FiledUnder(i, m) ==
    IF rows[i][m.name] # None /\ rows[i][m.name].hash # m.digest THEN m.digest ELSE m.name

(* handleStream, the other contents, and those whose look for a tombstone   *)
(* failed: the row is written with the owner of the announcement, over a   *)
(* row of the same contents too.                                           *)
KeepCopy(i, j) ==
    /\ Next1(j, i)
    /\ LET m == Head(chan[j][i]) IN
         /\ m.type = "store"
         /\ IF IsDeleted(i, m.name, m.digest)
              THEN /\ LookFails
                   /\ overlooked' = overlooked \cup {<<m.name, m.digest>>}
              ELSE UNCHANGED faults
         /\ rows' = [rows EXCEPT ![i][FiledUnder(i, m)] =
                       [hash |-> m.digest, owner |-> m.owner]]
    /\ Handled(j, i, None)
    /\ UNCHANGED <<tombs, shares, links, granted, plan, signed, wanted, overtaken, ops, drops>>

(* Mutations for checking: an unsigned request is taken for one about an   *)
(* unowned file; an authentic one for one that applies.                    *)
AuthorisedUnsigned(i, m) ==
    LET f == rows[i][m.name] IN
    \/ f = None \/ m.owner = None
    \/ m.digest # None /\ f.hash # m.digest
    \/ /\ m.owner = f.owner
       /\ m.sig = <<m.owner, m.name, f.hash>>
       /\ f.owner = i => IsDeleted(i, m.name, f.hash)

AuthorisedReplay(i, m) ==
    LET f == rows[i][m.name] IN
    \/ f = None
    \/ m.digest # None /\ f.hash # m.digest
    \/ f.owner = None
    \/ m.owner = f.owner /\ m.sig = <<m.owner, m.name, f.hash>>

(* authorizeDelete: nothing to delete, a file without owner, or the        *)
(* owner's signature over this name and these contents; and never a file   *)
(* of our own that we have not deleted ourselves.                          *)
Authorised(i, m) ==
    LET f == rows[i][m.name] IN
    \/ f = None
    \/ m.digest # None /\ f.hash # m.digest
    \/ f.owner = None
    \/ /\ m.owner = f.owner
       /\ m.sig = <<m.owner, m.name, f.hash>>
       /\ f.owner = i => IsDeleted(i, m.name, f.hash)

Authorize(i, j) ==
    /\ Next1(j, i)
    /\ LET m == Head(chan[j][i]) IN
         /\ m.type = "delete"
         /\ granted' = [granted EXCEPT ![i] = IF Authorised(i, m) THEN m ELSE None]
    /\ Handled(j, i, None)
    /\ UNCHANGED <<rows, tombs, shares, links, plan, signed, wanted, overtaken, ops, drops,
                   faults>>

Forget(i) ==
    /\ granted[i] # None
    /\ ForgetRow(i, granted[i].name, granted[i].digest, granted[i].owner, granted[i].sig)
    /\ granted' = [granted EXCEPT ![i] = None]
    /\ overtaken' = overtaken \ {i}
    /\ UNCHANGED <<links, chan, plan, signed, wanted, ops, drops, faults>>

-----------------------------------------------------------------------------
(* The repair cycle.                                                       *)

(* checkFile: query and answer travel behind whatever the connection       *)
(* already carries, so an answer finds both directions drained; peers it   *)
(* does not reach in time are left out.                                    *)
Answering(i) == {j \in Peers(i) : chan[i][j] = <<>> /\ chan[j][i] = <<>>}

(* Peers answering with the same digest are copies, beside our own; as     *)
(* many of the others as copies are missing are chosen for a push.         *)
Holders(i, n, d) == {j \in Answering(i) : Offer(j, n) = d}

Copies(i, n, d) == 1 + Cardinality(Holders(i, n, d))

Chosen(i, n, d, to) ==
    LET lacking == Answering(i) \ Holders(i, n, d)
        needed  == Target - Copies(i, n, d)
    IN /\ to \subseteq lacking
       /\ Cardinality(to) = IF Cardinality(lacking) < needed THEN Cardinality(lacking) ELSE needed

CheckFile(i, n) ==
    /\ plan[i] = None
    /\ rows[i][n] # None
    /\ LET d == rows[i][n].hash IN
         /\ Copies(i, n, d) < Target
         /\ \E to \in SUBSET Answering(i) \ {{}} :
              /\ Chosen(i, n, d, to)
              /\ plan' = [plan EXCEPT ![i] = [name |-> n, digest |-> d, to |-> to]]
    /\ UNCHANGED <<rows, tombs, shares, links, chan, granted, signed, wanted, overtaken,
                   ops, drops, faults>>

(* pushTo, for each peer still connected: the announcement carries no      *)
(* owner. The contents are read from disk, whatever has happened to the    *)
(* name since.                                                             *)
PushCopies(i) ==
    /\ plan[i] # None
    /\ LET to == plan[i].to \cap Peers(i) IN
         /\ Send(i, to, StoreMsg(plan[i].name, plan[i].digest, None))
         /\ shares' = [shares EXCEPT ![i][plan[i].name] =
                         IF rows[i][plan[i].name] = None THEN @ ELSE @ \cup to]
    /\ plan' = [plan EXCEPT ![i] = None]
    /\ UNCHANGED <<rows, tombs, links, granted, signed, wanted, overtaken, ops, drops, faults>>

-----------------------------------------------------------------------------
(* Connections: lost with everything in flight, and made again by          *)
(* bootstrap, discovery or a dial.                                         *)
Disconnect(i, j) ==
    /\ {i, j} \in links
    /\ drops < MaxDrops
    /\ drops' = drops + 1
    /\ links' = links \ {{i, j}}
    /\ chan' = [chan EXCEPT ![i][j] = <<>>, ![j][i] = <<>>]
    /\ UNCHANGED <<rows, tombs, shares, granted, plan, signed, wanted, overtaken, ops, faults>>

Connect(i, j) ==
    /\ i # j
    /\ {i, j} \notin links
    /\ links' = links \cup {{i, j}}
    /\ UNCHANGED <<rows, tombs, shares, chan, granted, plan, signed, wanted, overtaken,
                   ops, drops, faults>>

-----------------------------------------------------------------------------
UserStep ==
    \/ \E i \in Authors, n \in Names, d \in Digests : Store(i, n, d)
    \/ \E i \in Deleters, n \in Names : Delete(i, n) \/ DeleteUnknown(i, n)
    \/ \E i \in Getters, j \in Nodes, n \in Names : Get(i, j, n)

Handle(i, j) == RefuseCopy(i, j) \/ KeepCopy(i, j) \/ Authorize(i, j)

LoopStep(i) ==
    \/ \E j \in Nodes : Handle(i, j)
    \/ Forget(i)

RepairStep(i) == PushCopies(i) \/ \E n \in FileNames : CheckFile(i, n)

Next ==
    \/ UserStep
    \/ \E i \in Nodes : LoopStep(i) \/ RepairStep(i)
    \/ \E i, j \in Nodes : Disconnect(i, j) \/ Connect(i, j)

Spec == Init /\ [][Next]_vars

(* Server loops and repair cycles keep running, every file gets its turn   *)
(* in a cycle, and nodes that lost each other meet again.                  *)
Fairness ==
    /\ \A i \in Nodes : WF_vars(Forget(i)) /\ WF_vars(PushCopies(i))
    /\ \A i \in Nodes : \A j \in Nodes \ {i} : SF_vars(Handle(i, j))
    /\ \A i \in Nodes, n \in FileNames : SF_vars(CheckFile(i, n))
    /\ WF_vars(\E i, j \in Nodes : Connect(i, j))

FairSpec == Spec /\ Fairness

-----------------------------------------------------------------------------
(* README.md:144-146: reaching a peer is not permission to destroy what it *)
(* holds. A copy that names its owner goes only after that owner signed    *)
(* the deletion of exactly this name and these contents; replays and       *)
(* relays by other nodes change nothing about that. A command between the  *)
(* loop's check and its removal endangers no other node's copy: the one    *)
(* exception is what this node's own user stored there in between, which   *)
(* goes on the strength of a check that never saw it.                      *)
AuthorisedRemoval ==
    [][\A i \in Nodes, n \in FileNames :
         (rows[i][n] # None /\ rows[i][n].owner # None /\ rows'[i][n] = None)
           => \/ <<rows[i][n].owner, n, rows[i][n].hash>> \in signed'
              \/ rows[i][n].owner = i /\ i \in overtaken /\ granted[i].name = n]_vars

(* README.md:135-138: a file that is this node's own goes only when its    *)
(* own user deletes it, however often an old authorisation is replayed -   *)
(* or when the user stored it while the loop, past its check, was deleting *)
(* that name.                                                              *)
OwnCopyKept ==
    [][\A i \in Nodes, n \in FileNames :
         (rows[i][n] # None /\ rows[i][n].owner = i /\ rows'[i][n] = None)
           => ops' = ops + 1 \/ (i \in overtaken /\ granted[i].name = n)]_vars

(* The stronger reading of README.md:135-138: what a user stored and did   *)
(* not delete, this node still holds.                                      *)
StoredFileKept ==
    \A i \in Nodes, n \in Names :
        wanted[i][n] # None => Holds(i, n, wanted[i][n])

(* README.md:146-148: a deletion record can be replayed by any node, since *)
(* it carries the owner's signature over this name and these contents.     *)
TombstonesVerify ==
    \A i \in Nodes : \A t \in tombs[i] :
        t.owner # None => t.sig = <<t.owner, t.name, t.digest>>

(* README.md:129-133: a straggler is told, so that the deletion reaches it *)
(* late rather than never. Once users stop, no node keeps what an owner    *)
(* has deleted and not stored again - unless a node that holds the         *)
(* tombstone took the copy because its look for it failed (server.go:170): *)
(* with copies enough, nobody offers those to anyone again. A notice that  *)
(* went out without its authorisation is made good by a later offer.       *)
DeletedByOwner(o, n, d) == \E t \in tombs[o] : t.name = n /\ t.digest = d /\ t.owner = o

StragglersTold ==
    <>[](\A o, i \in Nodes, n \in Names, d \in Digests :
           DeletedByOwner(o, n, d) /\ <<n, d>> \notin overlooked
             => ~Holds(i, n, d) \/ rows[i][n].owner = i)

(* db/repo.go:341-342: a peer that still holds a deleted file cannot push   *)
(* it back. What node i has deleted, holds under no name and no user keeps *)
(* anywhere, no step but a user's gives back to it, under whatever name.   *)
Unwanted(d) == \A j \in Nodes, n \in FileNames : wanted[j][n] # d

Erased(i, d) ==
    /\ \E n \in Names : IsDeleted(i, n, d)
    /\ \A n \in FileNames : ~Holds(i, n, d)

DeletionSticks ==
    [][\A i \in Nodes, d \in Digests :
         Erased(i, d) /\ Unwanted(d)
           => ops' = ops + 1 \/ \A n \in FileNames : ~Holds(i, n, d)']_vars

-----------------------------------------------------------------------------
(* The inductive invariant behind AuthorisedRemoval, OwnCopyKept and        *)
(* TombstonesVerify.                                                       *)

(* A signature exists only where its owner has signed, and whoever names   *)
(* an owner in a deletion has that owner's signature over it.              *)
Signed(r) ==
    /\ r.sig # None => r.sig \in signed
    /\ r.owner # None => r.sig # None /\ r.sig = <<r.owner, r.name, r.digest>>

(* What may travel to j: signed deletions, and no copy with j as its owner. *)
SoundFor(j) ==
    {m \in StoreFile \cup DeleteFile :
        IF m.type = "delete" THEN Signed(m) ELSE m.owner # j}

ChannelsSound == \A i, j \in Nodes : chan[i][j] \in Seq(SoundFor(j))

RecordsSigned ==
    /\ \A i \in Nodes : \A t \in tombs[i] : Signed(t)
    /\ \A i \in Nodes : granted[i] # None => Signed(granted[i])

(* What the loop has authorised still is, save where its own user has      *)
(* stored that name since.                                                 *)
StandsAt(i) ==
    IF granted[i] = None
      THEN i \notin overtaken
      ELSE \/ Authorised(i, granted[i])
           \/ i \in overtaken /\ rows[i][granted[i].name].owner = i

GrantStands == \A i \in Nodes : StandsAt(i)

(* No file of the node's own is tombstoned. *)
OwnFilesLive ==
    \A i \in Nodes, n \in FileNames :
        rows[i][n] # None /\ rows[i][n].owner = i
          => ~IsDeleted(i, n, rows[i][n].hash)

DeletionInv ==
    /\ TypeOK
    /\ ChannelsSound
    /\ RecordsSigned
    /\ GrantStands
    /\ OwnFilesLive
=============================================================================
