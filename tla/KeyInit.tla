------------------------------ MODULE KeyInit ------------------------------
(***************************************************************************)
(* Start-up of the processes that share one database: the serving node and *)
(* one-shot commands, started at the same moment, stopped and started      *)
(* again. Each loads the encryption key and then the identity key,         *)
(* creating what is missing, and records the node id.                      *)
(*                                                                         *)
(* No name of this module is one of RepairCycle's, so that a module may    *)
(* extend both.                                                            *)
(***************************************************************************)
EXTENDS FiniteSets

CONSTANTS
    Processes,
    Values,     \* key material; generation never repeats a value
    Legacy,     \* a node id recorded by an older build
    NoKey

ASSUME KeyAssumption == NoKey \notin Values /\ Legacy \notin Values /\ Legacy # NoKey

Slots == {"default", "node_identity"}

VARIABLES
    keys,     \* table keys: slot -> key bytes
    nodeId,   \* the setting node_id; the id of a key is the key here
    pc,       \* per process: "down", "load", "create", "announce", "up"
    slot,     \* the key it is loading
    made,     \* the key it has generated and not yet offered
    heldKeys, \* the keys it works with
    used,     \* key material generated so far
    sealed,   \* keys that stored files are encrypted under
    owners    \* identities that stored files are owned by

startVars == <<keys, nodeId, pc, slot, made, heldKeys, used, sealed, owners>>

Nothing == [s \in Slots |-> NoKey]

StartTypeOK ==
    /\ keys \in [Slots -> Values \cup {NoKey}]
    /\ nodeId \in Values \cup {NoKey, Legacy}
    /\ pc \in [Processes -> {"down", "load", "create", "announce", "up"}]
    /\ slot \in [Processes -> Slots]
    /\ made \in [Processes -> Values \cup {NoKey}]
    /\ heldKeys \in [Processes -> [Slots -> Values \cup {NoKey}]]
    /\ used \subseteq Values
    /\ sealed \subseteq Values
    /\ owners \subseteq Values

StartInit ==
    /\ keys = Nothing
    /\ nodeId \in {NoKey, Legacy}
    /\ pc = [p \in Processes |-> "down"]
    /\ slot = [p \in Processes |-> "default"]
    /\ made = [p \in Processes |-> NoKey]
    /\ heldKeys = [p \in Processes |-> Nothing]
    /\ used = {}
    /\ sealed = {}
    /\ owners = {}

-----------------------------------------------------------------------------
(* serve and startClientNode load the encryption key first. *)
Start(p) ==
    /\ pc[p] = "down"
    /\ pc' = [pc EXCEPT ![p] = "load"]
    /\ UNCHANGED <<keys, nodeId, slot, made, heldKeys, used, sealed, owners>>

(* p holds the key of its slot and goes on to the next. *)
Holds(p, k) ==
    /\ heldKeys' = [heldKeys EXCEPT ![p][slot[p]] = k]
    /\ slot' = [slot EXCEPT ![p] = "node_identity"]
    /\ pc' = [pc EXCEPT ![p] = IF slot[p] = "default" THEN "load" ELSE "announce"]
    /\ made' = [made EXCEPT ![p] = NoKey]

(* GetKey finds a row. *)
GetKey(p) ==
    /\ pc[p] = "load"
    /\ keys[slot[p]] # NoKey
    /\ Holds(p, keys[slot[p]])
    /\ UNCHANGED <<keys, nodeId, used, sealed, owners>>

(* GetKey answers ErrNoRows, and only then a key is generated. *)
Generate(p) ==
    /\ pc[p] = "load"
    /\ keys[slot[p]] = NoKey
    /\ \E k \in Values \ used :
         /\ made' = [made EXCEPT ![p] = k]
         /\ used' = used \cup {k}
    /\ pc' = [pc EXCEPT ![p] = "create"]
    /\ UNCHANGED <<keys, nodeId, slot, heldKeys, sealed, owners>>

(* Mutation for checking: a plain upsert, the last writer wins. *)
UpsertKey(current, k) == k

(* INSERT ... ON CONFLICT DO NOTHING. *)
InsertIfAbsent(current, k) == IF current = NoKey THEN k ELSE current

(* Mutation for checking: the caller keeps the key it made. *)
PutKeyUnread(p) ==
    /\ pc[p] = "create"
    /\ keys' = [keys EXCEPT ![slot[p]] = InsertIfAbsent(@, made[p])]
    /\ Holds(p, made[p])
    /\ UNCHANGED <<nodeId, used, sealed, owners>>

(* putKeyIfAbsent: the conditional insert and the read back, one           *)
(* transaction.                                                            *)
putKeyIfAbsent(p) ==
    /\ pc[p] = "create"
    /\ keys' = [keys EXCEPT ![slot[p]] = InsertIfAbsent(@, made[p])]
    /\ Holds(p, keys'[slot[p]])
    /\ UNCHANGED <<nodeId, used, sealed, owners>>

(* Mutation for checking: an id already recorded is kept. *)
PutNodeIdIfAbsent(p) ==
    /\ pc[p] = "announce"
    /\ nodeId' = IF nodeId = NoKey THEN heldKeys[p]["node_identity"] ELSE nodeId
    /\ pc' = [pc EXCEPT ![p] = "up"]
    /\ UNCHANGED <<keys, slot, made, heldKeys, used, sealed, owners>>

(* loadOrInitIdentity: the recorded id follows the key, unconditionally. *)
PutNodeId(p) ==
    /\ pc[p] = "announce"
    /\ nodeId' = heldKeys[p]["node_identity"]
    /\ pc' = [pc EXCEPT ![p] = "up"]
    /\ UNCHANGED <<keys, slot, made, heldKeys, used, sealed, owners>>

(* Store: contents are encrypted under the process's key and recorded as   *)
(* owned by its identity.                                                  *)
StoreFile(p) ==
    /\ pc[p] = "up"
    /\ sealed' = sealed \cup {heldKeys[p]["default"]}
    /\ owners' = owners \cup {heldKeys[p]["node_identity"]}
    /\ UNCHANGED <<keys, nodeId, pc, slot, made, heldKeys, used>>

(* p exits: a command is done, a database call failed (an error other than *)
(* ErrNoRows is returned, never taken for absence), or the process was     *)
(* killed. A key it had generated and not inserted is lost.                *)
Exit(p) ==
    /\ pc[p] # "down"
    /\ pc' = [pc EXCEPT ![p] = "down"]
    /\ slot' = [slot EXCEPT ![p] = "default"]
    /\ made' = [made EXCEPT ![p] = NoKey]
    /\ heldKeys' = [heldKeys EXCEPT ![p] = Nothing]
    /\ UNCHANGED <<keys, nodeId, used, sealed, owners>>

StartNext ==
    \E p \in Processes :
        \/ Start(p) \/ GetKey(p) \/ Generate(p) \/ putKeyIfAbsent(p)
        \/ PutNodeId(p) \/ StoreFile(p) \/ Exit(p)

StartSpec == StartInit /\ [][StartNext]_startVars

-----------------------------------------------------------------------------
(* repo.go:560-573: a file is never left encrypted under a key that later  *)
(* processes do not load, however many processes created the key at once.  *)
(* cmd_helpers.go:91-93: nor owned by an identity that later processes do  *)
(* not have, so none becomes undeletable.                                  *)
StoredFilesUsable ==
    /\ \A k \in sealed : keys["default"] = k
    /\ \A k \in owners : keys["node_identity"] = k

(* cmd_helpers.go:59-62: once a process is up, the recorded node id is the *)
(* one its identity key gives, also over an id left by an older build.     *)
NodeIdFollowsKey ==
    (\E p \in Processes : pc[p] = "up") => nodeId = keys["node_identity"]

(* Every process agrees on both keys, decided once: the database is a      *)
(* write-once register per slot.                                           *)
Register == INSTANCE WriteOnce
              WITH Learners <- Processes, None <- NoKey,
                   chosen <- keys, learned <- heldKeys

RegisterSpec == Register!Spec

(* The inductive invariant. *)
KeyInv ==
    /\ StartTypeOK
    /\ \A p \in Processes, s \in Slots : heldKeys[p][s] \in {NoKey, keys[s]}
    /\ \A p \in Processes :
         /\ pc[p] = "create" => made[p] \in Values
         /\ slot[p] = "node_identity" => heldKeys[p]["default"] # NoKey
         /\ pc[p] \in {"announce", "up"} =>
              heldKeys[p]["node_identity"] # NoKey /\ slot[p] = "node_identity"
         /\ pc[p] = "up" => nodeId = heldKeys[p]["node_identity"]
    /\ StoredFilesUsable
=============================================================================
