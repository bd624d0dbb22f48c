----------------------------- MODULE WriteOnce -----------------------------
(***************************************************************************)
(* What the processes sharing a database are promised about its keys: each *)
(* slot is decided once, and everybody who learns a slot learns that value.*)
(***************************************************************************)
CONSTANTS Learners, Slots, Values, None

VARIABLES
    chosen,   \* slot -> the value decided for it, or None
    learned   \* learner -> slot -> the value it uses, or None

Init ==
    /\ chosen = [s \in Slots |-> None]
    /\ learned = [p \in Learners |-> [s \in Slots |-> None]]

(* p offers v; the first offer decides, and p learns the decision. *)
Propose(p, s, v) ==
    /\ chosen' = [chosen EXCEPT ![s] = IF @ = None THEN v ELSE @]
    /\ learned' = [learned EXCEPT ![p][s] = chosen'[s]]

Learn(p, s) ==
    /\ chosen[s] # None
    /\ learned' = [learned EXCEPT ![p][s] = chosen[s]]
    /\ UNCHANGED chosen

(* p stops; what was decided stays decided. *)
Stop(p) ==
    /\ learned' = [learned EXCEPT ![p] = [s \in Slots |-> None]]
    /\ UNCHANGED chosen

Next ==
    \E p \in Learners :
        \/ \E s \in Slots : Learn(p, s) \/ \E v \in Values : Propose(p, s, v)
        \/ Stop(p)

Spec == Init /\ [][Next]_<<chosen, learned>>

=============================================================================
