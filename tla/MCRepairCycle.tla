--------------------------- MODULE MCRepairCycle ---------------------------
(* Instances of RepairCycle for TLC. *)
EXTENDS RepairCycle, TLC

CONSTANTS d1, d2, h1

(* h1 uses the name of file 1 for something else. *)
TakenOnce == {<<h1, 1>>}

(* Every table of two files, up to the names of the contents. *)
TwoFiles == {r \in Rows : r[1] # d2 /\ (r[2] = d2 => r[1] = d1)}
=============================================================================
