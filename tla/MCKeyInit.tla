------------------------------ MODULE MCKeyInit ------------------------------
(* Three processes race to create both keys. *)
EXTENDS KeyInit, TLC

CONSTANTS p1, p2, p3

Symmetric == Permutations({p1, p2, p3}) \cup Permutations(Values)
=============================================================================
