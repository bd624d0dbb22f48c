----------------------------- MODULE MCDeletion -----------------------------
(* Instances of Deletion for TLC. *)
EXTENDS Deletion, TLC

CONSTANTS a, b, c, n1, d1, d2
=============================================================================
