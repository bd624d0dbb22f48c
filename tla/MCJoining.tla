----------------------------- MODULE MCJoining -----------------------------
(* Instances of Joining for TLC. *)
EXTENDS Joining, TLC

CONSTANTS a, b, c, h1, h2, lo

(* b and c are started with the address of a. *)
Star == [n \in Nodes |-> IF n = a THEN {} ELSE {a}]

Together == a :> h1 @@ b :> h2 @@ c :> h2
Local    == a :> lo @@ b :> lo @@ c :> lo

(* Either way b and c are alike. *)
Symmetric == Permutations({b, c})

TwoPlacements == {Together, Local}

=============================================================================
