---------------------------- MODULE MCHandshake ----------------------------
(* Instances of Handshake for TLC. *)
EXTENDS Handshake, TLC

CONSTANTS a, b, m, a1, b1, a2, b2

(* Nodes a and b have a connection with each other, and each has one that  *)
(* m carries.                                                              *)
EndNodes == a1 :> a @@ b1 :> b @@ a2 :> a @@ b2 :> b
EndMates == a1 :> b1 @@ b1 :> a1 @@ a2 :> Nobody @@ b2 :> Nobody
=============================================================================
