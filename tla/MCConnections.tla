--------------------------- MODULE MCConnections ---------------------------
(* Instances of Connections for TLC. *)
EXTENDS Connections, TLC

CONSTANTS x, y, cx1, cx2, cy1

(* Peer x connects twice, peer y once. *)
TwicePlusOne == [c \in {cx1, cx2, cy1} |-> IF c = cy1 THEN y ELSE x]
=============================================================================
