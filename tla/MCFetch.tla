------------------------------ MODULE MCFetch ------------------------------
(* Instances of Fetch for TLC. *)
EXTENDS Fetch, TLC

CONSTANTS a, b, c, r1, r2, r3, n1, d1, d2

(* b and c hold n1, in different versions; a holds the contents of c's,    *)
(* under their digest. a asks for n1, and for d1, which b has; b asks for  *)
(* d2, so that a and b may be sending to each other.                       *)
Askers == [r \in Requests |-> IF r = r3 THEN b ELSE a]
Asked  == [r \in Requests |-> CASE r = r1 -> n1 [] r = r2 -> d1 [] r = r3 -> d2]
Holders ==
    [i \in Nodes |-> [n \in Keys |->
        CASE i = b /\ n = n1 -> d1
          [] i = c /\ n = n1 -> d2
          [] i = a /\ n = d2 -> d2
          [] OTHER -> None]]
AroundA == {{a, b}, {a, c}}
TwoAtOnce == {{r1, r2}, {r1, r3}}
=============================================================================
