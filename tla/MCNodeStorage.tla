--------------------------- MODULE MCNodeStorage ---------------------------
(* Instances of NodeStorage for TLC. *)
EXTENDS NodeStorage, TLC

CONSTANTS n1, n2, d1, d2, c1, s1

(* One name stored with two versions of its contents. *)
TwoVersions == {<<n1, d1>>, <<n1, d2>>}

OneVersion == {<<n1, d1>>}

Symmetric == Permutations({d1, d2})
=============================================================================
