----------------------------- MODULE MCBlobTree -----------------------------
(* Instances of BlobTree for TLC. *)
EXTENDS BlobTree, TLC

CONSTANTS d1, d2, x, y, z, w1, w2, r1, r2, l1

(* d1 and d2 share a directory. *)
Shared == d1 :> <<x, y>> @@ d2 :> <<x, z>>

(* Writers are alike, removers are alike, and so are the two blobs. *)
Swap(u, v) == u :> v @@ v :> u
Symmetric ==
    {p @@ q @@ s : p \in Permutations({w1, w2}), q \in Permutations({r1, r2}),
                   s \in {Swap(d1, d2) @@ Swap(y, z), d1 :> d1 @@ d2 :> d2 @@ y :> y @@ z :> z}}
=============================================================================
