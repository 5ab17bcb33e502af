------------------------------ MODULE MCBihash ------------------------------
EXTENDS Bihash

CONSTANTS k1, k2, k3, k4, v1, v2, w1, w2, r1

\* k1 and k2 collide whatever the number of pages, k3 shares their bucket and
\* leaves their page at the first split; k4 has a bucket of its own.
HashOf == (k1 :> 0) @@ (k2 :> 0) @@ (k3 :> 2) @@ (k4 :> 1)

\* A writer has its value: the next add of a key by the other changes it.
OwnValue == (w1 :> {v1}) @@ (w2 :> {v2})
BothValues == (w1 :> {v1, v2})

\* The writers are alike, each with its value.
Alike == Permutations({k1, k2}) \union {(w1 :> w2) @@ (w2 :> w1) @@ (v1 :> v2) @@ (v2 :> v1)}
=============================================================================
