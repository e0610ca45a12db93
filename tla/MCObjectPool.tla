---------------------------- MODULE MCObjectPool ----------------------------
(* Three threads share a ring of two slots, which they can overdraw.       *)
EXTENDS ObjectPool, TLC

CONSTANTS a, b, c, w, x, y, z

Symmetry == Permutations({a, b, c}) \cup Permutations({w, x, y, z})
=============================================================================
