---------------------------- MODULE MCEntityStore ----------------------------
(* Three threads, two entities, the second activation after the first.     *)
EXTENDS EntityStore, TLC

CONSTANTS a, b, c

Symmetry == Permutations({a, b, c})
=============================================================================
