--------------------------- MODULE MCSharedMemory ---------------------------
(* Three threads, two blocks, objects on both sides of a class boundary.   *)
EXTENDS SharedMemory, TLC

CONSTANTS t1, t2, t3, m1, m2

Symmetry == Permutations({t1, t2, t3}) \cup Permutations({m1, m2})
=============================================================================
