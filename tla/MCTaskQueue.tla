---------------------------- MODULE MCTaskQueue -----------------------------
(* The task queue with small sets of producers and task addresses.         *)
EXTENDS TaskQueue, TLC

Symmetry == Permutations(Producers) \cup Permutations(Tasks)
=============================================================================
