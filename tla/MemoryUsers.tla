---------------------------- MODULE MemoryUsers ----------------------------
(***************************************************************************)
(* Threads that use blocks of memory: what the pools that the blocks come  *)
(* from (ObjectPool) and the objects that are made in them (SharedMemory)  *)
(* have in common.                                                         *)
(***************************************************************************)
EXTENDS Integers, FiniteSets

CONSTANTS Threads,
          Blocks,   \* what the operating system can give
          Null      \* nullptr, or no thread

ASSUME UsersAssumption == Null \notin Threads /\ Null \notin Blocks

VARIABLE pc   \* pc[t]: what thread t does next

Goto(t, l) == pc' = [pc EXCEPT ![t] = l]
=============================================================================
