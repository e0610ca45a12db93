------------------------------ MODULE IdStore -------------------------------
(***************************************************************************)
(* UIDStore of UIDStore.h: a stack of free ids under a spin lock, with the *)
(* pool's flags and count outside of the lock.                             *)
(***************************************************************************)
EXTENDS IdPool, Sequences, SequencesExt

VARIABLES FreeIds,   \* the stack; its last element is the top
          all        \* all[t]: bDeallocatedAll of the Deallocate of t

vars == <<poolVars, FreeIds, all>>

HasAll(stack) == Len(stack) = MaxUID

Init == /\ PoolInit /\ FreeIds = <<>>
        /\ all = [t \in Threads |-> FALSE]

(* Clears the stack and pushes the highest id first.                       *)
Activate(t) ==
    /\ ActivatePool(t)
    /\ FreeIds' = [i \in Ids |-> MaxUID + 1 - i]
    /\ UNCHANGED all

DeactivateStore(t) == DeactivateLook(t, HasAll(FreeIds)) /\ UNCHANGED <<FreeIds, all>>

(* Faulty: the top is read, not removed.                                   *)
AllocateTop(t) ==
    /\ pc[t] = "take"
    /\ IF FreeIds # <<>>
       THEN used' = used \union {Last(FreeIds)} /\ Goto(t, "idle")
       ELSE Goto(t, "undo") /\ UNCHANGED used
    /\ UNCHANGED <<active, called, count, dispatches, activations, FreeIds, all>>

(* Under the lock: the top is taken, if there is one.                      *)
AllocatePop(t) ==
    /\ pc[t] = "take"
    /\ IF FreeIds # <<>>
       THEN /\ used' = used \union {Last(FreeIds)}
            /\ FreeIds' = Front(FreeIds) /\ Goto(t, "idle")
       ELSE Goto(t, "undo") /\ UNCHANGED <<used, FreeIds>>
    /\ UNCHANGED <<active, called, count, dispatches, activations, all>>

(* A caller gives back an id it holds; under the lock.                     *)
DeallocatePush(t) ==
    /\ pc[t] = "idle" /\ Usable
    /\ \E uid \in used :
           /\ used' = used \ {uid}
           /\ FreeIds' = Append(FreeIds, uid)
           /\ all' = [all EXCEPT ![t] = HasAll(FreeIds')]
    /\ Goto(t, "uncount")
    /\ UNCHANGED <<active, called, count, dispatches, activations>>

DeallocateUncount(t) ==
    /\ pc[t] = "uncount" /\ count' = count - 1 /\ Goto(t, "check")
    /\ UNCHANGED <<active, called, used, dispatches, activations, FreeIds, all>>

DeallocateCheck(t) ==
    /\ pc[t] = "check"
    /\ Goto(t, IF ~active /\ all[t] THEN "announce" ELSE "idle")
    /\ all' = [all EXCEPT ![t] = FALSE]
    /\ UNCHANGED <<active, called, count, used, dispatches, activations, FreeIds>>

Pooled(t) ==
    /\ \/ ActivateFlag(t) \/ ActivateClear(t) \/ ActivateZero(t)
       \/ Deactivate(t) \/ Announce(t)
       \/ AllocateCheck(t) \/ AllocateCount(t) \/ AllocateUndo(t)
    /\ UNCHANGED <<FreeIds, all>>

Step(t) == Activate(t) \/ DeactivateStore(t) \/ AllocatePop(t) \/ Pooled(t)
           \/ DeallocatePush(t) \/ DeallocateUncount(t) \/ DeallocateCheck(t)

Next == \E t \in Threads : Step(t)

Spec == Init /\ [][Next]_vars
-----------------------------------------------------------------------------
TypeOK == /\ PoolTypeOK /\ FreeIds \in Seq(Ids)
          /\ all \in [Threads -> BOOLEAN]

(* Every id is on the stack once or with one caller: the count, changed    *)
(* outside of the lock, lets nobody take an id twice or lose one.          *)
EveryIdOnce ==
    activations > 0 => /\ IsInjective(FreeIds)
                       /\ Ids \ used = Range(FreeIds)

(* The count is that of the ids in use and of the calls that have counted  *)
(* themselves in and did not take an id, or gave one and did not count it. *)
CountExact ==
    count = Cardinality(used)
          + Cardinality({t \in Threads : pc[t] \in {"take", "undo", "uncount"}})
=============================================================================
