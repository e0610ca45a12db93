------------------------------ MODULE IdCache -------------------------------
(***************************************************************************)
(* UIDAllocationCache of UIDStore.h: callers ask for the id they want, and *)
(* a flag for each id says whether it is taken. There is no lock.          *)
(***************************************************************************)
EXTENDS IdPool

VARIABLES slots,   \* UIDsAllocationStateCache
          uid,     \* uid[t]: the id that the call of t is about
          last     \* last[t]: bDeallocatedAll of the Deallocate of t

vars == <<poolVars, slots, uid, last>>

Init == /\ PoolInit
        /\ slots = [i \in Ids |-> FALSE]
        /\ uid = [t \in Threads |-> 0]
        /\ last = [t \in Threads |-> FALSE]

Activate(t) == /\ ActivatePool(t)
               /\ slots' = [i \in Ids |-> FALSE]
               /\ UNCHANGED <<uid, last>>

DeactivateCache(t) == DeactivateLook(t, count = 0) /\ UNCHANGED <<slots, uid, last>>

(* A caller asks for any id, taken or not.                                 *)
Allocate(t) ==
    /\ AllocateCheck(t)
    /\ \E i \in Ids : uid' = [uid EXCEPT ![t] = i]
    /\ UNCHANGED <<slots, last>>

AllocateTake(t) ==
    /\ pc[t] = "take"
    /\ slots' = [slots EXCEPT ![uid[t]] = TRUE]
    /\ IF slots[uid[t]] THEN Goto(t, "undo") /\ UNCHANGED used
                        ELSE Goto(t, "idle") /\ used' = used \union {uid[t]}
    /\ uid' = [uid EXCEPT ![t] = 0]
    /\ UNCHANGED <<active, called, count, dispatches, activations, last>>

AllocateGiveUp(t) == AllocateUndo(t) /\ uid' = [uid EXCEPT ![t] = 0]
                                     /\ UNCHANGED <<slots, last>>

(* The id may be one that nobody took, which the call then refuses; if the *)
(* caller had it, it gives it up with the call.  A count that was not      *)
(* positive is put back.                                                   *)
DeallocateUncount(t) ==
    /\ pc[t] = "idle" /\ Usable
    /\ \E i \in Ids : uid' = [uid EXCEPT ![t] = i] /\ used' = used \ {i}
    /\ count' = count - 1
    /\ last' = [last EXCEPT ![t] = count = 1]
    /\ Goto(t, IF count <= 0 THEN "recount" ELSE "free")
    /\ UNCHANGED <<active, called, dispatches, activations, slots>>

DeallocateRecount(t) ==
    /\ pc[t] = "recount" /\ count' = count + 1 /\ Goto(t, "idle")
    /\ uid' = [uid EXCEPT ![t] = 0]
    /\ UNCHANGED <<active, called, used, dispatches, activations, slots, last>>

DeallocateFree(t) ==
    /\ pc[t] = "free"
    /\ slots' = [slots EXCEPT ![uid[t]] = FALSE]
    /\ Goto(t, IF slots[uid[t]] /\ last[t] THEN "check" ELSE "idle")
    /\ uid' = [uid EXCEPT ![t] = 0]
    /\ last' = [last EXCEPT ![t] = FALSE]
    /\ UNCHANGED <<active, called, count, used, dispatches, activations>>

DeallocateCheck(t) ==
    /\ pc[t] = "check" /\ Goto(t, IF active THEN "idle" ELSE "announce")
    /\ UNCHANGED <<active, called, count, used, dispatches, activations, slots, uid, last>>

Pooled(t) ==
    /\ \/ ActivateFlag(t) \/ ActivateClear(t) \/ ActivateZero(t)
       \/ Deactivate(t) \/ Announce(t) \/ AllocateCount(t)
    /\ UNCHANGED <<slots, uid, last>>

Step(t) == \/ Activate(t) \/ DeactivateCache(t) \/ Pooled(t)
           \/ Allocate(t) \/ AllocateTake(t) \/ AllocateGiveUp(t)
           \/ DeallocateUncount(t) \/ DeallocateRecount(t)
           \/ DeallocateFree(t) \/ DeallocateCheck(t)

Next == \E t \in Threads : Step(t)

Spec == Init /\ [][Next]_vars
-----------------------------------------------------------------------------
TypeOK == /\ PoolTypeOK /\ slots \in [Ids -> BOOLEAN]
          /\ uid \in [Threads -> 0 .. MaxUID] /\ last \in [Threads -> BOOLEAN]

At(l) == {t \in Threads : pc[t] = l}

(* Whatever callers give back, the cache does not look fuller than its     *)
(* flags say: strays and the races of their undoing never use up room.     *)
(* Activate resets the flags before the count.                             *)
NotFuller ==
    \/ \E t \in Threads : pc[t] \in Activating
    \/ count <= Cardinality({i \in Ids : slots[i]})
               + Cardinality(At("take")) + Cardinality(At("undo"))

(* "Get the count of allocated ids": when no call is under way.  No run    *)
(* checks it: a refused Deallocate leaves the count one too low.           *)
CountWhenQuiet == At("idle") = Threads => count = Cardinality(used)
=============================================================================
