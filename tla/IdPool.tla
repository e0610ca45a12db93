------------------------------- MODULE IdPool -------------------------------
(***************************************************************************)
(* What UIDStore and UIDAllocationCache of UIDStore.h have in common: the  *)
(* flags and the count of atomics that are read and written one at a time, *)
(* and the announcement that a deactivated pool has got all its ids back.  *)
(* The pools differ in how they keep the free ids (IdStore, IdCache).      *)
(***************************************************************************)
EXTENDS Integers, FiniteSets

CONSTANTS Threads,
          MaxUID,          \* MaxUIDValue; the identity value is 0
          Width,           \* the values of TUIDType
          MaxActivations   \* bound on the calls of Activate

ASSUME PoolAssumption ==
    /\ IsFiniteSet(Threads) /\ MaxActivations \in Nat
    /\ MaxUID \in Nat \ {0} /\ Width \in Nat /\ Width > MaxUID

VARIABLES active,       \* bIsActive
          called,       \* bHasCalledOnAllFreed
          count,        \* AllocationsCount
          used,         \* ids that callers of Allocate got and did not give back
          dispatches,   \* OnAllFreed dispatched since the last activation
          activations,  \* calls of Activate
          pc            \* the next atomic step of each thread

poolVars == <<active, called, count, used, dispatches, activations, pc>>

Ids        == 1 .. MaxUID
Activating == {"activate", "clear", "zero"}
Goto(t, l) == pc' = [pc EXCEPT ![t] = l]
TUID(n)    == n % Width

PoolInit ==
    /\ active = FALSE /\ called = FALSE /\ count = 0
    /\ used = {} /\ dispatches = 0 /\ activations = 0
    /\ pc = [t \in Threads |-> "idle"]

(* Activate is called for a pool nobody uses: a new one, or one that has   *)
(* announced that it is ready to be destroyed.                             *)
Unused == /\ ~active /\ used = {} /\ (activations > 0 => called)
          /\ \A t \in Threads : pc[t] = "idle"

ActivatePool(t) ==
    /\ Unused /\ activations < MaxActivations
    /\ activations' = activations + 1
    /\ Goto(t, "activate")
    /\ UNCHANGED <<active, called, count, used, dispatches>>

ActivateFlag(t) ==
    /\ pc[t] = "activate" /\ active' = TRUE /\ Goto(t, "clear")
    /\ UNCHANGED <<called, count, used, dispatches, activations>>

ActivateClear(t) ==
    /\ pc[t] = "clear" /\ called' = FALSE /\ dispatches' = 0 /\ Goto(t, "zero")
    /\ UNCHANGED <<active, count, used, activations>>

ActivateZero(t) ==
    /\ pc[t] = "zero" /\ count' = 0 /\ Goto(t, "idle")
    /\ UNCHANGED <<active, called, used, dispatches, activations>>

(* Nobody uses a pool before Activate has returned.                        *)
Usable == \A t \in Threads : pc[t] \notin Activating

Deactivate(t) ==
    /\ pc[t] = "idle" /\ Usable /\ activations > 0
    /\ active' = FALSE /\ Goto(t, "look")
    /\ UNCHANGED <<called, count, used, dispatches, activations>>

(* Deactivate goes on when it has looked whether all ids are there.        *)
DeactivateLook(t, all) ==
    /\ pc[t] = "look" /\ Goto(t, IF all THEN "announce" ELSE "idle")
    /\ UNCHANGED <<active, called, count, used, dispatches, activations>>

(* Faulty: the handler is dispatched before the flag is looked at.         *)
AnnounceAgain(t) ==
    /\ pc[t] = "announce" /\ called' = TRUE
    /\ dispatches' = dispatches + 1
    /\ Goto(t, "idle")
    /\ UNCHANGED <<active, count, used, activations>>

Announce(t) ==
    /\ pc[t] = "announce" /\ called' = TRUE
    /\ dispatches' = IF called THEN dispatches ELSE dispatches + 1
    /\ Goto(t, "idle")
    /\ UNCHANGED <<active, count, used, activations>>

(* Allocate fails here if the pool is not active, which changes nothing.   *)
AllocateCheck(t) ==
    /\ pc[t] = "idle" /\ Usable /\ active /\ Goto(t, "count")
    /\ UNCHANGED <<active, called, count, used, dispatches, activations>>

AllocateCount(t) ==
    /\ pc[t] = "count" /\ count' = count + 1
    /\ Goto(t, IF TUID(count + 1) <= MaxUID THEN "take" ELSE "undo")
    /\ UNCHANGED <<active, called, used, dispatches, activations>>

(* Faulty: a refused call is taken off twice.                              *)
AllocateUndoTwice(t) ==
    /\ pc[t] = "undo" /\ count' = count - 2 /\ Goto(t, "idle")
    /\ UNCHANGED <<active, called, used, dispatches, activations>>

AllocateUndo(t) ==
    /\ pc[t] = "undo" /\ count' = count - 1 /\ Goto(t, "idle")
    /\ UNCHANGED <<active, called, used, dispatches, activations>>
-----------------------------------------------------------------------------
PoolTypeOK ==
    /\ active \in BOOLEAN /\ called \in BOOLEAN
    /\ count \in Int
    /\ used \subseteq Ids
    /\ dispatches \in Nat /\ activations \in 0 .. MaxActivations
    /\ pc \in [Threads -> {"idle", "look", "announce", "count", "take", "undo", "check",
                           "uncount", "recount", "free"} \cup Activating]

(* The handler of SetOnAllFreed runs at most once for each activation,     *)
(* though Deactivate may be called again and races with Deallocate.        *)
DispatchedOnce == dispatches <= 1

(* Once all is quiet, a deactivated pool that has all its ids has said so: *)
(* whoever of Deactivate and the last Deallocate looked last saw the other.*)
NoLostCallback ==
    (\A t \in Threads : pc[t] = "idle") /\ activations > 0 /\ ~active /\ used = {}
        => called

(* A pool that is ready to be destroyed has no id in use.  No run checks   *)
(* it: an Allocate that has seen the flag takes its id after the pool said *)
(* that it is ready.                                                       *)
ReadyToDestroy == called /\ ~active => used = {}
=============================================================================
