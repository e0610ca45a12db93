----------------------------- MODULE ObjectPool -----------------------------
(***************************************************************************)
(* The ring of memory blocks of ObjectPool (StaticObjectPool.h) and        *)
(* LocalObjectPool, which differ in that one is static.  Allocate takes    *)
(* the slot at the head, Deallocate puts its block into the slot at the    *)
(* tail; an empty slot sends the one to the operating system, a full slot  *)
(* makes the other give the block it finds there to the operating system.  *)
(* A position and its slot are two accesses: under a spin lock in one      *)
(* variant, two atomic operations in the other.                            *)
(***************************************************************************)
EXTENDS MemoryUsers

CONSTANTS PoolSize,    \* slots of the ring
          Variants,    \* subset of {"spinlock", "atomic"}
          MaxTickets   \* bound on the positions (64 bits wide in the code)

ASSUME PoolAssumption ==
    /\ PoolSize \in Nat \ {0} /\ MaxTickets \in Nat
    /\ Variants \subseteq {"spinlock", "atomic"}

VARIABLES
    variant,  \* bUseSpinLock or not
    slots,    \* Pool
    head,     \* HeadPosition
    tail,     \* TailPosition
    lock,     \* the thread that holds SpinLock, or Null
    at,       \* at[t]: its position, or the slot that FreePool is at
    hand,     \* hand[t]: the block it carries, or Null
    used,     \* the blocks that callers of Allocate have
    whole,    \* Preallocate filled the ring; no FreePool, no failed Allocate since
    over,     \* head was more than PoolSize ahead of tail (history)
    spilled   \* Allocate or Deallocate went to the operating system (history)

history == <<whole, over, spilled>>
poolVars == <<variant, slots, head, tail, lock, pc, at, hand, used, history>>

Slots     == 0 .. PoolSize - 1
Index(n)  == n % PoolSize
Pooled    == {slots[i] : i \in Slots} \ {Null}
InHand    == {hand[t] : t \in Threads} \ {Null}
OSBlocks  == Blocks \ (Pooled \cup InHand \cup used)
Quiet     == \A t \in Threads : pc[t] = "idle"

Carry(t, b) == hand' = [hand EXCEPT ![t] = b]
Put(i, b)  == slots' = [slots EXCEPT ![i] = b]

PoolInit ==
    /\ variant \in Variants
    /\ slots = [i \in Slots |-> Null]
    /\ head = 0 /\ tail = 0 /\ lock = Null
    /\ pc = [t \in Threads |-> "idle"]
    /\ at = [t \in Threads |-> 0]
    /\ hand = [t \in Threads |-> Null]
    /\ used = {} /\ whole = FALSE /\ over = FALSE /\ spilled = FALSE

(* Fills the slots from the first on until the operating system refuses,   *)
(* before anybody uses the pool.                                           *)
Preallocate ==
    /\ Quiet /\ head = 0 /\ tail = 0 /\ Pooled = {}
    /\ \E n \in 0 .. PoolSize, fill \in [Slots -> Blocks] :
          /\ \A i, j \in Slots : fill[i] = fill[j] => i = j
          /\ slots' = [i \in Slots |-> IF i < n THEN fill[i] ELSE Null]
          /\ whole' = (n = PoolSize)
    /\ UNCHANGED <<variant, head, tail, lock, pc, at, hand, used, over, spilled>>

(* The spin lock's exchange.  It is given back with the access to the slot.*)
Acquire(t) ==
    \/ variant = "atomic" /\ UNCHANGED lock
    \/ variant = "spinlock" /\ lock = Null /\ lock' = t

Release(t) == lock' = IF lock = t THEN Null ELSE lock

(***************************************************************************)
(* Allocate                                                                *)
(***************************************************************************)
Allocate(t) ==
    /\ pc[t] = "idle" /\ head < MaxTickets
    /\ Acquire(t)
    /\ Goto(t, "head")
    /\ UNCHANGED <<variant, slots, head, tail, at, hand, used, history>>

AllocateTicket(t) ==
    /\ pc[t] = "head"
    /\ at' = [at EXCEPT ![t] = head]
    /\ head' = head + 1
    /\ over' = (over \/ head' - tail > PoolSize)
    /\ Goto(t, "take")
    /\ UNCHANGED <<variant, slots, tail, lock, hand, used, whole, spilled>>

(* Faulty: the slot keeps its block.                                       *)
AllocateKeep(t) ==
    /\ pc[t] = "take"
    /\ LET block == slots[Index(at[t])]
       IN  \/ block # Null /\ used' = used \cup {block} /\ Goto(t, "idle")
           \/ block = Null /\ Goto(t, "malloc") /\ UNCHANGED used
    /\ Release(t)
    /\ UNCHANGED <<variant, slots, head, tail, at, hand, history>>

AllocateTake(t) ==
    /\ pc[t] = "take"
    /\ Put(Index(at[t]), Null)
    /\ LET block == slots[Index(at[t])]
       IN  \/ block # Null /\ used' = used \cup {block} /\ Goto(t, "idle")
           \/ block = Null /\ Goto(t, "malloc") /\ UNCHANGED used
    /\ Release(t)
    /\ UNCHANGED <<variant, head, tail, at, hand, history>>

(* The operating system may have no block; Allocate then returns nullptr.  *)
AllocateFromOS(t) ==
    /\ pc[t] = "malloc"
    /\ \/ (\E b \in OSBlocks : used' = used \cup {b}) /\ UNCHANGED whole
       \/ whole' = FALSE /\ UNCHANGED used
    /\ spilled' = TRUE
    /\ Goto(t, "idle")
    /\ UNCHANGED <<variant, slots, head, tail, lock, at, hand, over>>

(***************************************************************************)
(* Deallocate of a block that its caller got from Allocate.                *)
(***************************************************************************)
Deallocate(t) ==
    /\ pc[t] = "idle" /\ tail < MaxTickets
    /\ Acquire(t)
    /\ \E b \in used : used' = used \ {b} /\ Carry(t, b)
    /\ Goto(t, "tail")
    /\ UNCHANGED <<variant, slots, head, tail, at, history>>

(* Faulty: the position of the head is taken for that of the tail.         *)
DeallocateAtHead(t) ==
    /\ pc[t] = "tail"
    /\ at' = [at EXCEPT ![t] = head]
    /\ tail' = tail + 1
    /\ Goto(t, "put")
    /\ UNCHANGED <<variant, slots, head, lock, hand, used, history>>

DeallocateTicket(t) ==
    /\ pc[t] = "tail"
    /\ at' = [at EXCEPT ![t] = tail]
    /\ tail' = tail + 1
    /\ Goto(t, "put")
    /\ UNCHANGED <<variant, slots, head, lock, hand, used, history>>

(* The block that was in the slot is carried to the operating system.      *)
DeallocatePut(t) ==
    /\ pc[t] = "put"
    /\ LET previous == slots[Index(at[t])]
       IN  /\ Carry(t, previous)
           /\ Goto(t, IF previous = Null THEN "idle" ELSE "free")
    /\ Put(Index(at[t]), hand[t])
    /\ Release(t)
    /\ UNCHANGED <<variant, head, tail, at, used, history>>

DeallocateToOS(t) ==
    /\ pc[t] = "free"
    /\ Carry(t, Null) /\ Goto(t, "idle")
    /\ spilled' = TRUE
    /\ UNCHANGED <<variant, slots, head, tail, lock, at, used, whole, over>>

(***************************************************************************)
(* FreePool, slot by slot; the spin lock is held for all of them.          *)
(***************************************************************************)
FreePool(t) ==
    /\ pc[t] = "idle" /\ Pooled # {}
    /\ Acquire(t)
    /\ at' = [at EXCEPT ![t] = 0]
    /\ whole' = FALSE
    /\ Goto(t, "empty")
    /\ UNCHANGED <<variant, slots, head, tail, hand, used, over, spilled>>

FreeSlot(t) ==
    /\ pc[t] = "empty"
    /\ Put(at[t], Null)
    /\ \/ /\ at[t] < PoolSize - 1
          /\ at' = [at EXCEPT ![t] = @ + 1]
          /\ UNCHANGED <<lock, pc>>
       \/ at[t] = PoolSize - 1 /\ Release(t) /\ Goto(t, "idle") /\ UNCHANGED at
    /\ UNCHANGED <<variant, head, tail, hand, used, history>>

PoolStep(t) ==
    \/ Allocate(t) \/ AllocateTicket(t) \/ AllocateTake(t) \/ AllocateFromOS(t)
    \/ Deallocate(t) \/ DeallocateTicket(t) \/ DeallocatePut(t) \/ DeallocateToOS(t)
    \/ FreePool(t) \/ FreeSlot(t)

PoolNext == Preallocate \/ \E t \in Threads : PoolStep(t)

PoolSpec == PoolInit /\ [][PoolNext]_poolVars
-----------------------------------------------------------------------------
PoolTypeOK ==
    /\ variant \in Variants
    /\ slots \in [Slots -> Blocks \cup {Null}]
    /\ head \in Nat /\ tail \in Nat
    /\ lock \in Threads \cup {Null}
    /\ pc \in [Threads -> {"idle", "head", "take", "malloc", "tail", "put", "free", "empty"}]
    /\ at \in [Threads -> Nat]
    /\ hand \in [Threads -> Blocks \cup {Null}]
    /\ used \subseteq Blocks
    /\ whole \in BOOLEAN /\ over \in BOOLEAN /\ spilled \in BOOLEAN

(* A block is in one slot, in one hand or with one caller of Allocate,     *)
(* never in two places: nobody is given a block that somebody else has or  *)
(* that was returned to the operating system, in either variant.           *)
OwnedOnce ==
    /\ \A i, j \in Slots : slots[i] = slots[j] /\ slots[i] # Null => i = j
    /\ \A s, t \in Threads : hand[s] = hand[t] /\ hand[s] # Null => s = t
    /\ Pooled \cap used = {} /\ InHand \cap used = {} /\ Pooled \cap InHand = {}

PoolInv == PoolTypeOK /\ OwnedOnce

(* A ring that was filled serves up to PoolSize blocks without going to    *)
(* the operating system, for either Allocate or Deallocate, as long as no  *)
(* more were asked for at once: with the spin lock, not without.           *)
NoSpill == variant = "spinlock" /\ whole /\ ~over => ~spilled

(* When all blocks came back, however many there were, the ring is full    *)
(* again, although head and tail passed over slots that were empty or full.*)
FullAgain ==
    variant = "spinlock" /\ whole /\ Quiet /\ used = {} =>
        Cardinality(Pooled) = PoolSize

(* With the spin lock the ring does what it is there for.                  *)
RingServes == NoSpill /\ FullAgain
=============================================================================
