---------------------------- MODULE SharedMemory ----------------------------
(***************************************************************************)
(* Shared objects: the control block in front of the object and its        *)
(* reference count (MemoryPolicy.h), the pointers that share it            *)
(* (TSharedPtr, TLockedSharedPtr) and the memory manager and size class    *)
(* its block comes from and goes back to.  Each thread has one TSharedPtr; *)
(* all of them share one TLockedSharedPtr, the cell.  The pools are taken   *)
(* at their word (ObjectPool): they give a block that nobody has, or none. *)
(***************************************************************************)
EXTENDS MemoryUsers

CONSTANTS Kinds,        \* the ways to make an object that the application uses
          Sizes,        \* the sizes of its objects
          ClassLimits,  \* Pool1_BlockSize, ...: the largest size of each class
          ObjectHeader, ArrayHeader, DeleterSize

ASSUME SharedAssumption ==
    /\ IsFiniteSet(Threads) /\ "cell" \notin Threads
    /\ Kinds \subseteq {"object", "array", "virtual", "tls", "tlsArray", "tlsNoDestruct"}
    /\ Sizes \subseteq Nat /\ ClassLimits \subseteq Nat
    /\ {ObjectHeader, ArrayHeader, DeleterSize} \subseteq Nat

VARIABLES
    refs,      \* refs[b]: ReferenceCount of the control block in block b
    state,     \* state[b]: "free", "alive" or, destroyed and not yet freed, "dead"
    object,    \* object[b]: what was made in b: kind and size
    source,    \* source[b]: the manager and class Allocate took b from
    returned,  \* returned[b]: the manager and class it was last given back to
    pointer,   \* pointer[p]: the block of TSharedPtr p: a thread's, or the cell
    peeked,    \* peeked[t]: what NewRefRaw of t read and has yet to count
    dying,     \* dying[t]: the block that t destroys after its last reference
    writer,    \* the thread that holds the cell's lock alone, or Null
    readers    \* the threads that share it

lockVars  == <<writer, readers>>
blockVars == <<state, object, source, returned>>
vars == <<refs, blockVars, pointer, peeked, dying, lockVars, pc>>

Cell      == "cell"
Pointers  == Threads \cup {Cell}
NoObject  == [kind |-> "none", size |-> 0]
NoHome    == [manager |-> "os", limit |-> 0]

Point(p, b)    == pointer' = [pointer EXCEPT ![p] = b]

(***************************************************************************)
(* Where a block comes from and where it goes.  A size above all classes   *)
(* is the operating system's, limit 0.                                     *)
(***************************************************************************)
ClassOf(size) ==
    IF \E l \in ClassLimits : size <= l
    THEN CHOOSE l \in ClassLimits : size <= l /\ \A m \in ClassLimits : size <= m => l <= m
    ELSE 0

HeaderOf(kind) ==
    CASE kind \in {"array", "tlsArray"} -> ArrayHeader
      [] kind = "virtual"               -> ObjectHeader + DeleterSize
      [] OTHER                          -> ObjectHeader

BlockSize(o)    == o.size + HeaderOf(o.kind)
Home(m, size)   == [manager |-> m, limit |-> ClassOf(size)]

(* MakeShared and its variants, on thread t.                               *)
TakenFrom(o, t) == Home(IF o.kind \in {"tls", "tlsArray"} THEN t ELSE "global", BlockSize(o))

(* Faulty: the header is forgotten when the block is given back.           *)
GivenToSmall(o, t) ==
    CASE o.kind \in {"object", "array", "virtual"} -> Home("global", o.size)
      [] OTHER                                     -> Home(t, o.size)

(* The deallocators.  That of a TLS object gives back sizeof(TObject).     *)
GivenTo(o, t) ==
    CASE o.kind \in {"object", "array", "virtual"} -> Home("global", BlockSize(o))
      [] o.kind = "tlsArray"                       -> Home(t, BlockSize(o))
      [] o.kind \in {"tls", "tlsNoDestruct"}       -> Home(t, o.size)

Init ==
    /\ refs = [b \in Blocks |-> 0]
    /\ state = [b \in Blocks |-> "free"]
    /\ object = [b \in Blocks |-> NoObject]
    /\ source = [b \in Blocks |-> NoHome] /\ returned = [b \in Blocks |-> NoHome]
    /\ pointer = [p \in Pointers |-> Null]
    /\ peeked = [t \in Threads |-> Null] /\ dying = [t \in Threads |-> Null]
    /\ writer = Null /\ readers = {}
    /\ pc = [t \in Threads |-> "idle"]

(* MakeShared: a block of the right class with a control block that counts *)
(* one reference.  When there is no block the pointer stays empty.         *)
Make(t) ==
    /\ pc[t] = "idle" /\ pointer[t] = Null
    /\ \E b \in Blocks, o \in [kind : Kinds, size : Sizes] :
          /\ state[b] = "free"
          /\ state'  = [state EXCEPT ![b] = "alive"]
          /\ object' = [object EXCEPT ![b] = o]
          /\ source' = [source EXCEPT ![b] = TakenFrom(o, t)]
          /\ refs'   = [refs EXCEPT ![b] = 1]
          /\ Point(t, b)
    /\ UNCHANGED <<returned, peeked, dying, lockVars, pc>>

(***************************************************************************)
(* TSharedPtr                                                              *)
(***************************************************************************)
(* Faulty: the copy is not counted.                                        *)
CopyUncounted(t, u) ==
    /\ pc[t] = "idle" /\ pc[u] = "idle" /\ pointer[t] # Null /\ pointer[u] = Null
    /\ Point(u, pointer[t])
    /\ UNCHANGED <<refs, blockVars, peeked, dying, lockVars, pc>>

(* A thread copies its pointer for another one, as a task's argument.      *)
Copy(t, u) ==
    /\ pc[t] = "idle" /\ pc[u] = "idle" /\ pointer[t] # Null /\ pointer[u] = Null
    /\ refs' = [refs EXCEPT ![pointer[t]] = @ + 1]
    /\ Point(u, pointer[t])
    /\ UNCHANGED <<blockVars, peeked, dying, lockVars, pc>>

Move(t, u) ==
    /\ pc[t] = "idle" /\ pc[u] = "idle" /\ pointer[t] # Null /\ pointer[u] = Null
    /\ pointer' = [pointer EXCEPT ![u] = pointer[t], ![t] = Null]
    /\ UNCHANGED <<refs, blockVars, peeked, dying, lockVars, pc>>

(* ReleaseReference by way of pointer p: who takes the count to zero       *)
(* destroys the object, everybody else goes on at once.                    *)
Dropped(t, p, next) ==
    LET b == pointer[p]
    IN  /\ refs' = [refs EXCEPT ![b] = @ - 1]
        /\ Point(p, Null)
        /\ dying' = [dying EXCEPT ![t] = IF refs[b] = 1 THEN b ELSE Null]
        /\ Goto(t, IF refs[b] = 1 THEN "destroy" ELSE next)

Reset(t) ==
    /\ pc[t] = "idle" /\ pointer[t] # Null
    /\ Dropped(t, t, "idle")
    /\ UNCHANGED <<blockVars, peeked, lockVars>>

(* The destructor runs, then the block is given back.  A thread that came  *)
(* from TLockedSharedPtr::reset still holds the lock.                      *)
Destroy(t) ==
    /\ pc[t] = "destroy"
    /\ state' = [state EXCEPT ![dying[t]] = "dead"]
    /\ Goto(t, "free")
    /\ UNCHANGED <<refs, object, source, returned, pointer, peeked, dying, lockVars>>

Free(t) ==
    LET b == dying[t]
    IN  /\ pc[t] = "free"
        /\ state' = [state EXCEPT ![b] = "free"]
        /\ returned' = [returned EXCEPT ![b] = GivenTo(object[b], t)]
        /\ dying' = [dying EXCEPT ![t] = Null]
        /\ Goto(t, IF writer = t THEN "unlock" ELSE "idle")
        /\ UNCHANGED <<refs, object, source, pointer, peeked, lockVars>>

(***************************************************************************)
(* TLockedSharedPtr, the pointer in the cell.                              *)
(***************************************************************************)
(* new_ref: the pointer is read and counted under the shared lock.         *)
LockShared(t) ==
    /\ pc[t] = "idle" /\ pointer[t] = Null
    /\ writer = Null /\ readers' = readers \cup {t}
    /\ Goto(t, "read")
    /\ UNCHANGED <<refs, blockVars, pointer, peeked, dying, writer>>

(* Faulty: the lock is given back before the reference is counted.         *)
ReadUnlocked(t) ==
    /\ pc[t] = "read"
    /\ peeked' = [peeked EXCEPT ![t] = pointer[Cell]]
    /\ readers' = readers \ {t}
    /\ Goto(t, IF pointer[Cell] = Null THEN "idle" ELSE "count")
    /\ UNCHANGED <<refs, blockVars, pointer, dying, writer>>

Read(t) ==
    /\ pc[t] = "read"
    /\ peeked' = [peeked EXCEPT ![t] = pointer[Cell]]
    /\ Goto(t, IF pointer[Cell] = Null THEN "unlock" ELSE "count")
    /\ UNCHANGED <<refs, blockVars, pointer, dying, lockVars>>

Count(t) ==
    /\ pc[t] = "count"
    /\ refs' = [refs EXCEPT ![peeked[t]] = @ + 1]
    /\ Point(t, peeked[t])
    /\ peeked' = [peeked EXCEPT ![t] = Null]
    /\ Goto(t, "unlock")
    /\ UNCHANGED <<blockVars, dying, lockVars>>

(* swap_ref, release and reset take the lock alone.                        *)
Lock(t, l) ==
    /\ pc[t] = "idle"
    /\ writer = Null /\ readers = {} /\ writer' = t
    /\ Goto(t, l)
    /\ UNCHANGED <<refs, blockVars, pointer, peeked, dying, readers>>

(* The thread's raw reference goes into the cell and the cell's reference  *)
(* to the thread; with an empty pointer this is release.                   *)
Swap(t) ==
    /\ pc[t] = "swap"
    /\ pointer' = [pointer EXCEPT ![t] = pointer[Cell], ![Cell] = pointer[t]]
    /\ Goto(t, "unlock")
    /\ UNCHANGED <<refs, blockVars, peeked, dying, lockVars>>

ResetCell(t) ==
    /\ pc[t] = "reset"
    /\ \/ pointer[Cell] = Null /\ Goto(t, "unlock") /\ UNCHANGED <<refs, pointer, dying>>
       \/ pointer[Cell] # Null /\ Dropped(t, Cell, "unlock")
    /\ UNCHANGED <<blockVars, peeked, lockVars>>

Unlock(t) ==
    /\ pc[t] = "unlock"
    /\ writer' = IF writer = t THEN Null ELSE writer
    /\ readers' = readers \ {t}
    /\ Goto(t, "idle")
    /\ UNCHANGED <<refs, blockVars, pointer, peeked, dying>>

Step(t) ==
    \/ Make(t) \/ Reset(t) \/ Destroy(t) \/ Free(t)
    \/ \E u \in Threads \ {t} : Copy(t, u) \/ Move(t, u)
    \/ LockShared(t) \/ Read(t) \/ Count(t)
    \/ Lock(t, "swap") \/ Swap(t) \/ Lock(t, "reset") \/ ResetCell(t) \/ Unlock(t)

Next == \E t \in Threads : Step(t)

Spec == Init /\ [][Next]_vars
-----------------------------------------------------------------------------
Homes == [manager : Threads \cup {"global", "os"}, limit : Nat]

TypeOK ==
    /\ refs \in [Blocks -> Nat]
    /\ state \in [Blocks -> {"free", "alive", "dead"}]
    /\ DOMAIN object = Blocks
    /\ source \in [Blocks -> Homes] /\ returned \in [Blocks -> Homes]
    /\ pointer \in [Pointers -> Blocks \cup {Null}]
    /\ peeked \in [Threads -> Blocks \cup {Null}]
    /\ dying \in [Threads -> Blocks \cup {Null}]
    /\ writer \in Threads \cup {Null} /\ readers \subseteq Threads
    /\ pc \in [Threads -> {"idle", "destroy", "free", "read", "count", "swap", "reset", "unlock"}]

(* The count of a control block is the number of pointers to its object,   *)
(* of which the cell's may be read by many threads at once.                *)
CountExact == \A b \in Blocks : refs[b] = Cardinality({p \in Pointers : pointer[p] = b})

RefsInv == TypeOK /\ CountExact

(* Nobody has, or is about to count, a reference to an object that is      *)
(* destroyed or freed, and one thread at most destroys it.                 *)
NoUseAfterFree ==
    /\ \A p \in Pointers : pointer[p] # Null => state[pointer[p]] = "alive"
    /\ \A t \in Threads : peeked[t] # Null => state[peeked[t]] = "alive" /\ refs[peeked[t]] > 0
    /\ \A t \in Threads : dying[t] # Null => state[dying[t]] # "free" /\ refs[dying[t]] = 0
    /\ \A t, u \in Threads : dying[t] # Null /\ dying[t] = dying[u] => t = u

(* No object is forgotten: one without references is being destroyed.      *)
NoneForgotten == \A b \in Blocks : state[b] # "free" /\ refs[b] = 0 => \E t \in Threads : dying[t] = b

(* An object is destroyed once, by who drops the last reference, after all *)
(* use of it.                                                              *)
DestroyedByLast == NoUseAfterFree /\ NoneForgotten

(* A block goes back to the manager and the class that it came from.       *)
GoesHome == \A b \in Blocks : state[b] = "free" => returned[b] = source[b]
=============================================================================
