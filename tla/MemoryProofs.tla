---------------------------- MODULE MemoryProofs ----------------------------
(***************************************************************************)
(* For all threads, blocks, kinds and sizes of objects: the count of a     *)
(* control block is exact, its object is destroyed once, by who drops the  *)
(* last reference, and a block of the global manager goes back to its      *)
(* class.  The argument for the count is one about sets of pointers: what  *)
(* one assignment of a pointer does to the number of those that point to a *)
(* block.  The argument for the object is that of the cell's lock: what a  *)
(* reader of the cell has read and not yet counted is still in the cell.   *)
(*                                                                         *)
(* Then the pools: for all threads, blocks and sizes of the ring, with the *)
(* spin lock or with atomics, no block is ever in two places, and with the *)
(* lock the ring serves as many blocks as it has.  PoolInv carries itself  *)
(* from step to step, but for Preallocate: that nobody has a block yet     *)
(* when it fills the slots is what Fresh says.  The argument for the ring  *)
(* is about the window of positions from the tail to the head, which is as *)
(* wide as there are blocks out: the slots outside it are full, and while  *)
(* no more than PoolSize are out those in it are empty (ServingInv).       *)
(***************************************************************************)
EXTENDS SharedMemory, ObjectPool, FiniteSetTheorems, WellFoundedInduction, TLAPS

(***************************************************************************)
(* The pointers that point to block b.                                     *)
(***************************************************************************)
Places == [Pointers -> Blocks \cup {Null}]

Holders(f, b) == {p \in Pointers : f[p] = b}

Assigned(f, g, p, c) == g = [f EXCEPT ![p] = c]

Exchanged(f, g, p, q) == g = [f EXCEPT ![p] = f[q], ![q] = f[p]]

LEMMA HoldersFinite ==
    ASSUME NEW f, NEW b
    PROVE  IsFiniteSet(Holders(f, b)) /\ Cardinality(Holders(f, b)) \in Nat
  <1>1. IsFiniteSet(Pointers)
      BY SharedAssumption, UsersAssumption, FS_AddElement DEF Pointers
  <1>2. Holders(f, b) \in SUBSET Pointers
      BY DEF Holders
  <1>3. IsFiniteSet(Holders(f, b))
      BY <1>1, <1>2, FS_Subset
  <1> QED BY <1>3, FS_CardinalityType

(* A count is zero if nobody points to the block; if it is one, there is   *)
(* one who does.                                                           *)
LEMMA CountTells ==
    ASSUME NEW f \in Places, NEW p \in Pointers
    PROVE  /\ Cardinality(Holders(f, f[p])) > 0
           /\ Cardinality(Holders(f, f[p])) = 1 => \A q \in Pointers : f[q] = f[p] => q = p
  <1>1. p \in Holders(f, f[p])
      BY DEF Holders
  <1>2. Cardinality(Holders(f, f[p])) # 0
      BY <1>1, HoldersFinite, FS_EmptySet
  <1>3. ASSUME Cardinality(Holders(f, f[p])) = 1, NEW q \in Pointers, f[q] = f[p] PROVE q = p
    <2>1. q \in Holders(f, f[p])
        BY <1>3 DEF Holders
    <2>2. \E x : Holders(f, f[p]) = {x}
        BY <1>3, HoldersFinite, FS_Singleton
    <2> QED BY <1>1, <2>1, <2>2
  <1> QED BY <1>2, <1>3, HoldersFinite

LEMMA NoneLeft ==
    ASSUME NEW f, NEW b, \A p \in Pointers : f[p] # b
    PROVE  Cardinality(Holders(f, b)) = 0
  <1>1. Holders(f, b) = {}
      BY DEF Holders
  <1> QED BY <1>1, FS_EmptySet

(* An assignment to one pointer.                                           *)
LEMMA Pointed ==
    ASSUME NEW f \in Places, NEW p \in Pointers, NEW c, c # f[p],
           NEW g, Assigned(f, g, p, c)
    PROVE  /\ Cardinality(Holders(g, c)) = Cardinality(Holders(f, c)) + 1
           /\ Cardinality(Holders(g, f[p])) = Cardinality(Holders(f, f[p])) - 1
           /\ \A b : b # c /\ b # f[p] => Holders(g, b) = Holders(f, b)
  <1>1. Holders(g, c) = Holders(f, c) \cup {p} /\ p \notin Holders(f, c)
      BY DEF Holders, Places, Assigned
  <1>2. Holders(g, f[p]) = Holders(f, f[p]) \ {p} /\ p \in Holders(f, f[p])
      BY DEF Holders, Places, Assigned
  <1>3. \A b : b # c /\ b # f[p] => Holders(g, b) = Holders(f, b)
      BY DEF Holders, Places, Assigned
  <1>4. Cardinality(Holders(g, c)) = Cardinality(Holders(f, c)) + 1
      BY <1>1, HoldersFinite, FS_AddElement
  <1>5. Cardinality(Holders(g, f[p])) = Cardinality(Holders(f, f[p])) - 1
      BY <1>2, HoldersFinite, FS_RemoveElement
  <1> QED BY <1>3, <1>4, <1>5

(* Two pointers change places: two assignments, if they differ at all.     *)
LEMMA Swapped ==
    ASSUME NEW f \in Places, NEW p \in Pointers, NEW q \in Pointers, p # q,
           NEW h, Exchanged(f, h, p, q), NEW b
    PROVE  Cardinality(Holders(h, b)) = Cardinality(Holders(f, b))
  <1>1. CASE f[p] = f[q]
    <2>1. h = f
        BY <1>1 DEF Places, Exchanged
    <2> QED BY <2>1
  <1>2. ASSUME f[p] # f[q], NEW g, Assigned(f, g, p, f[q])
        PROVE  Cardinality(Holders(h, b)) = Cardinality(Holders(f, b))
    <2>1. g \in Places /\ g[q] = f[q] /\ Assigned(g, h, q, f[p])
        BY <1>2 DEF Places, Assigned, Exchanged
    <2>2. /\ Cardinality(Holders(g, f[q])) = Cardinality(Holders(f, f[q])) + 1
          /\ Cardinality(Holders(g, f[p])) = Cardinality(Holders(f, f[p])) - 1
          /\ b # f[q] /\ b # f[p] => Holders(g, b) = Holders(f, b)
        BY <1>2, Pointed
    <2>3. /\ Cardinality(Holders(h, f[p])) = Cardinality(Holders(g, f[p])) + 1
          /\ Cardinality(Holders(h, g[q])) = Cardinality(Holders(g, g[q])) - 1
          /\ b # f[p] /\ b # g[q] => Holders(h, b) = Holders(g, b)
        BY <1>2, <2>1, Pointed
    <2>4. Cardinality(Holders(f, b)) \in Nat
        BY HoldersFinite
    <2>5. CASE b = f[p]
        BY <2>2, <2>3, <2>4, <2>5
    <2>6. CASE b = f[q]
        BY <2>1, <2>2, <2>3, <2>4, <2>6
    <2>7. CASE b # f[p] /\ b # f[q]
        BY <2>1, <2>2, <2>3, <2>7
    <2> QED BY <2>5, <2>6, <2>7
  <1> QED BY <1>1, <1>2 DEF Assigned

(***************************************************************************)
(* The block is given back to a class.                                     *)
(***************************************************************************)
LEMMA ClassIsNat == \A size \in Nat : ClassOf(size) \in Nat
  <1> SUFFICES ASSUME NEW size \in Nat PROVE ClassOf(size) \in Nat
      OBVIOUS
  <1> DEFINE Larger == {l \in ClassLimits : size <= l}
             Below  == OpToRel(<, Nat)
  <1>1. CASE Larger = {}
      BY <1>1 DEF ClassOf
  <1>2. CASE Larger # {}
    <2>1. \E l \in Larger : \A m \in Larger : ~ (<<m, l>> \in Below)
      <3> HIDE DEF Below
      <3>1. IsWellFoundedOn(Below, Nat)
          BY NatLessThanWellFounded DEF Below
      <3>2. Larger \subseteq Nat
          BY SharedAssumption, UsersAssumption
      <3> HIDE DEF Larger
      <3> QED BY <1>2, <3>1, <3>2, WFMin
    <2>2. \A m, l \in Nat : <<m, l>> \in Below <=> m < l
        BY DEF OpToRel
    <2> HIDE DEF Below
    <2>3. \E l \in ClassLimits : size <= l /\ \A m \in ClassLimits : size <= m => l <= m
      <3>1. PICK l \in Larger : \A m \in Larger : ~ (<<m, l>> \in Below)
          BY <2>1
      <3>2. \A m \in ClassLimits : size <= m => l <= m
        <4> SUFFICES ASSUME NEW m \in ClassLimits, size <= m PROVE l <= m
            OBVIOUS
        <4>1. m \in Nat /\ l \in Nat
            BY SharedAssumption, UsersAssumption
        <4>2. ~ (m < l)
            BY <2>2, <3>1, <4>1
        <4> QED BY <4>1, <4>2
      <3> QED BY <3>2
    <2>4. (CHOOSE l \in ClassLimits : size <= l /\ \A m \in ClassLimits : size <= m => l <= m)
              \in ClassLimits
        BY <2>3, Zenon
    <2> QED BY <2>4, SharedAssumption, UsersAssumption DEF ClassOf
  <1> QED BY <1>1, <1>2

Objects == [kind : Kinds, size : Sizes]

LEMMA SizeIsNat == \A o \in Objects : o.size \in Nat /\ BlockSize(o) \in Nat
  <1> QED BY SharedAssumption, UsersAssumption DEF Objects, BlockSize, HeaderOf

LEMMA HomeIsHome ==
    ASSUME NEW o \in Objects, NEW t \in Threads
    PROVE  TakenFrom(o, t) \in Homes /\ GivenTo(o, t) \in Homes
  <1>1. /\ ClassOf(o.size) \in Nat /\ ClassOf(BlockSize(o)) \in Nat
        /\ o.kind \in {"object", "array", "virtual", "tls", "tlsArray", "tlsNoDestruct"}
      BY SizeIsNat, ClassIsNat, SharedAssumption, UsersAssumption DEF Objects
  <1> QED BY <1>1 DEF TakenFrom, GivenTo, Home, Homes

(***************************************************************************)
(* The inductive invariant.                                                *)
(***************************************************************************)
(* The cell is read by many or changed by one.  A reader has an empty      *)
(* pointer of its own, and has read what the cell still holds.             *)
Locked ==
    /\ writer # Null => readers = {}
    /\ \A t \in Threads :
          /\ pc[t] \in {"read", "count"} => t \in readers /\ pointer[t] = Null
          /\ pc[t] \in {"swap", "reset"} => writer = t
          /\ pc[t] = "count" => peeked[t] = pointer[Cell] /\ peeked[t] # Null
          /\ pc[t] # "count" => peeked[t] = Null

(* Who has dropped the last reference is destroying the object.            *)
Dying == \A t \in Threads : dying[t] # Null <=> pc[t] \in {"destroy", "free"}

Made == \A b \in Blocks : state[b] # "free" => object[b] \in Objects

IInv == RefsInv /\ DestroyedByLast /\ Locked /\ Dying /\ Made

LEMMA InitIInv == Init => IInv
  <1> SUFFICES ASSUME Init PROVE IInv
      OBVIOUS
  <1>1. TypeOK
      BY SharedAssumption, UsersAssumption DEF Init, TypeOK, NoHome, Homes
  <1>2. CountExact
    <2> SUFFICES ASSUME NEW b \in Blocks PROVE refs[b] = Cardinality(Holders(pointer, b))
        BY DEF CountExact, Holders
    <2>1. Cardinality(Holders(pointer, b)) = 0
        BY SharedAssumption, UsersAssumption, NoneLeft DEF Init
    <2> QED BY <2>1 DEF Init
  <1>3. DestroyedByLast
      BY DEF Init, DestroyedByLast, NoUseAfterFree, NoneForgotten
  <1> QED BY <1>1, <1>2, <1>3 DEF IInv, RefsInv, Init, Locked, Dying, Made

(* What an exact count says of the pointers.                               *)
LEMMA Counted ==
    ASSUME TypeOK, CountExact, NEW p \in Pointers, pointer[p] # Null
    PROVE  /\ pointer[p] \in Blocks /\ refs[pointer[p]] \in Nat \ {0}
           /\ refs[pointer[p]] = 1 => \A q \in Pointers : pointer[q] = pointer[p] => q = p
  <1>1. pointer \in Places /\ pointer[p] \in Blocks
      BY DEF TypeOK, Places
  <1>2. refs[pointer[p]] = Cardinality(Holders(pointer, pointer[p]))
      BY <1>1 DEF CountExact, Holders
  <1> QED BY <1>1, <1>2, CountTells DEF TypeOK
(***************************************************************************)
(* Types and counts, by what a step does to the pointers.                  *)
(***************************************************************************)
LEMMA CountKept ==
    ASSUME CountExact, pointer' = pointer, refs' = refs
    PROVE  CountExact'
  <1> QED BY DEF CountExact

LEMMA CountGained ==
    ASSUME TypeOK, CountExact, NEW p \in Pointers, NEW b \in Blocks,
           pointer[p] = Null, pointer' = [pointer EXCEPT ![p] = b],
           refs' = [refs EXCEPT ![b] = refs[b] + 1]
    PROVE  CountExact'
  <1> SUFFICES ASSUME NEW c \in Blocks PROVE refs'[c] = Cardinality(Holders(pointer', c))
      BY DEF CountExact, Holders
  <1>1. pointer \in Places /\ b # pointer[p] /\ c # pointer[p] /\ Assigned(pointer, pointer', p, b)
      BY SharedAssumption, UsersAssumption DEF TypeOK, Places, Assigned
  <1>2. /\ Cardinality(Holders(pointer', b)) = Cardinality(Holders(pointer, b)) + 1
        /\ b # c => Holders(pointer', c) = Holders(pointer, c)
      BY <1>1, Pointed
  <1>3. refs[c] = Cardinality(Holders(pointer, c)) /\ refs[b] = Cardinality(Holders(pointer, b))
      BY DEF CountExact, Holders
  <1> QED BY <1>1, <1>2, <1>3 DEF TypeOK

LEMMA CountLost ==
    ASSUME TypeOK, CountExact, NEW p \in Pointers, pointer[p] # Null,
           pointer' = [pointer EXCEPT ![p] = Null],
           refs' = [refs EXCEPT ![pointer[p]] = refs[pointer[p]] - 1]
    PROVE  CountExact'
  <1> SUFFICES ASSUME NEW c \in Blocks PROVE refs'[c] = Cardinality(Holders(pointer', c))
      BY DEF CountExact, Holders
  <1>1. pointer \in Places /\ c # Null /\ pointer[p] \in Blocks /\ Assigned(pointer, pointer', p, Null)
      BY SharedAssumption, UsersAssumption DEF TypeOK, Places, Assigned
  <1>2. /\ Cardinality(Holders(pointer', pointer[p])) = Cardinality(Holders(pointer, pointer[p])) - 1
        /\ c # pointer[p] => Holders(pointer', c) = Holders(pointer, c)
      BY <1>1, Pointed
  <1>3. /\ refs[c] = Cardinality(Holders(pointer, c))
        /\ refs[pointer[p]] = Cardinality(Holders(pointer, pointer[p]))
      BY <1>1 DEF CountExact, Holders
  <1> QED BY <1>1, <1>2, <1>3 DEF TypeOK

LEMMA CountMoved ==
    ASSUME TypeOK, CountExact, NEW p \in Pointers, NEW q \in Pointers, p # q,
           pointer' = [pointer EXCEPT ![p] = pointer[q], ![q] = pointer[p]], refs' = refs
    PROVE  CountExact'
  <1> SUFFICES ASSUME NEW c \in Blocks PROVE refs'[c] = Cardinality(Holders(pointer', c))
      BY DEF CountExact, Holders
  <1>1. Cardinality(Holders(pointer', c)) = Cardinality(Holders(pointer, c))
    <2>1. pointer \in Places /\ Exchanged(pointer, pointer', p, q)
        BY DEF TypeOK, Places, Exchanged
    <2> QED BY <2>1, Swapped
  <1> QED BY <1>1 DEF CountExact, Holders

LEMMA CountExactStep == IInv /\ [Next]_vars => CountExact'
  <1> SUFFICES ASSUME IInv, [Next]_vars PROVE CountExact'
      OBVIOUS
  <1>0. TypeOK /\ CountExact /\ NoUseAfterFree /\ Locked /\ Cell \in Pointers /\ Threads \subseteq Pointers
      BY DEF IInv, RefsInv, DestroyedByLast, Pointers
  <1>1. ASSUME NEW t \in Threads, Step(t) PROVE CountExact'
    <2>1. CASE Make(t)
      <3>1. PICK b \in Blocks : /\ state[b] = "free" /\ refs' = [refs EXCEPT ![b] = 1]
                                /\ pointer' = [pointer EXCEPT ![t] = b] /\ pointer[t] = Null
          BY <2>1 DEF Make, Point
      <3>2. \A p \in Pointers : pointer[p] # b
          BY <1>0, <3>1, SharedAssumption, UsersAssumption DEF NoUseAfterFree
      <3>3. refs[b] = 0
        <4>1. Cardinality(Holders(pointer, b)) = 0
            BY <3>2, NoneLeft
        <4> QED BY <1>0, <4>1 DEF CountExact, Holders
      <3>4. refs' = [refs EXCEPT ![b] = refs[b] + 1]
          BY <3>1, <3>3
      <3> QED BY <1>0, <3>1, <3>4, CountGained
    <2>2. CASE \E u \in Threads \ {t} : Copy(t, u)
        BY <1>0, <2>2, Counted, CountGained DEF Copy, Point
    <2>3. CASE Count(t)
      <3>1. peeked[t] \in Blocks
          BY <1>0, <2>3 DEF Count, Locked, TypeOK
      <3> QED BY <1>0, <2>3, <3>1, CountGained DEF Count, Point, Locked
    <2>4. CASE Reset(t)
        BY <1>0, <2>4, CountLost DEF Reset, Dropped, Point
    <2>5. CASE ResetCell(t)
        BY <1>0, <2>5, CountLost, CountKept DEF ResetCell, Dropped, Point
    <2>6. CASE \E u \in Threads \ {t} : Move(t, u)
      <3>1. PICK u \in Threads \ {t} : Move(t, u)
          BY <2>6
      <3>2. pointer' = [pointer EXCEPT ![u] = pointer[t], ![t] = pointer[u]] /\ refs' = refs
          BY <3>1 DEF Move
      <3> QED BY <1>0, <3>2, CountMoved
    <2>7. CASE Swap(t)
      <3>1. t # Cell
          BY SharedAssumption, UsersAssumption DEF Cell
      <3> QED BY <1>0, <2>7, <3>1, CountMoved DEF Swap
    <2>8. CASE \/ Destroy(t) \/ Free(t) \/ LockShared(t) \/ Read(t)
               \/ Lock(t, "swap") \/ Lock(t, "reset") \/ Unlock(t)
        BY <1>0, <2>8, CountKept DEF Destroy, Free, LockShared, Read, Lock, Unlock
    <2> QED BY <1>1, <2>1, <2>2, <2>3, <2>4, <2>5, <2>6, <2>7, <2>8 DEF Step
  <1>2. CASE UNCHANGED vars
      BY <1>0, <1>2, CountKept DEF vars
  <1> QED BY <1>1, <1>2 DEF Next

LEMMA TypedStep == IInv /\ [Next]_vars => TypeOK'
  <1> SUFFICES ASSUME IInv, [Next]_vars PROVE TypeOK'
      OBVIOUS
  <1>0. TypeOK /\ CountExact /\ Locked /\ Dying /\ Made /\ NoUseAfterFree
        /\ Cell \in Pointers /\ Threads \subseteq Pointers
      BY DEF IInv, RefsInv, DestroyedByLast, Pointers
  <1>1. ASSUME NEW t \in Threads, Step(t) PROVE TypeOK'
    <2>1. CASE Make(t)
        BY <1>0, <2>1, HomeIsHome DEF Make, Point, TypeOK, Objects, lockVars
    <2>2. CASE \E u \in Threads \ {t} : Copy(t, u)
        BY <1>0, <2>2 DEF Copy, Point, TypeOK, blockVars, lockVars
    <2>3. CASE \E u \in Threads \ {t} : Move(t, u)
        BY <1>0, <2>3 DEF Move, TypeOK, blockVars, lockVars
    <2>4. ASSUME NEW p \in Pointers, NEW next \in {"idle", "unlock"}, pointer[p] # Null, Dropped(t, p, next),
                 UNCHANGED <<blockVars, peeked, lockVars>>
          PROVE  TypeOK'
      <3>1. pointer[p] \in Blocks /\ refs[pointer[p]] \in Nat \ {0}
          BY <1>0, <2>4, Counted
      <3> QED BY <1>0, <2>4, <3>1 DEF Dropped, Point, Goto, TypeOK, blockVars, lockVars
    <2>5. CASE Reset(t)
        BY <1>0, <2>4, <2>5 DEF Reset
    <2>6. CASE ResetCell(t)
      <3>1. CASE pointer[Cell] = Null
          BY <1>0, <2>6, <3>1 DEF ResetCell, Goto, TypeOK, blockVars, lockVars
      <3>2. CASE pointer[Cell] # Null
          BY <1>0, <2>4, <2>6, <3>2 DEF ResetCell
      <3> QED BY <3>1, <3>2
    <2>7. CASE Destroy(t)
        BY <1>0, <2>7 DEF Destroy, Goto, TypeOK, lockVars
    <2>8. CASE Free(t)
      <3>1. dying[t] \in Blocks /\ object[dying[t]] \in Objects
          BY <1>0, <2>8 DEF Free, Dying, TypeOK, NoUseAfterFree, Made
      <3>2. GivenTo(object[dying[t]], t) \in Homes
          BY <3>1, HomeIsHome
      <3> QED BY <1>0, <2>8, <3>2 DEF Free, Goto, TypeOK, lockVars
    <2>9. CASE Count(t)
        BY <1>0, <2>9 DEF Count, Locked, Point, Goto, TypeOK, blockVars, lockVars
    <2>10. CASE LockShared(t) \/ Read(t)
        BY <1>0, <2>10 DEF LockShared, Read, Goto, TypeOK, blockVars, lockVars
    <2>11. CASE Lock(t, "swap") \/ Lock(t, "reset") \/ Unlock(t)
        BY <1>0, <2>11 DEF Lock, Unlock, Goto, TypeOK, blockVars
    <2>12. CASE Swap(t)
        BY <1>0, <2>12 DEF Swap, Goto, TypeOK, blockVars, lockVars
    <2> QED BY <1>1, <2>1, <2>2, <2>3, <2>5, <2>6, <2>7, <2>8, <2>9, <2>10, <2>11, <2>12 DEF Step
  <1>2. CASE UNCHANGED vars
      BY <1>0, <1>2 DEF vars, blockVars, lockVars, TypeOK
  <1> QED BY <1>1, <1>2 DEF Next

(***************************************************************************)
(* The cell's lock, the phases of a thread and what was made in a block.   *)
(***************************************************************************)
LEMMA LockedStep == IInv /\ [Next]_vars => Locked'
  <1> SUFFICES ASSUME IInv, [Next]_vars PROVE Locked'
      OBVIOUS
  <1>0. TypeOK /\ Locked /\ Cell \in Pointers /\ Threads \subseteq Pointers /\ Cell \notin Threads
        /\ Null \notin Threads
      BY SharedAssumption, UsersAssumption DEF IInv, RefsInv, Pointers, Cell
  <1>1. ASSUME NEW t \in Threads, Step(t) PROVE Locked'
    <2> USE <1>0 DEF TypeOK, Locked, Goto, Point
    <2>1. CASE Make(t)
        BY <2>1 DEF Make, lockVars
    <2>2. CASE \E u \in Threads \ {t} : Copy(t, u)
        BY <2>2 DEF Copy, lockVars
    <2>3. CASE \E u \in Threads \ {t} : Move(t, u)
        BY <2>3 DEF Move, lockVars
    <2>4. CASE Reset(t)
        BY <2>4 DEF Reset, Dropped, lockVars
    <2>5. CASE ResetCell(t)
        BY <2>5 DEF ResetCell, Dropped, lockVars
    <2>6. CASE Destroy(t) \/ Free(t)
        BY <2>6 DEF Destroy, Free, lockVars
    <2>7. CASE LockShared(t)
        BY <2>7 DEF LockShared
    <2>8. CASE Read(t)
        BY <2>8 DEF Read, lockVars
    <2>9. CASE Count(t)
        BY <2>9 DEF Count, lockVars
    <2>10. CASE Lock(t, "swap") \/ Lock(t, "reset")
        BY <2>10 DEF Lock
    <2>11. CASE Swap(t)
        BY <2>11 DEF Swap, lockVars
    <2>12. CASE Unlock(t)
        BY <2>12 DEF Unlock
    <2> QED BY <1>1, <2>1, <2>2, <2>3, <2>4, <2>5, <2>6, <2>7, <2>8, <2>9, <2>10, <2>11, <2>12 DEF Step
  <1>2. CASE UNCHANGED vars
      BY <1>0, <1>2 DEF vars, lockVars, Locked
  <1> QED BY <1>1, <1>2 DEF Next

LEMMA DyingStep == IInv /\ [Next]_vars => Dying'
  <1> SUFFICES ASSUME IInv, [Next]_vars PROVE Dying'
      OBVIOUS
  <1>0. TypeOK /\ Dying /\ Cell \in Pointers /\ Threads \subseteq Pointers /\ Null \notin Blocks
      BY SharedAssumption, UsersAssumption DEF IInv, RefsInv, Pointers
  <1>1. ASSUME NEW t \in Threads, Step(t) PROVE Dying'
    <2> USE <1>0 DEF TypeOK, Dying, Goto
    <2>1. CASE \/ Make(t) \/ \E u \in Threads \ {t} : Copy(t, u) \/ Move(t, u)
        BY <2>1 DEF Make, Copy, Move
    <2>2. CASE Reset(t) \/ ResetCell(t)
        BY <2>2 DEF Reset, ResetCell, Dropped
    <2>3. CASE Destroy(t) \/ Free(t)
        BY <2>3 DEF Destroy, Free
    <2>4. CASE LockShared(t) \/ Read(t) \/ Count(t)
        BY <2>4 DEF LockShared, Read, Count
    <2>5. CASE Lock(t, "swap") \/ Lock(t, "reset") \/ Swap(t) \/ Unlock(t)
        BY <2>5 DEF Lock, Swap, Unlock
    <2> QED BY <1>1, <2>1, <2>2, <2>3, <2>4, <2>5 DEF Step
  <1>2. CASE UNCHANGED vars
      BY <1>0, <1>2 DEF vars, Dying
  <1> QED BY <1>1, <1>2 DEF Next

(* Only Make, Destroy and Free change a block.                             *)
LEMMA BlockSteps ==
    ASSUME [Next]_vars
    PROVE  \/ UNCHANGED blockVars
           \/ \E t \in Threads : Make(t) \/ Destroy(t) \/ Free(t)
  <1> QED BY DEF Next, Step, vars, Copy, Move, Reset, ResetCell, LockShared, Read, Count, Lock, Swap, Unlock

LEMMA MadeStep == IInv /\ [Next]_vars => Made'
  <1> SUFFICES ASSUME IInv, [Next]_vars PROVE Made'
      OBVIOUS
  <1>0. TypeOK /\ Made /\ Dying /\ NoUseAfterFree
      BY DEF IInv, RefsInv, DestroyedByLast
  <1>1. CASE UNCHANGED blockVars
      BY <1>0, <1>1 DEF blockVars, Made
  <1>2. ASSUME NEW t \in Threads, Make(t) PROVE Made'
      BY <1>0, <1>2 DEF Make, Made, TypeOK, Objects
  <1>3. ASSUME NEW t \in Threads, Destroy(t) \/ Free(t) PROVE Made'
      BY <1>0, <1>3 DEF Destroy, Free, Made, TypeOK, Dying, NoUseAfterFree
  <1> QED BY <1>1, <1>2, <1>3, BlockSteps

(***************************************************************************)
(* The object is destroyed after the last use, once.                       *)
(***************************************************************************)
LEMMA DestroyedByLastStep == IInv /\ [Next]_vars => DestroyedByLast'
  <1> SUFFICES ASSUME IInv, [Next]_vars PROVE DestroyedByLast'
      OBVIOUS
  <1>0. /\ TypeOK /\ CountExact /\ NoUseAfterFree /\ NoneForgotten /\ Locked /\ Dying
        /\ Cell \in Pointers /\ Threads \subseteq Pointers /\ Cell \notin Threads
        /\ Null \notin Threads /\ Null \notin Blocks
      BY SharedAssumption, UsersAssumption DEF IInv, RefsInv, DestroyedByLast, Pointers, Cell
  <1>a. \A p \in Pointers : pointer[p] # Null =>
            /\ pointer[p] \in Blocks /\ refs[pointer[p]] \in Nat \ {0}
            /\ refs[pointer[p]] = 1 => \A q \in Pointers : pointer[q] = pointer[p] => q = p
      BY <1>0, Counted
  <1>b. \A t, u \in Threads : pointer[t] # Null =>
            (peeked[u] = pointer[t] => t # Cell /\ pointer[Cell] = pointer[t])
    <2> SUFFICES ASSUME NEW t \in Threads, NEW u \in Threads, pointer[t] # Null, peeked[u] = pointer[t]
                 PROVE  t # Cell /\ pointer[Cell] = pointer[t]
        OBVIOUS
    <2>1. pc[u] = "count"
        BY <1>0 DEF Locked
    <2> QED BY <1>0, <2>1 DEF Locked
  <1>1. ASSUME NEW t \in Threads, Step(t) PROVE DestroyedByLast'
    <2> USE <1>0, <1>a DEF TypeOK, NoUseAfterFree, NoneForgotten, DestroyedByLast, Goto, Point
    <2>1. CASE Make(t)
        BY <2>1 DEF Make
    <2>2. CASE \E u \in Threads \ {t} : Copy(t, u)
        BY <2>2 DEF Copy, blockVars
    <2>3. CASE \E u \in Threads \ {t} : Move(t, u)
        BY <2>3 DEF Move, blockVars
    <2>4. ASSUME NEW p \in Pointers, NEW next \in {"idle", "unlock"}, pointer[p] # Null, Dropped(t, p, next),
                 UNCHANGED <<blockVars, peeked, lockVars>>, dying[t] = Null,
                 \A u \in Threads : peeked[u] = pointer[p] => p # Cell /\ pointer[Cell] = pointer[p]
          PROVE  DestroyedByLast'
        BY <2>4 DEF Dropped, blockVars
    <2>5. CASE Reset(t)
        BY <1>b, <2>4, <2>5 DEF Reset, Dying
    <2>6. CASE ResetCell(t)
      <3>1. CASE pointer[Cell] = Null
          BY <2>6, <3>1 DEF ResetCell, blockVars
      <3>2. CASE pointer[Cell] # Null
        <4>1. \A u \in Threads : peeked[u] # pointer[Cell]
            BY <2>6, <3>2 DEF Locked, ResetCell
        <4> QED BY <2>4, <2>6, <3>2, <4>1 DEF ResetCell, Dying
      <3> QED BY <3>1, <3>2
    <2>7. CASE Destroy(t)
        BY <2>7 DEF Destroy, Dying
    <2>8. CASE Free(t)
        BY <2>8 DEF Free, Dying
    <2>9. CASE Count(t)
        BY <2>9 DEF Count, Locked, blockVars
    <2>10. CASE Read(t)
        BY <2>10 DEF Read, blockVars
    <2>11. CASE LockShared(t) \/ Lock(t, "swap") \/ Lock(t, "reset") \/ Unlock(t)
        BY <2>11 DEF LockShared, Lock, Unlock, blockVars
    <2>12. CASE Swap(t)
        BY <2>12 DEF Swap, blockVars
    <2> QED BY <1>1, <2>1, <2>2, <2>3, <2>5, <2>6, <2>7, <2>8, <2>9, <2>10, <2>11, <2>12 DEF Step
  <1>2. CASE UNCHANGED vars
      BY <1>0, <1>2 DEF vars, blockVars, DestroyedByLast, NoUseAfterFree, NoneForgotten
  <1> QED BY <1>1, <1>2 DEF Next

LEMMA Inductive == IInv /\ [Next]_vars => IInv'
  <1> QED BY TypedStep, CountExactStep, DestroyedByLastStep, LockedStep, DyingStep, MadeStep
             DEF IInv, RefsInv

(* The reference count of every control block is the number of pointers to *)
(* its object at all times, whoever copies, moves, swaps and resets them.  *)
THEOREM CountIsExact == Spec => []RefsInv
  <1>1. IInv => RefsInv
      BY DEF IInv
  <1> QED BY InitIInv, Inductive, <1>1, PTL DEF Spec

(* TLockedSharedPtr::new_ref never counts a reference to an object that    *)
(* reset or swap_ref let go of, and each object is destroyed by one thread,*)
(* the one that dropped the last reference.                                *)
THEOREM LastDestroys == Spec => []DestroyedByLast
  <1>1. IInv => DestroyedByLast
      BY DEF IInv
  <1> QED BY InitIInv, Inductive, <1>1, PTL DEF Spec

(***************************************************************************)
(* The way home of blocks of the global memory manager.                    *)
(***************************************************************************)
Sourced == \A b \in Blocks : state[b] # "free" => source[b] = Home("global", BlockSize(object[b]))

(* A block of an object made with the global memory manager goes back to   *)
(* the pool that it came from, whichever thread frees it.  That is not so  *)
(* for the objects of a thread's own memory manager.                       *)
THEOREM GlobalsGoHome ==
    ASSUME Kinds \subseteq {"object", "array", "virtual"}
    PROVE  Spec => []GoesHome
  <1> DEFINE HInv == IInv /\ Sourced /\ GoesHome
  <1>1. Init => HInv
      BY InitIInv DEF Init, Sourced, GoesHome
  <1>2. HInv /\ [Next]_vars => HInv'
    <2> SUFFICES ASSUME HInv, [Next]_vars PROVE Sourced' /\ GoesHome'
        BY Inductive
    <2>0. TypeOK /\ Made /\ Dying /\ NoUseAfterFree /\ Sourced /\ GoesHome
        BY DEF IInv, RefsInv, DestroyedByLast
    <2>1. CASE UNCHANGED blockVars
        BY <2>0, <2>1 DEF blockVars, Sourced, GoesHome
    <2>2. ASSUME NEW t \in Threads, Make(t) PROVE Sourced' /\ GoesHome'
      <3>1. \A o \in Objects : TakenFrom(o, t) = Home("global", BlockSize(o))
          BY DEF Objects, TakenFrom
      <3> QED BY <2>0, <2>2, <3>1 DEF Make, Sourced, GoesHome, TypeOK, Objects
    <2>3. ASSUME NEW t \in Threads, Destroy(t) PROVE Sourced' /\ GoesHome'
        BY <2>0, <2>3 DEF Destroy, Sourced, GoesHome, TypeOK, Dying, NoUseAfterFree
    <2>4. ASSUME NEW t \in Threads, Free(t) PROVE Sourced' /\ GoesHome'
      <3>1. dying[t] \in Blocks /\ state[dying[t]] # "free" /\ object[dying[t]] \in Objects
          BY <2>0, <2>4 DEF Free, TypeOK, Dying, NoUseAfterFree, Made
      <3>2. GivenTo(object[dying[t]], t) = Home("global", BlockSize(object[dying[t]]))
          BY <3>1 DEF Objects, GivenTo
      <3> QED BY <2>0, <2>4, <3>1, <3>2 DEF Free, Sourced, GoesHome, TypeOK
    <2> QED BY <2>1, <2>2, <2>3, <2>4, BlockSteps
  <1>3. HInv => GoesHome
      OBVIOUS
  <1> QED BY <1>1, <1>2, <1>3, PTL DEF Spec

-----------------------------------------------------------------------------
(***************************************************************************)
(* The pools, of ObjectPool.                                               *)
(***************************************************************************)
(* Before the first Allocate has taken its position nobody has a block.    *)
Fresh ==
    head = 0 =>
        /\ used = {}
        /\ \A t \in Threads : hand[t] = Null /\ pc[t] \in {"idle", "head", "empty"}

PoolIInv == PoolInv /\ Fresh

LEMMA SlotsIndexed == \A n \in Nat : Index(n) \in Slots
  <1> QED BY PoolAssumption, UsersAssumption DEF Index, Slots

LEMMA PoolInitIInv == PoolInit => PoolIInv
  <1> SUFFICES ASSUME PoolInit PROVE PoolIInv
      OBVIOUS
  <1>1. PoolTypeOK
      BY PoolAssumption, UsersAssumption DEF PoolInit, PoolTypeOK
  <1>2. OwnedOnce
      BY DEF PoolInit, OwnedOnce, Pooled, InHand
  <1> QED BY <1>1, <1>2 DEF PoolIInv, PoolInv, Fresh, PoolInit

(***************************************************************************)
(* What a step leaves alone, and the places between which a block moves.   *)
(***************************************************************************)
LEMMA Unmoved ==
    ASSUME OwnedOnce, slots' = slots, hand' = hand, used' = used
    PROVE  OwnedOnce'
  <1> QED BY DEF OwnedOnce, Pooled, InHand

LEMMA PoolTypedStep == PoolIInv /\ [PoolNext]_poolVars => PoolTypeOK'
  <1> SUFFICES ASSUME PoolTypeOK, [PoolNext]_poolVars PROVE PoolTypeOK'
      BY DEF PoolIInv, PoolInv
  <1> USE PoolAssumption, UsersAssumption, SlotsIndexed DEF PoolTypeOK, history, Goto, Carry, Put
  <1>1. CASE Preallocate
      BY <1>1 DEF Preallocate
  <1>2. ASSUME NEW t \in Threads, PoolStep(t) PROVE PoolTypeOK'
    <2>1. CASE Allocate(t)
        BY <2>1 DEF Allocate, Acquire
    <2>2. CASE AllocateTicket(t)
        BY <2>2 DEF AllocateTicket
    <2>3. CASE AllocateTake(t)
        BY <2>3 DEF AllocateTake, Release
    <2>4. CASE AllocateFromOS(t)
        BY <2>4 DEF AllocateFromOS, OSBlocks
    <2>5. CASE Deallocate(t)
        BY <2>5 DEF Deallocate, Acquire
    <2>6. CASE DeallocateTicket(t)
        BY <2>6 DEF DeallocateTicket
    <2>7. CASE DeallocatePut(t)
        BY <2>7 DEF DeallocatePut, Release
    <2>8. CASE DeallocateToOS(t)
        BY <2>8 DEF DeallocateToOS
    <2>9. CASE FreePool(t)
        BY <2>9 DEF FreePool, Acquire
    <2>10. CASE FreeSlot(t)
      <3>1. /\ slots' \in [Slots -> Blocks \cup {Null}]
            /\ lock' \in Threads \cup {Null}
            /\ UNCHANGED <<variant, head, tail, hand, used, history>>
          BY <2>10 DEF FreeSlot, Release
      <3>2. at' \in [Threads -> Nat]
          BY <2>10 DEF FreeSlot
      <3>3. pc' \in [Threads -> {"idle", "head", "take", "malloc", "tail", "put", "free", "empty"}]
          BY <2>10 DEF FreeSlot
      <3> QED BY <3>1, <3>2, <3>3
    <2> QED BY <1>2, <2>1, <2>2, <2>3, <2>4, <2>5, <2>6, <2>7, <2>8, <2>9, <2>10 DEF PoolStep
  <1>3. CASE UNCHANGED poolVars
      BY <1>3 DEF poolVars
  <1> QED BY <1>1, <1>2, <1>3 DEF PoolNext

LEMMA OwnedOnceStep == PoolIInv /\ [PoolNext]_poolVars => OwnedOnce'
  <1> SUFFICES ASSUME PoolIInv, [PoolNext]_poolVars PROVE OwnedOnce'
      OBVIOUS
  <1>0. PoolTypeOK /\ OwnedOnce /\ Fresh
      BY DEF PoolIInv, PoolInv
  <1>1. CASE Preallocate
    <2>1. used = {} /\ InHand = {} /\ used' = used /\ hand' = hand
        BY <1>0, <1>1 DEF Preallocate, Fresh, InHand
    <2>2. \A i, j \in Slots : slots'[i] = slots'[j] /\ slots'[i] # Null => i = j
        BY <1>1 DEF Preallocate
    <2> QED BY <1>0, <2>1, <2>2 DEF OwnedOnce, InHand
  <1>2. ASSUME NEW t \in Threads, PoolStep(t) PROVE OwnedOnce'
    <2> USE <1>0, SlotsIndexed, PoolAssumption, UsersAssumption DEF PoolTypeOK, Put, Carry
    <2>1. CASE \/ Allocate(t) \/ AllocateTicket(t) \/ DeallocateTicket(t) \/ FreePool(t)
        BY <2>1, Unmoved DEF Allocate, AllocateTicket, DeallocateTicket, FreePool
    <2>2. CASE AllocateTake(t)
        BY <2>2 DEF AllocateTake, OwnedOnce, Pooled, InHand
    <2>3. CASE AllocateFromOS(t)
        BY <2>3 DEF AllocateFromOS, OSBlocks, OwnedOnce, Pooled, InHand
    <2>4. CASE Deallocate(t)
        BY <2>4 DEF Deallocate, OwnedOnce, Pooled, InHand
    <2>5. CASE DeallocatePut(t)
        BY <2>5 DEF DeallocatePut, OwnedOnce, Pooled, InHand
    <2>6. CASE DeallocateToOS(t)
        BY <2>6 DEF DeallocateToOS, OwnedOnce, Pooled, InHand
    <2>7. CASE FreeSlot(t)
        BY <2>7 DEF FreeSlot, OwnedOnce, Pooled, InHand
    <2> QED BY <1>2, <2>1, <2>2, <2>3, <2>4, <2>5, <2>6, <2>7 DEF PoolStep
  <1>3. CASE UNCHANGED poolVars
      BY <1>0, <1>3, Unmoved DEF poolVars
  <1> QED BY <1>1, <1>2, <1>3 DEF PoolNext

LEMMA FreshStep == PoolIInv /\ [PoolNext]_poolVars => Fresh'
  <1> SUFFICES ASSUME PoolTypeOK, Fresh, [PoolNext]_poolVars, head' = 0 PROVE Fresh'
      BY DEF PoolIInv, PoolInv, Fresh
  <1>1. CASE Preallocate
      BY <1>1 DEF Preallocate, Fresh, Quiet
  <1>2. ASSUME NEW t \in Threads, PoolStep(t) PROVE Fresh'
    <2>1. head = 0
        BY <1>2 DEF PoolStep, PoolTypeOK, Allocate, AllocateTicket, AllocateTake, AllocateFromOS, Deallocate,
           DeallocateTicket, DeallocatePut, DeallocateToOS, FreePool, FreeSlot
    <2>2. Allocate(t) \/ FreePool(t) \/ FreeSlot(t)
        BY <1>2, <2>1 DEF PoolStep, PoolTypeOK, Fresh, AllocateTicket, AllocateTake, AllocateFromOS,
           Deallocate, DeallocateTicket, DeallocatePut, DeallocateToOS
    <2> QED BY <2>1, <2>2 DEF PoolTypeOK, Fresh, Goto, Allocate, FreePool, FreeSlot
  <1>3. CASE UNCHANGED poolVars
      BY <1>3 DEF poolVars, Fresh
  <1> QED BY <1>1, <1>2, <1>3 DEF PoolNext

(* In either variant of the pool, whoever overtakes whom between position  *)
(* and slot: nobody is given a block that somebody else has.               *)
THEOREM BlocksOwnedOnce == PoolSpec => []PoolInv
  <1>1. PoolIInv /\ [PoolNext]_poolVars => PoolIInv'
      BY PoolTypedStep, OwnedOnceStep, FreshStep DEF PoolIInv, PoolInv
  <1>2. PoolIInv => PoolInv
      BY DEF PoolIInv
  <1> QED BY PoolInitIInv, <1>1, <1>2, PTL DEF PoolSpec

-----------------------------------------------------------------------------
(***************************************************************************)
(* What the lock and the positions are worth while the ring serves: it was *)
(* filled, and every Allocate since has had its block.                     *)
(***************************************************************************)
Critical == {"head", "take", "tail", "put", "empty"}
Serving  == variant = "spinlock" /\ whole

RingLocked  == variant = "spinlock" => \A t \in Threads : pc[t] \in Critical <=> lock = t
Carried == \A t \in Threads : pc[t] \in {"tail", "put"} => hand[t] # Null

Aimed ==
    variant = "spinlock" =>
        \A t \in Threads : /\ pc[t] = "take" => head = at[t] + 1
                           /\ pc[t] = "put" => tail = at[t] + 1

(* The positions whose slots have been taken from and put to.              *)
FrontOf(p, h) == IF \E t \in Threads : p[t] = "take" THEN h - 1 ELSE h
BackOf(p, k)  == IF \E t \in Threads : p[t] = "put" THEN k - 1 ELSE k
Front == FrontOf(pc, head)
Back  == BackOf(pc, tail)

(* Slots out of the window from b to f are full; those in it are empty.    *)
FullOutside(s, b, f) == \A i \in Slots : (\A n \in b .. f - 1 : Index(n) # i) => s[i] # Null
EmptyInside(s, b, f) == \A n \in b .. f - 1 : s[Index(n)] = Null

(* Threads with a position of the head whose block no caller has yet, or   *)
(* with a block that has no position of the tail yet.                      *)
PendingOf(p) == {t \in Threads : p[t] \in {"take", "malloc", "tail"}}
Pending == PendingOf(pc)

RingCounted ==
    /\ IsFiniteSet(used) /\ IsFiniteSet(Pending)
    /\ head = tail + Cardinality(used) + Cardinality(Pending)

WithinBounds ==
    ~over =>
        /\ ~spilled /\ \A t \in Threads : pc[t] \notin {"malloc", "free"}
        /\ head - tail <= PoolSize /\ Front - Back <= PoolSize
        /\ EmptyInside(slots, Back, Front)

ServingInv ==
    Serving =>
        /\ \A t \in Threads : pc[t] # "empty"
        /\ RingCounted
        /\ FullOutside(slots, Back, Front)
        /\ WithinBounds

(* Before the first position is taken nothing was asked of the ring.       *)
Early == head = 0 => ~over /\ ~spilled

RingInv == PoolIInv /\ Early /\ RingLocked /\ Carried /\ Aimed /\ ServingInv

LEMMA Quotient ==
    \A n \in Nat \ {0}, i \in Nat : \E q \in Nat : i = n * q + (i % n) /\ i % n \in 0 .. n - 1
  <1> SUFFICES ASSUME NEW n \in Nat \ {0}, NEW i \in Nat
               PROVE  \E q \in Nat : i = n * q + (i % n) /\ i % n \in 0 .. n - 1
      OBVIOUS
  <1>1. i = n * (i \div n) + (i % n) /\ i % n \in 0 .. n - 1 /\ i \div n \in Nat
      OBVIOUS
  <1> QED BY <1>1

(* Positions less than PoolSize apart have different slots.                *)
LEMMA IndexesApart ==
    ASSUME NEW i \in Nat, NEW j \in Nat, i < j, j < i + PoolSize
    PROVE  Index(i) # Index(j)
  <1> SUFFICES ASSUME i % PoolSize = j % PoolSize PROVE FALSE
      BY DEF Index
  <1>a. PICK a \in Nat : i = PoolSize * a + (i % PoolSize) /\ i % PoolSize \in 0 .. PoolSize - 1
      BY Quotient, PoolAssumption, UsersAssumption
  <1>b. PICK b \in Nat : j = PoolSize * b + (j % PoolSize)
      BY Quotient, PoolAssumption, UsersAssumption
  <1>1. PoolSize \in Nat /\ PoolSize * a \in Nat /\ PoolSize * b \in Nat
      BY PoolAssumption, UsersAssumption
  <1>2. CASE a < b
    <2>1. PoolSize * (b - a - 1) >= 0
        BY <1>2, PoolAssumption, UsersAssumption
    <2>2. PoolSize * b >= PoolSize * a + PoolSize
        BY <2>1, PoolAssumption, UsersAssumption
    <2> QED BY <1>a, <1>b, <1>1, <2>2
  <1>3. CASE b <= a
    <2>1. PoolSize * (a - b) >= 0
        BY <1>3, PoolAssumption, UsersAssumption
    <2>2. PoolSize * a >= PoolSize * b
        BY <2>1, PoolAssumption, UsersAssumption
    <2> QED BY <1>a, <1>b, <1>1, <2>2
  <1> QED BY <1>2, <1>3

(***************************************************************************)
(* The window of positions grows at the front by a slot that is emptied,   *)
(* and shrinks at the back by one that is filled.                          *)
(***************************************************************************)
LEMMA FrontMoves ==
    ASSUME NEW S, NEW s \in [Slots -> S], NEW b \in Nat, NEW f \in Nat, b <= f
    PROVE  LET z == [s EXCEPT ![Index(f)] = Null]
           IN  /\ FullOutside(s, b, f) => FullOutside(z, b, f + 1)
               /\ EmptyInside(s, b, f) => EmptyInside(z, b, f + 1)
               /\ FullOutside(s, b, f) /\ f - b < PoolSize => s[Index(f)] # Null
  <1> DEFINE z == [s EXCEPT ![Index(f)] = Null]
  <1>1. Index(f) \in Slots /\ (f + 1) - 1 = f /\ f \in b .. f
      BY SlotsIndexed
  <1>2. z[Index(f)] = Null /\ \A i \in Slots : i # Index(f) => z[i] = s[i]
      BY <1>1
  <1>3. \A n \in b .. f : n \in Nat /\ Index(n) \in Slots /\ (n # f => n \in b .. f - 1)
      BY SlotsIndexed
  <1> HIDE DEF z
  <1>4. ASSUME FullOutside(s, b, f) PROVE FullOutside(z, b, f + 1)
    <2> SUFFICES ASSUME NEW i \in Slots, \A n \in b .. f : Index(n) # i PROVE z[i] # Null
        BY <1>1 DEF FullOutside
    <2>1. i # Index(f) /\ \A n \in b .. f - 1 : Index(n) # i
        BY <1>1
    <2> QED BY <1>2, <1>4, <2>1 DEF FullOutside
  <1>5. ASSUME EmptyInside(s, b, f) PROVE EmptyInside(z, b, f + 1)
    <2> SUFFICES ASSUME NEW n \in b .. f PROVE z[Index(n)] = Null
        BY <1>1 DEF EmptyInside
    <2>1. n # f => s[Index(n)] = Null
        BY <1>3, <1>5 DEF EmptyInside
    <2>2. n # f => z[Index(n)] = Null
        BY <1>2, <1>3, <2>1
    <2> QED BY <1>2, <2>2
  <1>6. ASSUME FullOutside(s, b, f), f - b < PoolSize PROVE s[Index(f)] # Null
    <2>1. \A n \in b .. f - 1 : n \in Nat /\ n < f /\ f < n + PoolSize
        BY <1>6, PoolAssumption, UsersAssumption
    <2>2. \A n \in b .. f - 1 : Index(n) # Index(f)
        BY <2>1, IndexesApart
    <2> QED BY <1>1, <1>6, <2>2 DEF FullOutside
  <1> QED BY <1>4, <1>5, <1>6 DEF z

LEMMA BackMoves ==
    ASSUME NEW S, NEW s \in [Slots -> S], NEW b \in Nat, NEW f \in Nat, b < f,
           NEW x, x # Null
    PROVE  LET z == [s EXCEPT ![Index(b)] = x]
           IN  /\ FullOutside(s, b, f) => FullOutside(z, b + 1, f)
               /\ EmptyInside(s, b, f) /\ f - b <= PoolSize =>
                     EmptyInside(z, b + 1, f) /\ s[Index(b)] = Null
  <1> DEFINE z == [s EXCEPT ![Index(b)] = x]
  <1>1. Index(b) \in Slots /\ b \in b .. f - 1
      BY SlotsIndexed
  <1>2. z[Index(b)] = x /\ \A i \in Slots : i # Index(b) => z[i] = s[i]
      BY <1>1
  <1>3. \A n \in b .. f - 1 : n \in Nat /\ Index(n) \in Slots /\ (n # b => n \in b + 1 .. f - 1)
      BY SlotsIndexed
  <1> HIDE DEF z
  <1>4. ASSUME FullOutside(s, b, f) PROVE FullOutside(z, b + 1, f)
    <2> SUFFICES ASSUME NEW i \in Slots, \A n \in b + 1 .. f - 1 : Index(n) # i, i # Index(b)
                 PROVE  z[i] # Null
        BY <1>2 DEF FullOutside
    <2>1. \A n \in b .. f - 1 : Index(n) # i
        BY <1>3
    <2> QED BY <1>2, <1>4, <2>1 DEF FullOutside
  <1>5. ASSUME EmptyInside(s, b, f), f - b <= PoolSize
        PROVE  EmptyInside(z, b + 1, f) /\ s[Index(b)] = Null
    <2>1. ASSUME NEW n \in b + 1 .. f - 1 PROVE z[Index(n)] = Null
      <3>1. n \in Nat /\ b < n /\ n < b + PoolSize /\ n \in b .. f - 1
          BY <1>5, PoolAssumption, UsersAssumption
      <3>2. Index(b) # Index(n)
          BY <3>1, IndexesApart
      <3>3. s[Index(n)] = Null
          BY <1>5, <3>1 DEF EmptyInside
      <3> QED BY <1>2, <1>3, <3>1, <3>2, <3>3
    <2> QED BY <1>1, <1>5, <2>1 DEF EmptyInside
  <1> QED BY <1>4, <1>5 DEF z

LEMMA RingInit == PoolInit => RingInv
  <1> SUFFICES ASSUME PoolInit PROVE RingInv
      OBVIOUS
  <1>1. Early /\ RingLocked /\ Carried /\ Aimed /\ ServingInv
      BY PoolAssumption, UsersAssumption DEF PoolInit, Early, RingLocked, Carried, Aimed, ServingInv, Serving, Critical
  <1> QED BY <1>1, PoolInitIInv DEF RingInv

LEMMA EarlyStep == RingInv /\ [PoolNext]_poolVars => Early'
  <1> SUFFICES ASSUME PoolTypeOK, Fresh, Early, [PoolNext]_poolVars, head' = 0 PROVE ~over' /\ ~spilled'
      BY DEF RingInv, PoolIInv, PoolInv, Early
  <1>1. CASE Preallocate
      BY <1>1 DEF Preallocate, Early
  <1>2. ASSUME NEW t \in Threads, PoolStep(t) PROVE ~over' /\ ~spilled'
    <2>1. head = 0
        BY <1>2 DEF PoolStep, PoolTypeOK, Allocate, AllocateTicket, AllocateTake, AllocateFromOS, Deallocate,
           DeallocateTicket, DeallocatePut, DeallocateToOS, FreePool, FreeSlot
    <2>2. Allocate(t) \/ FreePool(t) \/ FreeSlot(t)
        BY <1>2, <2>1 DEF PoolStep, PoolTypeOK, Fresh, AllocateTicket, AllocateTake, AllocateFromOS,
           Deallocate, DeallocateTicket, DeallocatePut, DeallocateToOS
    <2> QED BY <2>1, <2>2 DEF Early, Allocate, FreePool, FreeSlot, history
  <1>3. CASE UNCHANGED poolVars
      BY <1>3 DEF poolVars, history, Early
  <1> QED BY <1>1, <1>2, <1>3 DEF PoolNext

(* Where each step leaves the thread that takes it.                        *)
LEMMA RingPlaces ==
    ASSUME PoolTypeOK, NEW t \in Threads, NEW l, Goto(t, l)
    PROVE  \A s \in Threads : pc'[s] = IF s = t THEN l ELSE pc[s]
  <1> QED BY DEF PoolTypeOK, Goto

LEMMA LockStep == RingInv /\ [PoolNext]_poolVars => RingLocked'
  <1> SUFFICES ASSUME PoolTypeOK, RingLocked, [PoolNext]_poolVars, variant' = "spinlock",
                      NEW s \in Threads
               PROVE  pc'[s] \in Critical <=> lock' = s
      BY DEF RingInv, PoolIInv, PoolInv, RingLocked
  <1>0. variant = "spinlock" /\ (pc[s] \in Critical <=> lock = s)
      BY DEF RingLocked, PoolNext, PoolStep, Preallocate, Allocate, AllocateTicket, AllocateTake, AllocateFromOS, Deallocate,
         DeallocateTicket, DeallocatePut, DeallocateToOS, FreePool, FreeSlot, poolVars
  <1>1. CASE Preallocate \/ UNCHANGED poolVars
      BY <1>0, <1>1 DEF Preallocate, poolVars
  <1>2. ASSUME NEW t \in Threads, PoolStep(t) PROVE pc'[s] \in Critical <=> lock' = s
    <2>0. pc[t] \in Critical <=> lock = t
        BY <1>0 DEF RingLocked
    <2>1. CASE Allocate(t) \/ Deallocate(t) \/ FreePool(t)
      <3>1. lock = Null /\ lock' = t /\ \E l \in Critical : Goto(t, l)
          BY <1>0, <2>1 DEF Allocate, Deallocate, FreePool, Acquire, Critical
      <3> QED BY <1>0, <3>1, RingPlaces, PoolAssumption, UsersAssumption
    <2>2. CASE AllocateTicket(t) \/ DeallocateTicket(t)
      <3>1. UNCHANGED lock /\ pc[t] \in Critical /\ \E l \in Critical : Goto(t, l)
          BY <2>2 DEF AllocateTicket, DeallocateTicket, Critical
      <3> QED BY <1>0, <3>1, RingPlaces
    <2>3. CASE AllocateTake(t) \/ DeallocatePut(t)
      <3>1. Release(t) /\ pc[t] \in Critical /\ \E l \in {"idle", "malloc", "free"} : Goto(t, l)
          BY <2>3 DEF AllocateTake, DeallocatePut, Critical
      <3>2. lock = t /\ lock' = Null
          BY <2>0, <3>1 DEF Release
      <3>3. pc'[t] \notin Critical /\ \A u \in Threads : u # t => pc'[u] = pc[u]
          BY <3>1, RingPlaces DEF Critical
      <3> QED BY <1>0, <3>2, <3>3, PoolAssumption, UsersAssumption
    <2>4. CASE AllocateFromOS(t) \/ DeallocateToOS(t)
      <3>1. UNCHANGED lock /\ pc[t] \notin Critical /\ Goto(t, "idle")
          BY <2>4 DEF AllocateFromOS, DeallocateToOS, Critical
      <3>2. "idle" \notin Critical
          BY DEF Critical
      <3> QED BY <1>0, <3>1, <3>2, RingPlaces
    <2>5. CASE FreeSlot(t)
      <3>1. pc[t] \in Critical
          BY <2>5 DEF FreeSlot, Critical
      <3>2. UNCHANGED <<lock, pc>> \/ (Release(t) /\ Goto(t, "idle"))
          BY <2>5 DEF FreeSlot
      <3>3. CASE Release(t) /\ Goto(t, "idle")
        <4>1. lock = t /\ lock' = Null
            BY <2>0, <3>1, <3>3 DEF Release
        <4>2. "idle" \notin Critical
            BY DEF Critical
        <4> QED BY <1>0, <3>3, <4>1, <4>2, RingPlaces, PoolAssumption, UsersAssumption
      <3> QED BY <1>0, <3>2, <3>3
    <2> QED BY <1>2, <2>1, <2>2, <2>3, <2>4, <2>5 DEF PoolStep
  <1> QED BY <1>1, <1>2 DEF PoolNext

LEMMA CarriedStep == RingInv /\ [PoolNext]_poolVars => Carried'
  <1> SUFFICES ASSUME PoolTypeOK, Carried, [PoolNext]_poolVars, NEW s \in Threads, pc'[s] \in {"tail", "put"}
               PROVE  hand'[s] # Null
      BY DEF RingInv, PoolIInv, PoolInv, Carried
  <1>0. pc[s] \in {"tail", "put"} => hand[s] # Null
      BY DEF Carried
  <1>1. CASE Preallocate \/ UNCHANGED poolVars
      BY <1>0, <1>1 DEF Preallocate, poolVars
  <1>2. ASSUME NEW t \in Threads, PoolStep(t) PROVE hand'[s] # Null
    <2>1. CASE Deallocate(t)
      <3>1. \E b \in Blocks : hand' = [hand EXCEPT ![t] = b]
          BY <2>1 DEF Deallocate, Carry, PoolTypeOK
      <3>2. \A u \in Threads : u # t => pc'[u] = pc[u]
          BY <2>1, RingPlaces DEF Deallocate
      <3> QED BY <1>0, <3>1, <3>2, PoolAssumption, UsersAssumption DEF PoolTypeOK
    <2>2. CASE DeallocateTicket(t)
        BY <1>0, <2>2, RingPlaces DEF DeallocateTicket
    <2>3. CASE DeallocatePut(t) \/ DeallocateToOS(t)
      <3>1. \E l \in {"idle", "free"} : Goto(t, l)
          BY <2>3 DEF DeallocatePut, DeallocateToOS
      <3>2. s # t /\ pc'[s] = pc[s]
          BY <3>1, RingPlaces
      <3>3. hand'[s] = hand[s]
          BY <2>3, <3>2 DEF DeallocatePut, DeallocateToOS, Carry, PoolTypeOK
      <3> QED BY <1>0, <3>2, <3>3
    <2>4. CASE \/ Allocate(t) \/ AllocateTicket(t) \/ AllocateTake(t) \/ AllocateFromOS(t)
               \/ FreePool(t) \/ FreeSlot(t)
      <3>1. UNCHANGED hand /\ (UNCHANGED pc \/ \E l \in {"head", "take", "idle", "malloc", "empty"} : Goto(t, l))
          BY <2>4 DEF Allocate, AllocateTicket, AllocateTake, AllocateFromOS, FreePool, FreeSlot
      <3> QED BY <1>0, <3>1, RingPlaces
    <2> QED BY <1>2, <2>1, <2>2, <2>3, <2>4 DEF PoolStep
  <1> QED BY <1>1, <1>2 DEF PoolNext

(* The lock is held by one: no other thread is at a slot or a position.    *)
LEMMA Alone ==
    ASSUME RingLocked, variant = "spinlock", NEW t \in Threads, pc[t] \in Critical,
           NEW s \in Threads, s # t
    PROVE  pc[s] \notin Critical
  <1> QED BY DEF RingLocked

LEMMA AimedStep == RingInv /\ [PoolNext]_poolVars => Aimed'
  <1> SUFFICES ASSUME PoolTypeOK, RingLocked, Aimed, [PoolNext]_poolVars, variant' = "spinlock", NEW s \in Threads
               PROVE  (pc'[s] = "take" => head' = at'[s] + 1) /\ (pc'[s] = "put" => tail' = at'[s] + 1)
      BY DEF RingInv, PoolIInv, PoolInv, Aimed
  <1>0. /\ variant = "spinlock"
        /\ pc[s] = "take" => head = at[s] + 1
        /\ pc[s] = "put" => tail = at[s] + 1
      BY DEF Aimed, PoolNext, PoolStep, Preallocate, Allocate, AllocateTicket, AllocateTake, AllocateFromOS, Deallocate,
         DeallocateTicket, DeallocatePut, DeallocateToOS, FreePool, FreeSlot, poolVars
  <1>1. CASE Preallocate \/ UNCHANGED poolVars
      BY <1>0, <1>1 DEF Preallocate, poolVars
  <1>2. ASSUME NEW t \in Threads, PoolStep(t)
        PROVE  (pc'[s] = "take" => head' = at'[s] + 1) /\ (pc'[s] = "put" => tail' = at'[s] + 1)
    <2>1. CASE AllocateTicket(t) \/ DeallocateTicket(t)
      <3>1. pc[t] \in {"head", "tail"} /\ \E l \in {"take", "put"} : Goto(t, l)
          BY <2>1 DEF AllocateTicket, DeallocateTicket
      <3>2. CASE s = t
        <4>1. CASE AllocateTicket(t)
          <5>1. pc'[t] = "take" /\ at'[t] = head /\ head' = head + 1
              BY <4>1, RingPlaces DEF AllocateTicket, PoolTypeOK
          <5> QED BY <3>2, <5>1
        <4>2. CASE DeallocateTicket(t)
          <5>1. pc'[t] = "put" /\ at'[t] = tail /\ tail' = tail + 1
              BY <4>2, RingPlaces DEF DeallocateTicket, PoolTypeOK
          <5> QED BY <3>2, <5>1
        <4> QED BY <2>1, <4>1, <4>2
      <3>3. CASE s # t
        <4>1. pc'[s] = pc[s] /\ pc[s] \notin Critical
            BY <1>0, <3>1, <3>3, Alone, RingPlaces DEF Critical
        <4> QED BY <4>1 DEF Critical
      <3> QED BY <3>2, <3>3
    <2>2. CASE \/ Allocate(t) \/ AllocateTake(t) \/ AllocateFromOS(t)
               \/ Deallocate(t) \/ DeallocatePut(t) \/ DeallocateToOS(t)
      <3>1. UNCHANGED <<head, tail, at>> /\ \E l \in {"head", "idle", "malloc", "tail", "free"} : Goto(t, l)
          BY <2>2 DEF Allocate, AllocateTake, AllocateFromOS, Deallocate, DeallocatePut, DeallocateToOS
      <3> QED BY <1>0, <3>1, RingPlaces
    <2>3. CASE FreePool(t) \/ FreeSlot(t)
      <3>1. /\ UNCHANGED <<head, tail>> /\ \A u \in Threads : u # t => at'[u] = at[u] /\ pc'[u] = pc[u]
            /\ pc'[t] \in {"idle", "empty"}
        <4>1. CASE FreePool(t)
            BY <4>1, RingPlaces DEF FreePool, PoolTypeOK
        <4>2. CASE FreeSlot(t) /\ UNCHANGED pc
            BY <4>2 DEF FreeSlot, PoolTypeOK
        <4>3. CASE FreeSlot(t) /\ Goto(t, "idle") /\ UNCHANGED at
            BY <4>3, RingPlaces DEF FreeSlot
        <4> QED BY <2>3, <4>1, <4>2, <4>3 DEF FreeSlot
      <3> QED BY <1>0, <3>1
    <2> QED BY <1>2, <2>1, <2>2, <2>3 DEF PoolStep
  <1> QED BY <1>1, <1>2 DEF PoolNext

(***************************************************************************)
(* The window and the counts of a step.                                    *)
(***************************************************************************)
LEMMA ViewSame ==
    ASSUME NEW p, NEW q,
           \A s \in Threads : (q[s] = "take" <=> p[s] = "take") /\ (q[s] = "put" <=> p[s] = "put")
    PROVE  /\ \A h : FrontOf(q, h) = FrontOf(p, h)
           /\ \A k : BackOf(q, k) = BackOf(p, k)
  <1> QED BY DEF FrontOf, BackOf

(* Nobody holds a position that its slot has not been reached with.        *)
LEMMA ViewRest ==
    ASSUME NEW p, \A s \in Threads : p[s] \notin {"take", "put"}
    PROVE  (\A h : FrontOf(p, h) = h) /\ (\A k : BackOf(p, k) = k)
  <1> QED BY DEF FrontOf, BackOf

LEMMA ViewTake ==
    ASSUME NEW p, NEW t \in Threads, p[t] = "take", \A s \in Threads : p[s] # "put"
    PROVE  (\A h : FrontOf(p, h) = h - 1) /\ (\A k : BackOf(p, k) = k)
  <1> QED BY DEF FrontOf, BackOf

LEMMA ViewPut ==
    ASSUME NEW p, NEW t \in Threads, p[t] = "put", \A s \in Threads : p[s] # "take"
    PROVE  (\A h : FrontOf(p, h) = h) /\ (\A k : BackOf(p, k) = k - 1)
  <1> QED BY DEF FrontOf, BackOf

LEMMA PendingSame ==
    ASSUME NEW p, NEW q,
           \A s \in Threads : q[s] \in {"take", "malloc", "tail"} <=> p[s] \in {"take", "malloc", "tail"}
    PROVE  PendingOf(q) = PendingOf(p)
  <1> QED BY DEF PendingOf

LEMMA PendingMore ==
    ASSUME NEW p, NEW q, NEW t \in Threads, p[t] \notin {"take", "malloc", "tail"},
           q[t] \in {"take", "malloc", "tail"}, \A s \in Threads : s # t => q[s] = p[s]
    PROVE  PendingOf(q) = PendingOf(p) \cup {t} /\ t \notin PendingOf(p)
  <1> QED BY DEF PendingOf

LEMMA PendingLess ==
    ASSUME NEW p, NEW q, NEW t \in Threads, q[t] \notin {"take", "malloc", "tail"},
           p[t] \in {"take", "malloc", "tail"}, \A s \in Threads : s # t => q[s] = p[s]
    PROVE  PendingOf(q) = PendingOf(p) \ {t} /\ t \in PendingOf(p)
  <1> QED BY DEF PendingOf

LEMMA OneMore ==
    ASSUME NEW S, IsFiniteSet(S), NEW x
    PROVE  /\ Cardinality(S) \in Nat
           /\ x \notin S => IsFiniteSet(S \cup {x}) /\ Cardinality(S \cup {x}) = Cardinality(S) + 1
           /\ x \in S => IsFiniteSet(S \ {x}) /\ Cardinality(S \ {x}) = Cardinality(S) - 1
  <1> QED BY FS_CardinalityType, FS_AddElement, FS_RemoveElement

(* The tail has not overtaken the head.                                    *)
LEMMA Ordered ==
    ASSUME PoolTypeOK, RingCounted
    PROVE  /\ tail <= head
           /\ \A t \in Threads : pc[t] = "tail" \/ pc[t] = "take" => tail < head
  <1>1. Cardinality(used) \in Nat /\ Cardinality(Pending) \in Nat
      BY FS_CardinalityType DEF RingCounted
  <1>2. ASSUME NEW t \in Threads, pc[t] = "tail" \/ pc[t] = "take" PROVE Cardinality(Pending) # 0
    <2>1. t \in Pending
        BY <1>2 DEF Pending, PendingOf
    <2> QED BY <2>1, FS_EmptySet DEF RingCounted
  <1> QED BY <1>1, <1>2 DEF RingCounted, PoolTypeOK

LEMMA CountedSame ==
    ASSUME RingCounted, PendingOf(pc') = Pending, UNCHANGED <<used, head, tail>>
    PROVE  RingCounted'
  <1> QED BY DEF RingCounted, Pending

(* What ServingInv says, for a step that keeps serving.                    *)
Held ==
    /\ PoolTypeOK /\ OwnedOnce /\ RingLocked /\ Carried /\ Aimed /\ Serving
    /\ \A t \in Threads : pc[t] # "empty"
    /\ RingCounted /\ FullOutside(slots, Back, Front) /\ WithinBounds

Kept ==
    /\ RingCounted' /\ FullOutside(slots', Back', Front') /\ WithinBounds'
    /\ \A t \in Threads : pc'[t] # "empty"

(* Steps that only lead a thread between places of no interest here.       *)
LEMMA KeptSame ==
    ASSUME Held, UNCHANGED <<slots, head, tail, used, over>>,
           \A s \in Threads :
              \/ pc'[s] = pc[s]
              \/ pc[s] \in {"idle", "free"} /\ pc'[s] \in {"idle", "head"},
           over \/ spilled' = spilled
    PROVE  Kept
  <1>1. Front' = Front /\ Back' = Back
    <2>1. \A s \in Threads : (pc'[s] = "take" <=> pc[s] = "take") /\ (pc'[s] = "put" <=> pc[s] = "put")
        OBVIOUS
    <2> QED BY <2>1, ViewSame DEF Front, Back
  <1>2. RingCounted'
    <2>1. \A s \in Threads : pc'[s] \in {"take", "malloc", "tail"} <=> pc[s] \in {"take", "malloc", "tail"}
        OBVIOUS
    <2> QED BY <2>1, PendingSame, CountedSame DEF Held, Pending
  <1>3. WithinBounds'
    <2> SUFFICES ASSUME ~over
                 PROVE  /\ ~spilled' /\ \A t \in Threads : pc'[t] \notin {"malloc", "free"}
                        /\ head' - tail' <= PoolSize /\ Front' - Back' <= PoolSize
                        /\ EmptyInside(slots', Back', Front')
        BY DEF WithinBounds
    <2> QED BY <1>1 DEF Held, WithinBounds
  <1> QED BY <1>1, <1>2, <1>3 DEF Held, Kept

LEMMA KeptTicket ==
    ASSUME Held, NEW t \in Threads, AllocateTicket(t)
    PROVE  Kept
  <1>1. /\ pc[t] = "head" /\ pc'[t] = "take" /\ \A s \in Threads : s # t => pc'[s] = pc[s]
        /\ head' = head + 1 /\ UNCHANGED <<tail, slots, used, spilled>>
        /\ head \in Nat /\ tail \in Nat
      BY RingPlaces DEF Held, AllocateTicket, history, PoolTypeOK
  <1>2. over' <=> over \/ head' - tail > PoolSize
      BY DEF AllocateTicket, Held, PoolTypeOK
  <1>3. \A s \in Threads : s # t => pc[s] \notin Critical
      BY <1>1, Alone DEF Held, Serving, Critical
  <1>4. Front = head /\ Back = tail
      BY <1>1, <1>3, ViewRest DEF Front, Back, Critical
  <1>5. Front' = head /\ Back' = tail
    <2>1. FrontOf(pc', head') = head' - 1 /\ BackOf(pc', tail') = tail'
        BY <1>1, <1>3, ViewTake DEF Critical
    <2> QED BY <1>1, <2>1 DEF Front, Back
  <1>6. RingCounted'
    <2>1. PendingOf(pc') = Pending \cup {t} /\ t \notin Pending
        BY <1>1, PendingMore DEF Pending
    <2>2. IsFiniteSet(PendingOf(pc')) /\ Cardinality(PendingOf(pc')) = Cardinality(Pending) + 1
        BY <2>1, OneMore DEF Held, RingCounted
    <2>3. Cardinality(Pending) \in Nat /\ Cardinality(used) \in Nat
        BY FS_CardinalityType DEF Held, RingCounted
    <2> QED BY <1>1, <2>2, <2>3 DEF Held, RingCounted, Pending
  <1>7. WithinBounds'
    <2> SUFFICES ASSUME ~over, ~ (head' - tail > PoolSize)
                 PROVE  /\ ~spilled' /\ \A s \in Threads : pc'[s] \notin {"malloc", "free"}
                        /\ head' - tail' <= PoolSize /\ Front' - Back' <= PoolSize
                        /\ EmptyInside(slots', Back', Front')
        BY <1>2 DEF WithinBounds
    <2>1. head' - tail' <= PoolSize /\ Front' - Back' <= PoolSize
        BY <1>1, <1>5, PoolAssumption, UsersAssumption
    <2> QED BY <1>1, <1>4, <1>5, <2>1 DEF Held, WithinBounds
  <1> QED BY <1>1, <1>4, <1>5, <1>6, <1>7 DEF Held, Kept

LEMMA KeptTake ==
    ASSUME Held, NEW t \in Threads, AllocateTake(t)
    PROVE  Kept
  <1>0. PICK block : block = slots[Index(at[t])]
      OBVIOUS
  <1>1. /\ pc[t] = "take" /\ head = at[t] + 1 /\ at[t] \in Nat /\ head \in Nat /\ tail \in Nat
        /\ slots' = [slots EXCEPT ![Index(at[t])] = Null]
        /\ UNCHANGED <<head, tail, over, spilled>>
        /\ \A s \in Threads : s # t => pc'[s] = pc[s]
      BY RingPlaces DEF Held, AllocateTake, history, PoolTypeOK, Aimed, Serving, Put
  <1>2. \/ block # Null /\ used' = used \cup {block} /\ pc'[t] = "idle"
        \/ block = Null /\ used' = used /\ pc'[t] = "malloc"
      BY <1>0, RingPlaces DEF Held, AllocateTake
  <1>3. \A s \in Threads : s # t => pc[s] \notin Critical
      BY <1>1, Alone DEF Held, Serving, Critical
  <1>4. Front = at[t] /\ Back = tail
    <2>1. FrontOf(pc, head) = head - 1 /\ BackOf(pc, tail) = tail
        BY <1>1, <1>3, ViewTake DEF Critical
    <2> QED BY <1>1, <2>1 DEF Front, Back
  <1>5. Front' = at[t] + 1 /\ Back' = tail
    <2>1. \A s \in Threads : pc'[s] \notin {"take", "put"}
        BY <1>1, <1>2, <1>3 DEF Critical
    <2> QED BY <1>1, <2>1, ViewRest DEF Front, Back
  <1>6. tail <= at[t]
    <2>1. tail < head
        BY <1>1, Ordered DEF Held
    <2> QED BY <1>1, <2>1
  <1>7. slots \in [Slots -> Blocks \cup {Null}]
      BY DEF Held, PoolTypeOK
  <1>8. RingCounted'
    <2>1. CASE block # Null /\ used' = used \cup {block} /\ pc'[t] = "idle"
      <3>1. PendingOf(pc') = Pending \ {t} /\ t \in Pending
          BY <1>1, <2>1, PendingLess DEF Pending
      <3>2. IsFiniteSet(PendingOf(pc')) /\ Cardinality(PendingOf(pc')) = Cardinality(Pending) - 1
          BY <3>1, OneMore DEF Held, RingCounted
      <3>3. block \notin used
          BY <1>0, <1>1, <2>1, SlotsIndexed DEF Held, OwnedOnce, Pooled
      <3>4. IsFiniteSet(used') /\ Cardinality(used') = Cardinality(used) + 1
          BY <2>1, <3>3, OneMore DEF Held, RingCounted
      <3>5. Cardinality(Pending) \in Nat /\ Cardinality(used) \in Nat
          BY FS_CardinalityType DEF Held, RingCounted
      <3> QED BY <1>1, <3>2, <3>4, <3>5 DEF Held, RingCounted, Pending
    <2>2. CASE used' = used /\ pc'[t] = "malloc"
      <3>1. PendingOf(pc') = Pending
          BY <1>1, <2>2, PendingSame DEF Pending
      <3> QED BY <1>1, <2>2, <3>1, CountedSame DEF Held
    <2> QED BY <1>2, <2>1, <2>2
  <1>9. FullOutside(slots', Back', Front')
      BY <1>1, <1>4, <1>5, <1>6, <1>7, FrontMoves DEF Held
  <1>10. WithinBounds'
    <2> SUFFICES ASSUME ~over
                 PROVE  /\ ~spilled' /\ \A s \in Threads : pc'[s] \notin {"malloc", "free"}
                        /\ head' - tail' <= PoolSize /\ Front' - Back' <= PoolSize
                        /\ EmptyInside(slots', Back', Front')
        BY <1>1 DEF WithinBounds
    <2>1. /\ ~spilled /\ \A s \in Threads : pc[s] \notin {"malloc", "free"}
          /\ head - tail <= PoolSize /\ EmptyInside(slots, Back, Front)
        BY DEF Held, WithinBounds
    <2>2. EmptyInside(slots', Back', Front')
        BY <1>1, <1>4, <1>5, <1>6, <1>7, <2>1, FrontMoves
    <2>3. at[t] - tail < PoolSize
        BY <1>1, <2>1, PoolAssumption, UsersAssumption
    <2>4. block # Null
        BY <1>0, <1>1, <1>4, <1>6, <1>7, <2>3, FrontMoves DEF Held
    <2>5. \A s \in Threads : pc'[s] \notin {"malloc", "free"}
        BY <1>1, <1>2, <2>1, <2>4
    <2> QED BY <1>1, <1>5, <2>1, <2>2, <2>5
  <1>11. \A s \in Threads : pc'[s] # "empty"
      BY <1>1, <1>2 DEF Held
  <1> QED BY <1>8, <1>9, <1>10, <1>11 DEF Kept

LEMMA KeptFromOS ==
    ASSUME Held, NEW t \in Threads, AllocateFromOS(t), whole'
    PROVE  Kept
  <1>1. /\ pc[t] = "malloc" /\ pc'[t] = "idle" /\ \A s \in Threads : s # t => pc'[s] = pc[s]
        /\ UNCHANGED <<slots, head, tail, over>>
      BY RingPlaces DEF Held, AllocateFromOS
  <1>2. PICK b \in OSBlocks : used' = used \cup {b}
      BY DEF AllocateFromOS
  <1>3. over
      BY <1>1 DEF Held, WithinBounds
  <1>4. Front' = Front /\ Back' = Back
      BY <1>1, ViewSame DEF Front, Back
  <1>5. RingCounted'
    <2>1. PendingOf(pc') = Pending \ {t} /\ t \in Pending
        BY <1>1, PendingLess DEF Pending
    <2>2. IsFiniteSet(PendingOf(pc')) /\ Cardinality(PendingOf(pc')) = Cardinality(Pending) - 1
        BY <2>1, OneMore DEF Held, RingCounted
    <2>3. b \notin used
        BY <1>2 DEF OSBlocks
    <2>4. IsFiniteSet(used') /\ Cardinality(used') = Cardinality(used) + 1
        BY <1>2, <2>3, OneMore DEF Held, RingCounted
    <2>5. Cardinality(Pending) \in Nat /\ Cardinality(used) \in Nat /\ tail \in Nat
        BY FS_CardinalityType DEF Held, RingCounted, PoolTypeOK
    <2> QED BY <1>1, <2>2, <2>4, <2>5 DEF Held, RingCounted, Pending
  <1>6. \A s \in Threads : pc'[s] # "empty"
      BY <1>1 DEF Held
  <1> QED BY <1>1, <1>3, <1>4, <1>5, <1>6 DEF Held, Kept, WithinBounds

LEMMA KeptDeallocate ==
    ASSUME Held, NEW t \in Threads, Deallocate(t)
    PROVE  Kept
  <1>1. /\ pc[t] = "idle" /\ pc'[t] = "tail" /\ \A s \in Threads : s # t => pc'[s] = pc[s]
        /\ UNCHANGED <<slots, head, tail, over, spilled>>
      BY RingPlaces DEF Held, Deallocate, history
  <1>2. PICK b \in used : used' = used \ {b}
      BY DEF Deallocate
  <1>3. Front' = Front /\ Back' = Back
      BY <1>1, ViewSame DEF Front, Back
  <1>4. RingCounted'
    <2>1. PendingOf(pc') = Pending \cup {t} /\ t \notin Pending
        BY <1>1, PendingMore DEF Pending
    <2>2. IsFiniteSet(PendingOf(pc')) /\ Cardinality(PendingOf(pc')) = Cardinality(Pending) + 1
        BY <2>1, OneMore DEF Held, RingCounted
    <2>3. IsFiniteSet(used') /\ Cardinality(used') = Cardinality(used) - 1
        BY <1>2, OneMore DEF Held, RingCounted
    <2>4. Cardinality(Pending) \in Nat /\ Cardinality(used) \in Nat /\ tail \in Nat
        BY FS_CardinalityType DEF Held, RingCounted, PoolTypeOK
    <2> QED BY <1>1, <2>2, <2>3, <2>4 DEF Held, RingCounted, Pending
  <1>5. WithinBounds'
    <2> SUFFICES ASSUME ~over
                 PROVE  /\ ~spilled' /\ \A s \in Threads : pc'[s] \notin {"malloc", "free"}
                        /\ head' - tail' <= PoolSize /\ Front' - Back' <= PoolSize
                        /\ EmptyInside(slots', Back', Front')
        BY <1>1 DEF WithinBounds
    <2> QED BY <1>1, <1>3 DEF Held, WithinBounds
  <1>6. \A s \in Threads : pc'[s] # "empty"
      BY <1>1 DEF Held
  <1> QED BY <1>1, <1>3, <1>4, <1>5, <1>6 DEF Held, Kept

LEMMA KeptTailTicket ==
    ASSUME Held, NEW t \in Threads, DeallocateTicket(t)
    PROVE  Kept
  <1>1. /\ pc[t] = "tail" /\ pc'[t] = "put" /\ \A s \in Threads : s # t => pc'[s] = pc[s]
        /\ tail' = tail + 1 /\ UNCHANGED <<slots, head, used, over, spilled>>
        /\ head \in Nat /\ tail \in Nat
      BY RingPlaces DEF Held, DeallocateTicket, history, PoolTypeOK
  <1>2. \A s \in Threads : s # t => pc[s] \notin Critical
      BY <1>1, Alone DEF Held, Serving, Critical
  <1>3. Front = head /\ Back = tail
      BY <1>1, <1>2, ViewRest DEF Front, Back, Critical
  <1>4. Front' = head /\ Back' = tail
    <2>1. FrontOf(pc', head') = head' /\ BackOf(pc', tail') = tail' - 1
        BY <1>1, <1>2, ViewPut DEF Critical
    <2> QED BY <1>1, <2>1 DEF Front, Back
  <1>5. RingCounted'
    <2>1. PendingOf(pc') = Pending \ {t} /\ t \in Pending
        BY <1>1, PendingLess DEF Pending
    <2>2. IsFiniteSet(PendingOf(pc')) /\ Cardinality(PendingOf(pc')) = Cardinality(Pending) - 1
        BY <2>1, OneMore DEF Held, RingCounted
    <2>3. Cardinality(Pending) \in Nat /\ Cardinality(used) \in Nat
        BY FS_CardinalityType DEF Held, RingCounted
    <2> QED BY <1>1, <2>2, <2>3 DEF Held, RingCounted, Pending
  <1>6. WithinBounds'
    <2> SUFFICES ASSUME ~over
                 PROVE  /\ ~spilled' /\ \A s \in Threads : pc'[s] \notin {"malloc", "free"}
                        /\ head' - tail' <= PoolSize /\ Front' - Back' <= PoolSize
                        /\ EmptyInside(slots', Back', Front')
        BY <1>1 DEF WithinBounds
    <2>1. head' - tail' <= PoolSize
        BY <1>1, PoolAssumption, UsersAssumption DEF Held, WithinBounds
    <2> QED BY <1>1, <1>3, <1>4, <2>1 DEF Held, WithinBounds
  <1>7. \A s \in Threads : pc'[s] # "empty"
      BY <1>1 DEF Held
  <1> QED BY <1>1, <1>3, <1>4, <1>5, <1>6, <1>7 DEF Held, Kept

LEMMA KeptPut ==
    ASSUME Held, NEW t \in Threads, DeallocatePut(t)
    PROVE  Kept
  <1>1. /\ pc[t] = "put" /\ tail = at[t] + 1 /\ at[t] \in Nat /\ head \in Nat /\ tail \in Nat
        /\ slots' = [slots EXCEPT ![Index(at[t])] = hand[t]]
        /\ hand[t] # Null
        /\ UNCHANGED <<head, tail, used, over, spilled>>
      BY DEF Held, DeallocatePut, history, PoolTypeOK, Aimed, Serving, Put, Carried
  <1>2. pc'[t] = (IF slots[Index(at[t])] = Null THEN "idle" ELSE "free")
        /\ \A s \in Threads : s # t => pc'[s] = pc[s]
      BY RingPlaces DEF Held, DeallocatePut
  <1>3. \A s \in Threads : s # t => pc[s] \notin Critical
      BY <1>1, Alone DEF Held, Serving, Critical
  <1>4. Front = head /\ Back = at[t]
    <2>1. FrontOf(pc, head) = head /\ BackOf(pc, tail) = tail - 1
        BY <1>1, <1>3, ViewPut DEF Critical
    <2> QED BY <1>1, <2>1 DEF Front, Back
  <1>5. Front' = head /\ Back' = at[t] + 1
    <2>1. \A s \in Threads : pc'[s] \notin {"take", "put"}
        BY <1>2, <1>3 DEF Critical
    <2> QED BY <1>1, <2>1, ViewRest DEF Front, Back
  <1>6. at[t] < head
    <2>1. tail <= head
        BY Ordered DEF Held
    <2> QED BY <1>1, <2>1
  <1>7. slots \in [Slots -> Blocks \cup {Null}]
      BY DEF Held, PoolTypeOK
  <1>8. RingCounted'
    <2>1. PendingOf(pc') = Pending
        BY <1>1, <1>2, PendingSame DEF Pending
    <2> QED BY <1>1, <2>1, CountedSame DEF Held
  <1>9. FullOutside(slots', Back', Front')
      BY <1>1, <1>4, <1>5, <1>6, <1>7, BackMoves DEF Held
  <1>10. WithinBounds'
    <2> SUFFICES ASSUME ~over
                 PROVE  /\ ~spilled' /\ \A s \in Threads : pc'[s] \notin {"malloc", "free"}
                        /\ head' - tail' <= PoolSize /\ Front' - Back' <= PoolSize
                        /\ EmptyInside(slots', Back', Front')
        BY <1>1 DEF WithinBounds
    <2>1. /\ ~spilled /\ \A s \in Threads : pc[s] \notin {"malloc", "free"}
          /\ head - tail <= PoolSize /\ Front - Back <= PoolSize /\ EmptyInside(slots, Back, Front)
        BY DEF Held, WithinBounds
    <2>2. EmptyInside(slots', Back', Front') /\ slots[Index(at[t])] = Null
        BY <1>1, <1>4, <1>5, <1>6, <1>7, <2>1, BackMoves
    <2>3. \A s \in Threads : pc'[s] \notin {"malloc", "free"}
        BY <1>2, <2>1, <2>2
    <2> QED BY <1>1, <1>5, <2>1, <2>2, <2>3
  <1>11. \A s \in Threads : pc'[s] # "empty"
      BY <1>2 DEF Held
  <1> QED BY <1>8, <1>9, <1>10, <1>11 DEF Kept

(* A ring that Preallocate fills is full, and nobody has asked for a block.*)
LEMMA KeptPreallocate ==
    ASSUME RingInv, Preallocate, whole'
    PROVE  Kept
  <1>1. /\ head = 0 /\ tail = 0 /\ \A s \in Threads : pc[s] = "idle"
        /\ used = {} /\ ~over /\ ~spilled
        /\ UNCHANGED <<head, tail, pc, used, over, spilled>>
      BY DEF Preallocate, Quiet, RingInv, Early, PoolIInv, Fresh
  <1>2. \A i \in Slots : slots'[i] # Null
    <2>1. PICK n \in 0 .. PoolSize, fill \in [Slots -> Blocks] :
             slots' = [i \in Slots |-> IF i < n THEN fill[i] ELSE Null] /\ n = PoolSize
        BY DEF Preallocate
    <2> QED BY <2>1, PoolAssumption, UsersAssumption DEF Slots
  <1>3. Front' = 0 /\ Back' = 0
      BY <1>1, ViewRest DEF Front, Back
  <1>4. RingCounted'
    <2>1. PendingOf(pc') = {}
        BY <1>1 DEF PendingOf
    <2> QED BY <1>1, <2>1, FS_EmptySet DEF RingCounted, Pending
  <1>5. WithinBounds'
      BY <1>1, <1>3, PoolAssumption, UsersAssumption DEF WithinBounds, EmptyInside
  <1> QED BY <1>1, <1>2, <1>3, <1>4, <1>5 DEF Kept, FullOutside

LEMMA ServingStep == RingInv /\ [PoolNext]_poolVars => ServingInv'
  <1> SUFFICES ASSUME RingInv, [PoolNext]_poolVars, Serving' PROVE Kept
      BY DEF ServingInv, Kept
  <1>1. CASE Preallocate
      BY <1>1, KeptPreallocate DEF Serving
  <1>2. ASSUME NEW t \in Threads, PoolStep(t), whole PROVE Kept
    <2>0. Held /\ Serving
      <3>1. Serving
          BY <1>2 DEF Serving, PoolStep, Allocate, AllocateTicket, AllocateTake, AllocateFromOS, Deallocate,
             DeallocateTicket, DeallocatePut, DeallocateToOS, FreePool, FreeSlot
      <3> QED BY <3>1 DEF RingInv, PoolIInv, PoolInv, ServingInv, Held
    <2>1. CASE Allocate(t)
      <3>1. /\ pc[t] = "idle" /\ \A s \in Threads : pc'[s] = IF s = t THEN "head" ELSE pc[s]
            /\ UNCHANGED <<slots, head, tail, used, over, spilled>>
          BY <2>0, <2>1, RingPlaces DEF Allocate, Held, history
      <3> QED BY <2>0, <3>1, KeptSame
    <2>2. CASE DeallocateToOS(t)
      <3>1. /\ pc[t] = "free" /\ \A s \in Threads : pc'[s] = IF s = t THEN "idle" ELSE pc[s]
            /\ UNCHANGED <<slots, head, tail, used, over>>
          BY <2>0, <2>2, RingPlaces DEF DeallocateToOS, Held
      <3>2. over
          BY <2>0, <3>1 DEF Held, WithinBounds
      <3> QED BY <2>0, <3>1, <3>2, KeptSame
    <2>3. ~ FreePool(t) /\ ~ FreeSlot(t)
        BY <2>0 DEF FreePool, FreeSlot, Serving, Held
    <2>4. CASE AllocateFromOS(t)
        BY <2>0, <2>4, KeptFromOS DEF Serving
    <2> QED BY <1>2, <2>0, <2>1, <2>2, <2>3, <2>4, KeptTicket, KeptTake, KeptDeallocate, KeptTailTicket, KeptPut
            DEF PoolStep
  <1>3. CASE UNCHANGED poolVars
    <2>1. Serving /\ UNCHANGED <<slots, head, tail, used, over, pc, spilled>>
        BY <1>3 DEF poolVars, history, Serving
    <2>2. Held
        BY <2>1 DEF RingInv, PoolIInv, PoolInv, ServingInv, Held
    <2> QED BY <2>1, <2>2, KeptSame
  <1>4. ASSUME NEW t \in Threads, PoolStep(t) PROVE whole
      BY <1>4 DEF Serving, PoolStep, Allocate, AllocateTicket, AllocateTake, AllocateFromOS, Deallocate,
         DeallocateTicket, DeallocatePut, DeallocateToOS, FreePool, FreeSlot, history
  <1> QED BY <1>1, <1>2, <1>3, <1>4 DEF PoolNext

LEMMA RingServing == RingInv => RingServes
  <1> SUFFICES ASSUME RingInv PROVE RingServes
      OBVIOUS
  <1>1. PoolTypeOK /\ OwnedOnce /\ ServingInv
      BY DEF RingInv, PoolIInv, PoolInv
  <1>2. NoSpill
      BY <1>1 DEF NoSpill, ServingInv, Serving, WithinBounds
  <1>3. ASSUME Serving, Quiet, used = {} PROVE Cardinality(Pooled) = PoolSize
    <2>1. Pending = {} /\ Front = head /\ Back = tail
        BY <1>3, ViewRest DEF Quiet, Pending, PendingOf, Front, Back
    <2>2. head = tail /\ tail \in Nat
        BY <1>1, <1>3, <2>1, FS_EmptySet DEF ServingInv, RingCounted, PoolTypeOK
    <2>3. \A i \in Slots : slots[i] # Null
        BY <1>1, <1>3, <2>1, <2>2 DEF ServingInv, FullOutside
    <2>4. slots \in Bijection(Slots, Pooled)
        BY <1>1, <2>3 DEF Bijection, Injection, Surjection, Pooled, OwnedOnce, PoolTypeOK, IsInjective
    <2>5. IsFiniteSet(Slots) /\ Cardinality(Slots) = PoolSize
        BY PoolAssumption, UsersAssumption, FS_Interval DEF Slots
    <2> QED BY <2>4, <2>5, FS_Bijection DEF ExistsBijection
  <1> QED BY <1>2, <1>3 DEF RingServes, FullAgain, Serving

(* With the spin lock a ring that was filled needs nothing from the        *)
(* operating system while no more than PoolSize blocks were asked for at   *)
(* once, and is full again whenever all blocks have come back, even if     *)
(* more were asked for: the slots out of the window between tail and head  *)
(* are full, whichever blocks are in them.                                 *)
THEOREM RingServesAll == PoolSpec => []RingServes
  <1>1. RingInv /\ [PoolNext]_poolVars => PoolIInv'
      BY PoolTypedStep, OwnedOnceStep, FreshStep DEF RingInv, PoolIInv, PoolInv
  <1>2. RingInv /\ [PoolNext]_poolVars => RingInv'
      BY <1>1, EarlyStep, LockStep, CarriedStep, AimedStep, ServingStep DEF RingInv
  <1> QED BY RingInit, <1>2, RingServing, PTL DEF PoolSpec
=============================================================================
