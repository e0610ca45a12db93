-------------------------- MODULE EntityStoreProofs --------------------------
(***************************************************************************)
(* Proofs about EntityStore, for any number of threads and ids and for both*)
(* id pools.  First the entities: a step of a pool moves one thread and    *)
(* takes or gives back an id (StoreMoves, CacheMoves); each entity is made,*)
(* held or unmade (Owned, Kept), and its count is that of its holders      *)
(* (Counts).  Then the ids: neither pool loses an id or gives it twice, the*)
(* announcement that all ids are back comes once and is not missed, and the*)
(* cache takes back what the entities give it.                             *)
(***************************************************************************)
EXTENDS EntityStore, FiniteSetTheorems, SequenceTheorems, TLAPS

(***************************************************************************)
(* What a step of either id pool does to the callers' ids.                 *)
(***************************************************************************)
PoolMove(t) ==
    \/ pc[t] = "idle" /\ pc'[t] \in {"activate", "look", "count"} /\ used' = used
    \/ pc[t] = "idle" /\ pc'[t] \in {"uncount", "recount", "free"} /\ used' \subseteq used
    \/ pc[t] = "activate" /\ pc'[t] = "clear" /\ used' = used
    \/ pc[t] = "clear" /\ pc'[t] = "zero" /\ used' = used
    \/ pc[t] = "look" /\ pc'[t] \in {"announce", "idle"} /\ used' = used
    \/ pc[t] \in {"zero", "announce", "undo", "recount"} /\ pc'[t] = "idle" /\ used' = used
    \/ pc[t] = "count" /\ pc'[t] \in {"take", "undo"} /\ used' = used
    \/ pc[t] = "take" /\ pc'[t] = "undo" /\ used' = used
    \/ pc[t] = "take" /\ pc'[t] = "idle" /\ \E i \in Ids : used' = used \cup {i}
    \/ pc[t] \in {"uncount", "free"} /\ pc'[t] \in {"check", "idle"} /\ used' = used
    \/ pc[t] = "check" /\ pc'[t] \in {"announce", "idle"} /\ used' = used

Alone(t) == \A u \in Threads \ {t} : pc'[u] = pc[u]

LEMMA PoolOnly ==
    ASSUME PoolTypeOK, NEW t \in Threads,
           \/ ActivatePool(t) \/ ActivateFlag(t) \/ ActivateClear(t) \/ ActivateZero(t)
           \/ Deactivate(t) \/ (\E b \in BOOLEAN : DeactivateLook(t, b)) \/ Announce(t)
           \/ AllocateCheck(t) \/ AllocateCount(t) \/ AllocateUndo(t)
    PROVE  PoolMove(t) /\ Alone(t) /\ PoolTypeOK'
  <1>1. CASE ActivatePool(t)
      BY <1>1, PoolAssumption DEF PoolTypeOK, ActivatePool, Unused, Goto, PoolMove, Alone, Activating
  <1>2. CASE ActivateFlag(t)
      BY <1>2 DEF PoolTypeOK, ActivateFlag, Goto, PoolMove, Alone, Activating
  <1>6. CASE ActivateClear(t)
      BY <1>6 DEF PoolTypeOK, ActivateClear, Goto, PoolMove, Alone, Activating
  <1>7. CASE ActivateZero(t)
      BY <1>7 DEF PoolTypeOK, ActivateZero, Goto, PoolMove, Alone, Activating
  <1>3. CASE Deactivate(t)
      BY <1>3 DEF PoolTypeOK, Deactivate, Goto, PoolMove, Alone
  <1>8. CASE Announce(t)
      BY <1>8 DEF PoolTypeOK, Announce, Goto, PoolMove, Alone
  <1>4. ASSUME NEW b \in BOOLEAN, DeactivateLook(t, b) PROVE PoolMove(t) /\ Alone(t) /\ PoolTypeOK'
      BY <1>4 DEF PoolTypeOK, DeactivateLook, Goto, PoolMove, Alone
  <1>5. CASE AllocateCheck(t) \/ AllocateCount(t) \/ AllocateUndo(t)
      BY <1>5 DEF PoolTypeOK, AllocateCheck, AllocateCount, AllocateUndo, Goto, PoolMove, Alone
  <1> QED BY <1>1, <1>2, <1>3, <1>4, <1>5, <1>6, <1>7, <1>8

LEMMA StoreMoves ==
    ASSUME Store!TypeOK, NEW t \in Threads, Store!Step(t)
    PROVE  PoolMove(t) /\ Alone(t) /\ Store!TypeOK'
  <1>0. PoolTypeOK /\ FreeIds \in Seq(Ids) /\ all \in [Threads -> BOOLEAN]
      BY DEF Store!TypeOK, PoolTypeOK, Store!PoolTypeOK, Ids, Store!Ids, Activating, Store!Activating
  <1>1. ASSUME PoolMove(t), Alone(t), PoolTypeOK', FreeIds' \in Seq(Ids), all' \in [Threads -> BOOLEAN]
        PROVE  PoolMove(t) /\ Alone(t) /\ Store!TypeOK'
      BY <1>1 DEF Store!TypeOK, PoolTypeOK, Store!PoolTypeOK, Ids, Store!Ids, Activating, Store!Activating
  <1>2. CASE Store!Activate(t)
    <2>1. FreeIds' \in Seq(Ids) /\ all' = all
      <3>1. FreeIds' \in [1 .. MaxUID -> Ids]
          BY <1>2, PoolAssumption DEF Store!Activate, Ids, Store!Ids
      <3> QED BY <1>2, <3>1, PoolAssumption DEF Store!Activate
    <2>2. ActivatePool(t)
        BY <1>2 DEF Store!Activate, Store!ActivatePool, Store!Goto, ActivatePool, Goto, Unused, Store!Unused
    <2> QED BY <1>0, <1>1, <2>1, <2>2, PoolOnly
  <1>3. CASE Store!DeactivateStore(t)
    <2>1. DeactivateLook(t, Store!HasAll(FreeIds)) /\ FreeIds' = FreeIds /\ all' = all
        BY <1>3 DEF Store!DeactivateStore, Store!DeactivateLook, DeactivateLook, Store!Goto, Goto
    <2>2. Store!HasAll(FreeIds) \in BOOLEAN
        BY DEF Store!HasAll
    <2> QED BY <1>0, <1>1, <2>1, <2>2, PoolOnly
  <1>4. CASE Store!Pooled(t)
    <2>1. /\ \/ ActivateFlag(t) \/ ActivateClear(t) \/ ActivateZero(t)
             \/ Deactivate(t) \/ Announce(t)
             \/ AllocateCheck(t) \/ AllocateCount(t) \/ AllocateUndo(t)
          /\ FreeIds' = FreeIds /\ all' = all
        BY <1>4 DEF Store!Pooled, Store!ActivateFlag, Store!ActivateClear, Store!ActivateZero, Store!Deactivate,
           Store!Announce, Store!AllocateCheck, Store!AllocateCount, Store!AllocateUndo, Store!Goto, Store!Usable,
           Store!Activating, Store!TUID, ActivateFlag, ActivateClear, ActivateZero, Deactivate,
           Announce, AllocateCheck, AllocateCount, AllocateUndo, Goto, Usable, Activating, TUID
    <2> QED BY <1>0, <1>1, <2>1, PoolOnly
  <1>5. CASE Store!AllocatePop(t)
    <2>1. CASE FreeIds = << >>
      <3>1. PoolMove(t) /\ Alone(t) /\ PoolTypeOK'
          BY <1>0, <1>5, <2>1 DEF Store!AllocatePop, Store!Goto, PoolTypeOK, PoolMove, Alone
      <3> QED BY <1>0, <1>1, <1>5, <2>1, <3>1 DEF Store!AllocatePop
    <2>2. CASE FreeIds # << >>
      <3>1. Len(FreeIds) \in Nat \ {0} /\ \A i \in 1 .. Len(FreeIds) : FreeIds[i] \in Ids
          BY <1>0, <2>2
      <3>2. FreeIds' = SubSeq(FreeIds, 1, Len(FreeIds) - 1) /\ used' = used \cup {FreeIds[Len(FreeIds)]}
          BY <1>5, <2>2 DEF Store!AllocatePop, Store!Front, Store!Last
      <3>3. FreeIds' \in Seq(Ids)
          BY <3>1, <3>2, SubSeqProperties
      <3>4. PoolMove(t) /\ Alone(t) /\ PoolTypeOK'
          BY <1>0, <1>5, <2>2, <3>1, <3>2 DEF Store!AllocatePop, Store!Goto, PoolTypeOK, PoolMove, Alone
      <3> QED BY <1>0, <1>1, <1>5, <3>3, <3>4 DEF Store!AllocatePop
    <2> QED BY <2>1, <2>2
  <1>6. CASE Store!DeallocatePush(t)
    <2>1. PICK uid0 \in used : used' = used \ {uid0} /\ FreeIds' = Append(FreeIds, uid0)
                           /\ all' = [all EXCEPT ![t] = Store!HasAll(FreeIds')]
        BY <1>6 DEF Store!DeallocatePush
    <2>2. FreeIds' \in Seq(Ids)
        BY <1>0, <2>1, AppendProperties DEF PoolTypeOK
    <2>3. all' \in [Threads -> BOOLEAN]
        BY <1>0, <2>1 DEF Store!HasAll
    <2>4. PoolMove(t) /\ Alone(t) /\ PoolTypeOK'
        BY <1>0, <1>6, <2>1 DEF Store!DeallocatePush, Store!Goto, PoolTypeOK, PoolMove, Alone
    <2> QED BY <1>1, <2>2, <2>3, <2>4
  <1>7. CASE Store!DeallocateUncount(t) \/ Store!DeallocateCheck(t)
    <2>1. PoolMove(t) /\ Alone(t) /\ PoolTypeOK'
        BY <1>0, <1>7 DEF Store!DeallocateUncount, Store!DeallocateCheck, Store!Goto, PoolTypeOK, PoolMove, Alone
    <2> QED BY <1>0, <1>1, <1>7, <2>1 DEF Store!DeallocateUncount, Store!DeallocateCheck
  <1> QED BY <1>2, <1>3, <1>4, <1>5, <1>6, <1>7 DEF Store!Step

(* A call of the cache that is under way is about an id.                   *)
CallsNameIds == \A t \in Threads : pc[t] \in {"count", "take", "free"} => uid[t] \in Ids

LEMMA CacheMoves ==
    ASSUME Cache!TypeOK, CallsNameIds, NEW t \in Threads, Cache!Step(t)
    PROVE  PoolMove(t) /\ Alone(t) /\ Cache!TypeOK' /\ CallsNameIds'
  <1>0. /\ PoolTypeOK /\ slots \in [Ids -> BOOLEAN]
        /\ uid \in [Threads -> 0 .. MaxUID] /\ last \in [Threads -> BOOLEAN]
        /\ pc[t] \in {"count", "take", "free"} => uid[t] \in Ids
      BY DEF Cache!TypeOK, PoolTypeOK, Cache!PoolTypeOK, Ids, Cache!Ids, Activating, Cache!Activating,
             CallsNameIds
  <1>1. ASSUME PoolMove(t), Alone(t), PoolTypeOK', slots' \in [Ids -> BOOLEAN],
               uid' \in [Threads -> 0 .. MaxUID], last' \in [Threads -> BOOLEAN],
               pc'[t] \in {"count", "take", "free"} => uid'[t] \in Ids,
               \A u \in Threads \ {t} : uid'[u] = uid[u]
        PROVE  PoolMove(t) /\ Alone(t) /\ Cache!TypeOK' /\ CallsNameIds'
    <2>1. CallsNameIds'
        BY <1>1 DEF CallsNameIds, Alone
    <2> QED BY <1>1, <2>1 DEF Cache!TypeOK, PoolTypeOK, Cache!PoolTypeOK, Ids, Cache!Ids, Activating, Cache!Activating
  <1>12. 0 \in 0 .. MaxUID /\ Ids \subseteq 0 .. MaxUID
      BY PoolAssumption DEF Ids
  <1>2. CASE Cache!Activate(t)
    <2>1. ActivatePool(t)
        BY <1>2 DEF Cache!Activate, Cache!ActivatePool, Cache!Goto, ActivatePool, Goto, Unused, Cache!Unused
    <2>2. slots' \in [Ids -> BOOLEAN] /\ uid' = uid /\ last' = last
        BY <1>2 DEF Cache!Activate, Ids, Cache!Ids
    <2>3. pc'[t] = "activate"
        BY <1>0, <2>1 DEF ActivatePool, Goto, PoolTypeOK
    <2> QED BY <1>0, <1>1, <2>1, <2>2, <2>3, PoolOnly
  <1>3. CASE Cache!DeactivateCache(t)
    <2>1. DeactivateLook(t, count = 0) /\ slots' = slots /\ uid' = uid /\ last' = last
        BY <1>3 DEF Cache!DeactivateCache, Cache!DeactivateLook, DeactivateLook, Cache!Goto, Goto
    <2>2. pc'[t] \in {"announce", "idle"}
        BY <1>0, <2>1 DEF DeactivateLook, Goto, PoolTypeOK
    <2> QED BY <1>0, <1>1, <2>1, <2>2, PoolOnly
  <1>4. CASE Cache!Pooled(t)
    <2>1. /\ \/ ActivateFlag(t) \/ ActivateClear(t) \/ ActivateZero(t)
             \/ Deactivate(t) \/ Announce(t) \/ AllocateCount(t)
          /\ slots' = slots /\ uid' = uid /\ last' = last
        BY <1>4 DEF Cache!Pooled, Cache!ActivateFlag, Cache!ActivateClear, Cache!ActivateZero, Cache!Deactivate,
           Cache!Announce, Cache!AllocateCount, Cache!Goto, Cache!Usable,
           Cache!Activating, Cache!TUID, ActivateFlag, ActivateClear, ActivateZero, Deactivate,
           Announce, AllocateCount, Goto, Usable, Activating, TUID
    <2>2. pc'[t] \in {"count", "take", "free"} => pc[t] = "count"
        BY <1>0, <2>1 DEF ActivateFlag, ActivateClear, ActivateZero, Deactivate, Announce, AllocateCount, Goto, PoolTypeOK
    <2> QED BY <1>0, <1>1, <2>1, <2>2, PoolOnly
  <1>5. CASE Cache!Allocate(t)
    <2>1. AllocateCheck(t)
        BY <1>5 DEF Cache!Allocate, Cache!AllocateCheck, AllocateCheck, Cache!Goto, Goto, Cache!Usable, Usable,
                    Cache!Activating, Activating
    <2>2. PICK i \in Ids : uid' = [uid EXCEPT ![t] = i]
        BY <1>5 DEF Cache!Allocate, Cache!Ids, Ids
    <2>3. slots' = slots /\ last' = last
        BY <1>5 DEF Cache!Allocate
    <2> QED BY <1>0, <1>1, <1>12, <2>1, <2>2, <2>3, PoolOnly
  <1>6. CASE Cache!AllocateGiveUp(t)
    <2>1. AllocateUndo(t)
        BY <1>6 DEF Cache!AllocateGiveUp, Cache!AllocateUndo, AllocateUndo, Cache!Goto, Goto
    <2>2. slots' = slots /\ last' = last /\ uid' = [uid EXCEPT ![t] = 0]
        BY <1>6 DEF Cache!AllocateGiveUp
    <2>3. pc'[t] = "idle"
        BY <1>0, <2>1 DEF AllocateUndo, Goto, PoolTypeOK
    <2> QED BY <1>0, <1>1, <1>12, <2>1, <2>2, <2>3, PoolOnly
  <1>7. CASE Cache!AllocateTake(t)
    <2>1. slots' = [slots EXCEPT ![uid[t]] = TRUE] /\ last' = last /\ uid' = [uid EXCEPT ![t] = 0]
        BY <1>7 DEF Cache!AllocateTake
    <2>2. pc'[t] \in {"undo", "idle"}
        BY <1>0, <1>7 DEF Cache!AllocateTake, Cache!Goto, PoolTypeOK
    <2>3. PoolMove(t) /\ Alone(t) /\ PoolTypeOK'
      <3>1. CASE slots[uid[t]]
          BY <1>0, <1>7, <3>1 DEF Cache!AllocateTake, Cache!Goto, PoolTypeOK, PoolMove, Alone
      <3>2. CASE ~ slots[uid[t]]
        <4>1. uid[t] \in Ids
            BY <1>0, <1>7 DEF Cache!AllocateTake
        <4> QED BY <1>0, <1>7, <3>2, <4>1 DEF Cache!AllocateTake, Cache!Goto, PoolTypeOK, PoolMove, Alone
      <3> QED BY <3>1, <3>2
    <2> QED BY <1>0, <1>1, <1>12, <2>1, <2>2, <2>3
  <1>8. CASE Cache!DeallocateUncount(t)
    <2>1. PICK i \in Ids : uid' = [uid EXCEPT ![t] = i] /\ used' = used \ {i}
        BY <1>8 DEF Cache!DeallocateUncount, Cache!Ids, Ids
    <2>2. PoolMove(t) /\ Alone(t) /\ PoolTypeOK'
        BY <1>0, <1>8, <2>1 DEF Cache!DeallocateUncount, Cache!Goto, PoolTypeOK, PoolMove, Alone
    <2>3. slots' = slots /\ last' \in [Threads -> BOOLEAN]
        BY <1>0, <1>8 DEF Cache!DeallocateUncount
    <2> QED BY <1>0, <1>1, <1>12, <2>1, <2>2, <2>3
  <1>9. CASE Cache!DeallocateRecount(t)
    <2>1. PoolMove(t) /\ Alone(t) /\ PoolTypeOK' /\ pc'[t] \in {"idle", "check", "announce"}
        BY <1>0, <1>9 DEF Cache!DeallocateRecount, Cache!Goto, PoolTypeOK, PoolMove, Alone
    <2>2. slots' \in [Ids -> BOOLEAN] /\ last' \in [Threads -> BOOLEAN]
        BY <1>0, <1>9 DEF Cache!DeallocateRecount
    <2>3. uid' = uid \/ uid' = [uid EXCEPT ![t] = 0]
        BY <1>9 DEF Cache!DeallocateRecount
    <2> QED BY <1>0, <1>1, <1>12, <2>1, <2>2, <2>3
  <1>10. CASE Cache!DeallocateFree(t)
    <2>1. PoolMove(t) /\ Alone(t) /\ PoolTypeOK' /\ pc'[t] \in {"idle", "check", "announce"}
        BY <1>0, <1>10 DEF Cache!DeallocateFree, Cache!Goto, PoolTypeOK, PoolMove, Alone
    <2>2. slots' \in [Ids -> BOOLEAN] /\ last' \in [Threads -> BOOLEAN]
        BY <1>0, <1>10 DEF Cache!DeallocateFree
    <2>3. uid' = uid \/ uid' = [uid EXCEPT ![t] = 0]
        BY <1>10 DEF Cache!DeallocateFree
    <2> QED BY <1>0, <1>1, <1>12, <2>1, <2>2, <2>3
  <1>11. CASE Cache!DeallocateCheck(t)
    <2>1. PoolMove(t) /\ Alone(t) /\ PoolTypeOK' /\ pc'[t] \in {"idle", "check", "announce"}
        BY <1>0, <1>11 DEF Cache!DeallocateCheck, Cache!Goto, PoolTypeOK, PoolMove, Alone
    <2>2. slots' \in [Ids -> BOOLEAN] /\ last' \in [Threads -> BOOLEAN]
        BY <1>0, <1>11 DEF Cache!DeallocateCheck
    <2>3. uid' = uid \/ uid' = [uid EXCEPT ![t] = 0]
        BY <1>11 DEF Cache!DeallocateCheck
    <2> QED BY <1>0, <1>1, <1>12, <2>1, <2>2, <2>3
  <1> QED BY <1>2, <1>3, <1>4, <1>5, <1>6, <1>7, <1>8, <1>9, <1>10, <1>11 DEF Cache!Step

Typed == TypeOK /\ (cached => CallsNameIds)

LEMMA PoolTyped == TypeOK => PoolTypeOK
  <1> QED BY DEF TypeOK, Store!TypeOK, PoolTypeOK, Store!PoolTypeOK, Ids, Store!Ids, Activating, Store!Activating

LEMMA IdSteps ==
    ASSUME Typed, NEW t \in Threads, IdStep(t), UNCHANGED config
    PROVE  /\ PoolMove(t) /\ Alone(t)
           /\ Store!TypeOK' /\ Cache!TypeOK' /\ (cached' => CallsNameIds')
  <1>1. CASE cached /\ Cache!Step(t) /\ UNCHANGED storeVars
    <2>1. PoolMove(t) /\ Alone(t) /\ Cache!TypeOK' /\ CallsNameIds'
        BY <1>1, CacheMoves DEF Typed, TypeOK
    <2>2. Store!TypeOK'
        BY <1>1, <2>1 DEF Typed, TypeOK, storeVars, Store!TypeOK, Cache!TypeOK, Store!PoolTypeOK, Cache!PoolTypeOK,
            Store!Ids, Cache!Ids, Store!Activating, Cache!Activating
    <2> QED BY <2>1, <2>2
  <1>2. CASE ~ cached /\ Store!Step(t) /\ UNCHANGED cacheVars
    <2>1. PoolMove(t) /\ Alone(t) /\ Store!TypeOK'
        BY <1>2, StoreMoves DEF Typed, TypeOK
    <2>2. Cache!TypeOK'
        BY <1>2, <2>1 DEF Typed, TypeOK, cacheVars, Store!TypeOK, Cache!TypeOK, Store!PoolTypeOK, Cache!PoolTypeOK,
            Store!Ids, Cache!Ids, Store!Activating, Cache!Activating
    <2> QED BY <1>2, <2>1, <2>2 DEF config
  <1> QED BY <1>1, <1>2 DEF IdStep

(* The pool does nothing.                                                  *)
LEMMA PoolStays ==
    ASSUME Typed, UNCHANGED <<poolVars, storeVars, cacheVars, config>>
    PROVE  Store!TypeOK' /\ Cache!TypeOK' /\ (cached' => CallsNameIds')
  <1> QED BY DEF Typed, TypeOK, poolVars, storeVars, cacheVars, config, Store!TypeOK, Cache!TypeOK,
        Store!PoolTypeOK, Cache!PoolTypeOK, CallsNameIds

EntityTypeOK ==
    /\ user \in Users /\ cached \in BOOLEAN
    /\ refs \in [Ids -> Int]
    /\ life \in [Ids -> {"none", "alive", "destructed"}]
    /\ handle \in [Threads -> 0 .. MaxUID] /\ doing \in [Threads -> 0 .. MaxUID]
    /\ step \in [Threads -> {"none", "allocate", "count", "create",
                             "destruct", "destroy", "deallocate"}]

LEMMA EntityTyped == TypeOK <=> Store!TypeOK /\ Cache!TypeOK /\ EntityTypeOK
  <1> QED BY DEF TypeOK, EntityTypeOK

LEMMA ExceptTyped ==
    ASSUME NEW S, NEW R, NEW f \in [S -> R], NEW a, NEW r, a \in S => r \in R
    PROVE  [f EXCEPT ![a] = r] \in [S -> R]
  <1> QED OBVIOUS

LEMMA TypedStep == Typed /\ [Next]_vars => Typed'
  <1> SUFFICES ASSUME Typed, [Next]_vars PROVE Typed'
      OBVIOUS
  <1>0. EntityTypeOK /\ used \subseteq Ids /\ Ids \subseteq 0 .. MaxUID /\ 0 \in 0 .. MaxUID
      BY PoolTyped, EntityTyped, PoolAssumption DEF Typed, PoolTypeOK, Ids
  <1>1. ASSUME Store!TypeOK', Cache!TypeOK', cached' => CallsNameIds', EntityTypeOK' PROVE Typed'
      BY <1>1 DEF Typed, TypeOK, EntityTypeOK
  <1>2. ASSUME NEW t \in Threads, IdStep(t), UNCHANGED <<entityVars, config>> PROVE Typed'
    <2>1. EntityTypeOK'
        BY <1>0, <1>2 DEF EntityTypeOK, entityVars, config
    <2> QED BY <1>1, <1>2, <2>1, IdSteps
  <1>3. ASSUME NEW t \in Threads, AllocateId(t) PROVE Typed'
    <2>1. Store!TypeOK' /\ Cache!TypeOK' /\ (cached' => CallsNameIds') /\ UNCHANGED config
        BY <1>3, IdSteps DEF AllocateId
    <2>2. used' \subseteq Ids
        BY <2>1 DEF Store!TypeOK, Store!PoolTypeOK, Store!Ids, Ids
    <2>3. doing' \in [Threads -> 0 .. MaxUID]
      <3>1. CASE used' # used
        <4>1. CASE \E e \in used' : e \notin used
            BY <1>0, <1>3, <2>2, <3>1, <4>1 DEF AllocateId, EntityTypeOK
        <4>2. CASE \A e \in used' : e \in used
          <5>1. PoolMove(t)
              BY <1>3, IdSteps DEF AllocateId
          <5> QED BY <1>3, <3>1, <4>2, <5>1 DEF PoolMove, AllocateId
        <4> QED BY <4>1, <4>2
      <3>2. CASE used' = used
          BY <1>0, <1>3, <3>2 DEF AllocateId, EntityTypeOK
      <3> QED BY <3>1, <3>2
    <2>4. EntityTypeOK'
        BY <1>0, <1>3, <2>3 DEF AllocateId, Proceed, config, EntityTypeOK
    <2> QED BY <1>1, <2>1, <2>4
  <1>4. ASSUME NEW t \in Threads, DeallocateId(t) PROVE Typed'
    <2>1. Store!TypeOK' /\ Cache!TypeOK' /\ (cached' => CallsNameIds') /\ UNCHANGED config
        BY <1>4, IdSteps DEF DeallocateId
    <2>2. EntityTypeOK'
        BY <1>0, <1>4 DEF DeallocateId, Proceed, config, EntityTypeOK
    <2> QED BY <1>1, <2>1, <2>2
  <1>5. ASSUME UNCHANGED <<poolVars, storeVars, cacheVars, config>>, EntityTypeOK' PROVE Typed'
      BY <1>1, <1>5, PoolStays
  <1>6. ASSUME NEW t \in Threads, AllocateEntity(t) \/ AllocateRefused(t) PROVE Typed'
    <2>1. EntityTypeOK'
        BY <1>0, <1>6 DEF AllocateEntity, AllocateRefused, Proceed, config, EntityTypeOK
    <2> QED BY <1>5, <1>6, <2>1 DEF AllocateEntity, AllocateRefused
  <1>7. ASSUME NEW t \in Threads, SetReference(t) PROVE Typed'
    <2>1. EntityTypeOK'
      <3>1. refs' \in [Ids -> Int]
        <4>1. refs \in [Ids -> Int] /\ refs' = [refs EXCEPT ![doing[t]] = 1] /\ 1 \in Int
            BY <1>0, <1>7 DEF SetReference, EntityTypeOK
        <4> QED BY <4>1, ExceptTyped
      <3> QED BY <1>0, <1>7, <3>1 DEF SetReference, Proceed, config, EntityTypeOK
    <2> QED BY <1>5, <1>7, <2>1 DEF SetReference
  <1>8. ASSUME NEW t \in Threads, OnCreate(t) PROVE Typed'
    <2>1. EntityTypeOK'
        BY <1>0, <1>8 DEF OnCreate, Proceed, config, EntityTypeOK
    <2> QED BY <1>5, <1>8, <2>1 DEF OnCreate
  <1>9. ASSUME NEW t \in Threads, Delete(t) \/ OnDestroy(t) PROVE Typed'
    <2>1. EntityTypeOK'
        BY <1>0, <1>9 DEF Delete, OnDestroy, Proceed, config, EntityTypeOK
    <2> QED BY <1>5, <1>9, <2>1 DEF Delete, OnDestroy
  <1>10. ASSUME NEW t \in Threads, NEW u \in Threads, Copy(t, u) PROVE Typed'
    <2>1. EntityTypeOK'
      <3>1. refs' \in [Ids -> Int]
        <4>1. refs \in [Ids -> Int] /\ refs' = [refs EXCEPT ![handle[t]] = refs[handle[t]] + 1]
            BY <1>0, <1>10 DEF Copy, EntityTypeOK
        <4>2. handle[t] \in Ids => refs[handle[t]] + 1 \in Int
            BY <4>1
        <4> QED BY <4>1, <4>2, ExceptTyped
      <3>2. handle' \in [Threads -> 0 .. MaxUID]
          BY <1>0, <1>10 DEF Copy, EntityTypeOK
      <3> QED BY <1>0, <1>10, <3>1, <3>2 DEF Copy, config, EntityTypeOK
    <2> QED BY <1>5, <1>10, <2>1 DEF Copy
  <1>11. ASSUME NEW t \in Threads, Release(t) PROVE Typed'
    <2>1. EntityTypeOK'
      <3>1. refs' \in [Ids -> Int]
        <4>1. refs \in [Ids -> Int] /\ refs' = [refs EXCEPT ![handle[t]] = refs[handle[t]] - 1]
            BY <1>0, <1>11 DEF Release, EntityTypeOK
        <4>2. handle[t] \in Ids => refs[handle[t]] - 1 \in Int
            BY <4>1
        <4> QED BY <4>1, <4>2, ExceptTyped
      <3>2. doing' \in [Threads -> 0 .. MaxUID] /\ handle' \in [Threads -> 0 .. MaxUID]
          BY <1>0, <1>11 DEF Release, EntityTypeOK
      <3>3. step' \in [Threads -> {"none", "allocate", "count", "create", "destruct", "destroy", "deallocate"}]
          BY <1>0, <1>11 DEF Release, Proceed, EntityTypeOK
      <3> QED BY <1>0, <1>11, <3>1, <3>2, <3>3 DEF Release, config, EntityTypeOK
    <2> QED BY <1>5, <1>11, <2>1 DEF Release
  <1>12. CASE UNCHANGED vars
    <2>1. EntityTypeOK'
        BY <1>0, <1>12 DEF vars, entityVars, config, EntityTypeOK
    <2> QED BY <1>5, <1>12, <2>1 DEF vars
  <1> QED BY <1>2, <1>3, <1>4, <1>6, <1>7, <1>8, <1>9, <1>10, <1>11, <1>12 DEF Next, Manage, Direct, Entities

(***************************************************************************)
(* The lives of an entity.                                                 *)
(***************************************************************************)
(* Where the calls of the pool are that an entity makes, or its store.     *)
Places ==
    \A t \in Threads :
        /\ user = "direct" => step[t] = "none" /\ handle[t] = 0
        /\ user = "entities" /\ step[t] = "none" => pc[t] \in {"idle", "look", "announce"} \cup Activating
        /\ step[t] # "none" => handle[t] = 0
        /\ step[t] = "allocate" => pc[t] \in {"idle", "count", "take", "undo"}
        /\ step[t] \in {"count", "create", "destruct", "destroy"} => pc[t] = "idle"
        /\ step[t] = "deallocate" =>
              pc[t] \in {"idle", "uncount", "recount", "free", "check", "announce"}

(* A thread that makes or unmakes an entity whose id is in use.            *)
Working(t) ==
    \/ step[t] \in {"count", "create", "destruct", "destroy"}
    \/ step[t] = "deallocate" /\ pc[t] = "idle"

Owned ==
    /\ \A t \in Threads : handle[t] # 0 => handle[t] \in used
    /\ \A t \in Threads : Working(t) => doing[t] \in used
    /\ \A t, u \in Threads : Working(t) => handle[u] # doing[t]
    /\ \A t, u \in Threads : Working(t) /\ Working(u) /\ doing[t] = doing[u] => t = u

Lives ==
    /\ \A t \in Threads : handle[t] # 0 => life[handle[t]] = "alive"
    /\ \A t \in Threads :
          /\ step[t] \in {"count", "create"} => life[doing[t]] = "none"
          /\ step[t] = "deallocate" /\ pc[t] = "idle" => life[doing[t]] = "none"
    /\ \A e \in Ids \ used : life[e] = "none"
    /\ user = "direct" => \A e \in Ids : life[e] = "none"

(* Who is counted: the holders, and the creator once it has set the count. *)
Counted(e) == {t \in Threads : handle[t] = e \/ (step[t] = "create" /\ doing[t] = e)}

Counts == \A e \in Ids : refs[e] = Cardinality(Counted(e))

(* No id in use is forgotten.                                              *)
Kept ==
    user = "entities" =>
        \A e \in used : \E t \in Threads : handle[t] = e \/ (Working(t) /\ doing[t] = e)

EntitiesInv == Typed /\ Places /\ Owned /\ Lives /\ Counts /\ Kept

LEMMA InitEntities == Init => EntitiesInv
  <1> SUFFICES ASSUME Init PROVE EntitiesInv
      OBVIOUS
  <1>1. /\ active = FALSE /\ called = FALSE /\ count = 0 /\ used = {} /\ dispatches = 0 /\ activations = 0
        /\ pc = [t \in Threads |-> "idle"]
        /\ FreeIds = << >> /\ all = [t \in Threads |-> FALSE]
        /\ slots = [i \in Ids |-> FALSE] /\ uid = [t \in Threads |-> 0] /\ last = [t \in Threads |-> FALSE]
        /\ user \in Users /\ cached \in BOOLEAN
        /\ refs = [e \in Ids |-> 0] /\ life = [e \in Ids |-> "none"]
        /\ handle = [t \in Threads |-> 0] /\ doing = [t \in Threads |-> 0]
        /\ step = [t \in Threads |-> "none"]
      BY DEF Init, Store!Init, Store!PoolInit, Cache!Init, Cache!PoolInit, Ids, Cache!Ids
  <1>2. 0 \in 0 .. MaxUID /\ 0 \in 0 .. MaxActivations /\ 0 \notin Ids
      BY PoolAssumption DEF Ids
  <1>3. Store!TypeOK
    <2>1. Store!PoolTypeOK
      <3>1. active \in BOOLEAN /\ called \in BOOLEAN
          BY <1>1
      <3>2. count \in Int /\ used \subseteq Store!Ids /\ dispatches \in Nat /\ activations \in 0 .. MaxActivations
          BY <1>1, <1>2
      <3>3. \A t \in Threads : pc[t] = "idle"
          BY <1>1
      <3> QED BY <1>1, <3>1, <3>2, <3>3 DEF Store!PoolTypeOK
    <2>2. FreeIds \in Seq(Store!Ids)
        BY <1>1
    <2>3. all \in [Threads -> BOOLEAN]
        BY <1>1
    <2> QED BY <2>1, <2>2, <2>3 DEF Store!TypeOK
  <1>4. Cache!TypeOK
    <2>1. Cache!PoolTypeOK
      <3>1. active \in BOOLEAN /\ called \in BOOLEAN
          BY <1>1
      <3>2. count \in Int /\ used \subseteq Cache!Ids /\ dispatches \in Nat /\ activations \in 0 .. MaxActivations
          BY <1>1, <1>2
      <3>3. \A t \in Threads : pc[t] = "idle"
          BY <1>1
      <3> QED BY <1>1, <3>1, <3>2, <3>3 DEF Cache!PoolTypeOK
    <2>2. slots \in [Ids -> BOOLEAN] /\ uid \in [Threads -> 0 .. MaxUID] /\ last \in [Threads -> BOOLEAN]
        BY <1>1, <1>2
    <2> QED BY <2>1, <2>2 DEF Cache!TypeOK, Ids, Cache!Ids
  <1>5. EntityTypeOK
      BY <1>1, <1>2 DEF EntityTypeOK
  <1>6. Typed
      BY <1>1, <1>3, <1>4, <1>5, EntityTyped DEF Typed, CallsNameIds
  <1>7. Places /\ Owned /\ Lives /\ Kept
      BY <1>1 DEF Places, Owned, Lives, Kept, Working
  <1>8. Counts
    <2> SUFFICES ASSUME NEW e \in Ids PROVE refs[e] = Cardinality(Counted(e))
        BY DEF Counts
    <2>1. Counted(e) = {}
        BY <1>1, <1>2 DEF Counted
    <2> QED BY <1>1, <2>1, FS_EmptySet
  <1> QED BY <1>6, <1>7, <1>8 DEF EntitiesInv

(* The invariant gives the properties.                                     *)
LEMMA NobodyCounted ==
    ASSUME EntitiesInv, NEW e \in Ids, \A t \in Threads : handle[t] # e,
           \A t \in Threads : step[t] = "create" => doing[t] # e
    PROVE  refs[e] = 0
  <1>1. Counted(e) = {}
      BY DEF Counted
  <1> QED BY <1>1, FS_EmptySet DEF EntitiesInv, Counts

LEMMA InUse == TypeOK => used \subseteq Ids /\ 0 \notin Ids
  <1> QED BY PoolTyped, PoolAssumption DEF PoolTypeOK, Ids

LEMMA EntitiesApart == EntitiesInv => LivesApart
  <1> SUFFICES ASSUME EntitiesInv, NEW t \in Threads
               PROVE  /\ handle[t] # 0 => life[handle[t]] = "alive" /\ handle[t] \in used
                      /\ step[t] \in {"count", "create"} => life[doing[t]] = "none"
                      /\ step[t] \in {"count", "destruct", "destroy"} => refs[doing[t]] = 0
                      /\ step[t] = "deallocate" /\ pc[t] = "idle" =>
                            refs[doing[t]] = 0 /\ life[doing[t]] = "none"
      BY DEF LivesApart
  <1>0. used \subseteq Ids
      BY InUse DEF EntitiesInv, Typed
  <1>1. Working(t) /\ step[t] # "create" => refs[doing[t]] = 0
    <2> SUFFICES ASSUME Working(t), step[t] # "create" PROVE refs[doing[t]] = 0
        OBVIOUS
    <2>1. doing[t] \in Ids /\ \A u \in Threads : handle[u] # doing[t]
        BY <1>0 DEF EntitiesInv, Owned
    <2>2. \A u \in Threads : step[u] = "create" => doing[u] # doing[t]
        BY DEF EntitiesInv, Owned, Working
    <2> QED BY <2>1, <2>2, NobodyCounted
  <1>2. step[t] \in {"count", "destruct", "destroy"} => refs[doing[t]] = 0
      BY <1>1 DEF Working
  <1>3. step[t] = "deallocate" /\ pc[t] = "idle" => refs[doing[t]] = 0
      BY <1>1 DEF Working
  <1> QED BY <1>2, <1>3 DEF EntitiesInv, Owned, Lives

(***************************************************************************)
(* What the steps of the entities do with the pool's.                      *)
(***************************************************************************)
LEMMA ManageMoves ==
    ASSUME EntitiesInv, NEW t \in Threads, Manage(t)
    PROVE  /\ Alone(t) /\ used' = used /\ UNCHANGED <<entityVars, config>>
           /\ pc'[t] \in {"idle", "look", "announce"} \cup Activating
           /\ step[t] = "none" /\ user = "entities"
  <1>1. PoolMove(t) /\ Alone(t)
      BY IdSteps DEF Manage, EntitiesInv
  <1>2. pc[t] \in {"idle", "look", "announce"} \cup Activating
      BY DEF Manage, At, EntitiesInv, Places
  <1>3. pc[t] = "idle" => pc'[t] \in {"look", "activate"}
      BY DEF Manage
  <1> QED BY <1>1, <1>2, <1>3 DEF PoolMove, Manage, At, Activating

LEMMA AllocateMoves ==
    ASSUME EntitiesInv, NEW t \in Threads, AllocateId(t)
    PROVE  /\ Alone(t) /\ step[t] = "allocate" /\ user = "entities"
           /\ UNCHANGED <<refs, life, handle, config>>
           /\ \/ /\ used' = used /\ doing' = doing
                 /\ \/ pc'[t] \in {"count", "take", "undo"} /\ step' = step
                    \/ pc'[t] = "idle" /\ step' = [step EXCEPT ![t] = "none"]
              \/ /\ pc'[t] = "idle" /\ step' = [step EXCEPT ![t] = "count"]
                 /\ \E e \in Ids \ used : used' = used \cup {e} /\ doing' = [doing EXCEPT ![t] = e]
  <1>0. EntityTypeOK /\ step[t] = "allocate" /\ user = "entities"
      BY EntityTyped DEF AllocateId, At, EntitiesInv, Typed
  <1>1. PoolMove(t) /\ Alone(t)
      BY IdSteps DEF AllocateId, EntitiesInv
  <1>2. pc[t] \in {"idle", "count", "take", "undo"} /\ (pc[t] = "idle" => pc'[t] = "count")
      BY <1>0 DEF AllocateId, EntitiesInv, Places
  <1>3. CASE used' = used
    <2>1. doing' = doing /\ step' = [step EXCEPT ![t] = IF pc'[t] = "idle" THEN "none" ELSE "allocate"]
        BY <1>3 DEF AllocateId, Proceed
    <2>2. pc'[t] \in {"idle", "count", "take", "undo"}
        BY <1>1, <1>2 DEF PoolMove
    <2>3. pc'[t] # "idle" => step' = step
        BY <1>0, <2>1 DEF EntityTypeOK
    <2> QED BY <1>0, <1>1, <1>3, <2>1, <2>2, <2>3 DEF AllocateId
  <1>4. CASE used' # used
    <2>1. pc'[t] = "idle" /\ \E e \in Ids : used' = used \cup {e}
        BY <1>1, <1>2, <1>4 DEF PoolMove
    <2>2. PICK e \in Ids : used' = used \cup {e} /\ e \notin used
        BY <1>4, <2>1
    <2>3. (CHOOSE f \in used' : f \notin used) = e
        BY <2>2
    <2>4. doing' = [doing EXCEPT ![t] = e] /\ step' = [step EXCEPT ![t] = "count"]
        BY <1>4, <2>3 DEF AllocateId, Proceed
    <2> QED BY <1>0, <1>1, <2>1, <2>2, <2>4 DEF AllocateId
  <1> QED BY <1>3, <1>4

LEMMA DeallocateMoves ==
    ASSUME EntitiesInv, NEW t \in Threads, DeallocateId(t)
    PROVE  /\ Alone(t) /\ step[t] = "deallocate" /\ user = "entities"
           /\ UNCHANGED <<refs, life, handle, config>>
           /\ \/ /\ pc[t] = "idle" /\ pc'[t] \in {"uncount", "recount", "free"}
                 /\ used' = used \ {doing[t]} /\ UNCHANGED <<step, doing>>
              \/ /\ pc[t] # "idle" /\ used' = used
                 /\ \/ pc'[t] \in {"check", "announce"} /\ UNCHANGED <<step, doing>>
                    \/ pc'[t] = "idle" /\ step' = [step EXCEPT ![t] = "none"]
                                       /\ doing' = [doing EXCEPT ![t] = 0]
  <1>0. step[t] = "deallocate" /\ user = "entities"
      BY DEF DeallocateId, At
  <1>1. PoolMove(t) /\ Alone(t)
      BY IdSteps DEF DeallocateId, EntitiesInv
  <1>2. pc[t] \in {"idle", "uncount", "recount", "free", "check", "announce"}
      BY <1>0 DEF EntitiesInv, Places
  <1>3. CASE pc[t] = "idle"
      BY <1>0, <1>1, <1>3 DEF DeallocateId
  <1>4. CASE pc[t] # "idle"
    <2>1. used' = used /\ pc'[t] \in {"idle", "check", "announce"}
        BY <1>1, <1>2, <1>4 DEF PoolMove
    <2> QED BY <1>0, <1>1, <1>4, <2>1 DEF DeallocateId, Proceed
  <1> QED BY <1>3, <1>4

LEMMA CountedFinite ==
    ASSUME NEW e
    PROVE  IsFiniteSet(Counted(e)) /\ IsFiniteSet(Counted(e)') /\ Cardinality(Counted(e)) \in Nat
  <1>1. Counted(e) \subseteq Threads /\ Counted(e)' \subseteq Threads
      BY DEF Counted
  <1> QED BY <1>1, PoolAssumption, FS_Subset, FS_CardinalityType

(* The last pointer begins to destroy the entity, and any other leaves it  *)
(* to another that is counted.                                             *)
LEMMA ReleaseMoves ==
    ASSUME EntitiesInv, NEW t \in Threads, Release(t)
    PROVE  /\ handle[t] \in used /\ step[t] = "none" /\ user = "entities" /\ pc[t] = "idle"
           /\ UNCHANGED <<poolVars, storeVars, cacheVars, life, config>>
           /\ refs' = [refs EXCEPT ![handle[t]] = refs[handle[t]] - 1]
           /\ handle' = [handle EXCEPT ![t] = 0]
           /\ \/ /\ Counted(handle[t]) = {t}
                 /\ doing' = [doing EXCEPT ![t] = handle[t]]
                 /\ step' = [step EXCEPT ![t] = "destruct"]
              \/ /\ \E u \in Threads \ {t} : u \in Counted(handle[t])
                 /\ doing' = [doing EXCEPT ![t] = 0]
                 /\ step' = step
  <1>0. EntityTypeOK /\ used \subseteq Ids
      BY EntityTyped, InUse DEF EntitiesInv, Typed
  <1>1. handle[t] \in used /\ step[t] = "none" /\ user = "entities" /\ pc[t] = "idle"
      BY DEF Release, At, EntitiesInv, Owned
  <1>2. handle[t] \in Ids /\ t \in Counted(handle[t]) /\ IsFiniteSet(Counted(handle[t]))
      BY <1>0, <1>1, CountedFinite DEF Counted
  <1>3. refs[handle[t]] = Cardinality(Counted(handle[t]))
      BY <1>2 DEF EntitiesInv, Counts
  <1>4. CASE refs[handle[t]] = 1
    <2>1. PICK u : Counted(handle[t]) = {u}
        BY <1>2, <1>3, <1>4, FS_Singleton
    <2>2. Counted(handle[t]) = {t}
        BY <1>2, <2>1
    <2> QED BY <1>1, <1>4, <2>2 DEF Release, Proceed
  <1>5. CASE refs[handle[t]] # 1
    <2>1. Counted(handle[t]) # {t}
        BY <1>3, <1>5, FS_Singleton
    <2>2. \E u \in Threads \ {t} : u \in Counted(handle[t])
        BY <1>2, <2>1 DEF Counted
    <2>3. step' = step
        BY <1>0, <1>1, <1>5 DEF Release, Proceed, EntityTypeOK
    <2> QED BY <1>1, <1>5, <2>2, <2>3 DEF Release
  <1> QED BY <1>4, <1>5

LEMMA DirectMoves ==
    ASSUME EntitiesInv, NEW t \in Threads, Direct(t)
    PROVE  user = "direct" /\ UNCHANGED <<entityVars, config>>
  <1> QED BY DEF Direct

(* Steps of an entity by itself leave the pool alone.                      *)
LEMMA PlacesStep == EntitiesInv /\ [Next]_vars => Places'
  <1> SUFFICES ASSUME EntitiesInv, [Next]_vars PROVE Places'
      OBVIOUS
  <1>0. Places /\ EntityTypeOK
      BY EntityTyped DEF EntitiesInv, Typed
  <1>1. ASSUME NEW t \in Threads, Manage(t) PROVE Places'
      BY <1>0, <1>1, ManageMoves DEF Places, Alone, entityVars, config
  <1>2. ASSUME NEW t \in Threads, Direct(t) PROVE Places'
      BY <1>0, <1>2, DirectMoves DEF Places, entityVars, config
  <1>3. ASSUME NEW t \in Threads, AllocateId(t) PROVE Places'
      BY <1>0, <1>3, AllocateMoves DEF Places, Alone, EntityTypeOK, config
  <1>4. ASSUME NEW t \in Threads, DeallocateId(t) PROVE Places'
      BY <1>0, <1>4, DeallocateMoves DEF Places, Alone, EntityTypeOK, config
  <1>5. ASSUME NEW t \in Threads,
               \/ AllocateEntity(t) \/ AllocateRefused(t) \/ SetReference(t) \/ OnCreate(t)
               \/ Release(t) \/ Delete(t) \/ OnDestroy(t)
        PROVE  Places'
    <2>1. user = "entities" /\ user' = user /\ pc' = pc /\ pc[t] = "idle"
        BY <1>0, <1>5 DEF AllocateEntity, AllocateRefused, SetReference, OnCreate, Release, Delete, OnDestroy,
             At, poolVars, config, Places
    <2>2. PICK l : step' = [step EXCEPT ![t] = l]
        BY <1>5 DEF AllocateEntity, AllocateRefused, SetReference, OnCreate, Release, Delete, OnDestroy, Proceed
    <2>3. /\ \A u \in Threads \ {t} : handle'[u] = handle[u]
          /\ step'[t] # "none" => handle'[t] = 0
        BY <1>0, <1>5 DEF AllocateEntity, AllocateRefused, SetReference, OnCreate, Release, Delete, OnDestroy,
             Proceed, At, Places, EntityTypeOK
    <2> QED BY <1>0, <2>1, <2>2, <2>3 DEF Places, EntityTypeOK
  <1>6. ASSUME NEW t \in Threads, NEW u \in Threads, Copy(t, u) PROVE Places'
    <2>1. \A v \in Threads \ {u} : handle'[v] = handle[v]
        BY <1>0, <1>6 DEF Copy, EntityTypeOK
    <2> QED BY <1>0, <1>6, <2>1 DEF Places, Copy, At, poolVars, config
  <1>7. CASE UNCHANGED vars
      BY <1>0, <1>7 DEF Places, vars, poolVars, entityVars, config
  <1> QED BY <1>1, <1>2, <1>3, <1>4, <1>5, <1>6, <1>7 DEF Next, Entities

(* In use by direct callers only: no entity exists.                        *)
LEMMA NoEntities ==
    ASSUME EntitiesInv, user = "direct", NEW t \in Threads
    PROVE  handle[t] = 0 /\ step[t] = "none" /\ ~ Working(t)
  <1> QED BY DEF EntitiesInv, Places, Working

(* A thread that works on no entity, and begins to work on none.           *)
LEMMA OwnedStays ==
    ASSUME EntitiesInv, used \subseteq used', UNCHANGED handle,
           \A u \in Threads : Working(u)' => Working(u) /\ doing'[u] = doing[u]
    PROVE  Owned'
  <1>1. Owned
      BY DEF EntitiesInv
  <1> QED BY <1>1 DEF Owned

LEMMA OwnedStep == EntitiesInv /\ [Next]_vars => Owned'
  <1> SUFFICES ASSUME EntitiesInv, [Next]_vars PROVE Owned'
      OBVIOUS
  <1>0. Owned /\ EntityTypeOK /\ used \subseteq Ids /\ 0 \notin Ids
      BY EntityTyped, InUse DEF EntitiesInv, Typed
  <1>1. ASSUME NEW t \in Threads, Manage(t) PROVE Owned'
    <2>1. \A u \in Threads : Working(u)' => Working(u) /\ doing'[u] = doing[u]
        BY <1>0, <1>1, ManageMoves DEF Working, Alone, entityVars
    <2> QED BY <1>1, <2>1, OwnedStays, ManageMoves DEF entityVars
  <1>2. ASSUME NEW t \in Threads, Direct(t) PROVE Owned'
    <2>1. \A u \in Threads : handle'[u] = 0 /\ ~ Working(u)'
        BY <1>2, DirectMoves, NoEntities DEF entityVars, Working
    <2> QED BY <2>1 DEF Owned
  <1>3. ASSUME NEW t \in Threads, AllocateId(t) PROVE Owned'
    <2>0. ~ Working(t)
        BY <1>3, AllocateMoves DEF Working
    <2>1. CASE used' = used /\ doing' = doing
      <3>1. \A u \in Threads : Working(u)' => Working(u) /\ doing'[u] = doing[u]
        <4>1. \A u \in Threads \ {t} : Working(u)' => Working(u)
            BY <1>0, <1>3, AllocateMoves DEF Working, Alone, EntityTypeOK
        <4>2. ~ Working(t)'
            BY <1>0, <1>3, <2>1, AllocateMoves DEF Working, EntityTypeOK
        <4> QED BY <2>1, <4>1, <4>2
      <3> QED BY <1>3, <2>1, <3>1, OwnedStays, AllocateMoves
    <2>2. ASSUME NEW e \in Ids \ used, used' = used \cup {e}, doing' = [doing EXCEPT ![t] = e],
                 step' = [step EXCEPT ![t] = "count"], handle' = handle, Alone(t)
          PROVE  Owned'
      <3>1. \A u \in Threads \ {t} : doing'[u] = doing[u] /\ (Working(u)' <=> Working(u))
          BY <1>0, <2>2 DEF Working, Alone, EntityTypeOK
      <3>2. doing'[t] = e
          BY <1>0, <2>2 DEF EntityTypeOK
      <3>3. \A u \in Threads : handle[u] # e
          BY <1>0, <2>2 DEF Owned
      <3>4. \A u \in Threads \ {t} : Working(u) => doing[u] # e
          BY <1>0, <2>2 DEF Owned
      <3> QED BY <1>0, <2>2, <3>1, <3>2, <3>3, <3>4 DEF Owned
    <2> QED BY <1>3, <2>1, <2>2, AllocateMoves
  <1>4. ASSUME NEW t \in Threads, DeallocateId(t) PROVE Owned'
    <2>1. CASE pc[t] = "idle"
      <3>1. /\ used' = used \ {doing[t]} /\ UNCHANGED <<step, doing, handle>> /\ Alone(t)
            /\ step[t] = "deallocate" /\ pc'[t] # "idle"
          BY <1>4, <2>1, DeallocateMoves
      <3>2. Working(t) /\ ~ Working(t)' /\ \A u \in Threads \ {t} : Working(u)' <=> Working(u)
          BY <2>1, <3>1 DEF Working, Alone
      <3>3. \A u \in Threads \ {t} : Working(u) => doing[u] # doing[t]
          BY <1>0, <3>2 DEF Owned
      <3>4. \A u \in Threads : handle[u] # doing[t]
          BY <1>0, <3>2 DEF Owned
      <3> QED BY <1>0, <3>1, <3>2, <3>3, <3>4 DEF Owned
    <2>2. CASE pc[t] # "idle"
      <3>1. ~ Working(t)' /\ \A u \in Threads \ {t} : (Working(u)' => Working(u)) /\ doing'[u] = doing[u]
          BY <1>0, <1>4, <2>2, DeallocateMoves DEF Working, Alone, EntityTypeOK
      <3> QED BY <1>4, <2>2, <3>1, OwnedStays, DeallocateMoves
    <2> QED BY <2>1, <2>2
  <1>5. ASSUME NEW t \in Threads, AllocateEntity(t) \/ AllocateRefused(t) PROVE Owned'
    <2>1. \A u \in Threads : Working(u)' => Working(u) /\ doing'[u] = doing[u]
        BY <1>0, <1>5 DEF AllocateEntity, AllocateRefused, Proceed, Working, poolVars, EntityTypeOK
    <2> QED BY <1>5, <2>1, OwnedStays DEF AllocateEntity, AllocateRefused, poolVars
  <1>6. ASSUME NEW t \in Threads, SetReference(t) \/ Delete(t) \/ OnDestroy(t) PROVE Owned'
    <2>1. \A u \in Threads : Working(u)' => Working(u) /\ doing'[u] = doing[u]
        BY <1>0, <1>6 DEF SetReference, Delete, OnDestroy, At, Proceed, Working, poolVars, EntityTypeOK
    <2> QED BY <1>6, <2>1, OwnedStays DEF SetReference, Delete, OnDestroy, poolVars
  <1>7. ASSUME NEW t \in Threads, OnCreate(t) PROVE Owned'
    <2>1. /\ Working(t) /\ pc' = pc /\ used' = used /\ step' = [step EXCEPT ![t] = "none"]
          /\ handle' = [handle EXCEPT ![t] = doing[t]] /\ doing' = [doing EXCEPT ![t] = 0]
        BY <1>7 DEF OnCreate, At, Working, Proceed, poolVars
    <2>2. ~ Working(t)' /\ \A u \in Threads \ {t} : (Working(u)' <=> Working(u)) /\ doing'[u] = doing[u]
        BY <1>0, <2>1 DEF Working, EntityTypeOK
    <2>3. handle'[t] = doing[t] /\ \A u \in Threads \ {t} : handle'[u] = handle[u]
        BY <1>0, <2>1 DEF EntityTypeOK
    <2> QED BY <1>0, <2>1, <2>2, <2>3 DEF Owned
  <1>8. ASSUME NEW t \in Threads, NEW u \in Threads, Copy(t, u) PROVE Owned'
    <2>1. /\ pc' = pc /\ used' = used /\ step' = step /\ doing' = doing
          /\ handle' = [handle EXCEPT ![u] = handle[t]] /\ handle[t] # 0
        BY <1>8 DEF Copy, poolVars
    <2>2. handle'[u] = handle[t] /\ \A v \in Threads \ {u} : handle'[v] = handle[v]
        BY <1>0, <2>1 DEF EntityTypeOK
    <2>3. \A v \in Threads : Working(v)' <=> Working(v)
        BY <2>1 DEF Working
    <2> QED BY <1>0, <2>1, <2>2, <2>3 DEF Owned
  <1>9. ASSUME NEW t \in Threads, Release(t) PROVE Owned'
    <2>1. /\ handle[t] \in used /\ step[t] = "none" /\ pc' = pc /\ used' = used
          /\ handle' = [handle EXCEPT ![t] = 0]
        BY <1>9, ReleaseMoves DEF poolVars
    <2>2. handle'[t] = 0 /\ \A u \in Threads \ {t} : handle'[u] = handle[u]
        BY <1>0, <2>1 DEF EntityTypeOK
    <2>3. CASE Counted(handle[t]) = {t} /\ doing' = [doing EXCEPT ![t] = handle[t]]
               /\ step' = [step EXCEPT ![t] = "destruct"]
      <3>1. \A u \in Threads \ {t} : (Working(u)' <=> Working(u)) /\ doing'[u] = doing[u]
          BY <1>0, <2>1, <2>3 DEF Working, EntityTypeOK
      <3>2. doing'[t] = handle[t]
          BY <1>0, <2>1, <2>3 DEF EntityTypeOK
      <3>3. \A u \in Threads \ {t} : handle[u] # handle[t]
          BY <2>3 DEF Counted
      <3>4. \A u \in Threads : Working(u) => doing[u] # handle[t]
          BY <1>0, <2>1 DEF Owned
      <3> QED BY <1>0, <2>1, <2>2, <3>1, <3>2, <3>3, <3>4 DEF Owned
    <2>4. CASE step' = step /\ doing' = [doing EXCEPT ![t] = 0]
      <3>1. \A u \in Threads : (Working(u)' <=> Working(u)) /\ (Working(u) => doing'[u] = doing[u])
          BY <1>0, <2>1, <2>4 DEF Working, EntityTypeOK
      <3> QED BY <1>0, <2>1, <2>2, <3>1 DEF Owned
    <2> QED BY <1>9, <2>3, <2>4, ReleaseMoves
  <1>10. CASE UNCHANGED vars
    <2>1. \A u \in Threads : Working(u)' => Working(u) /\ doing'[u] = doing[u]
        BY <1>10 DEF vars, poolVars, entityVars, Working
    <2> QED BY <1>10, <2>1, OwnedStays DEF vars, poolVars, entityVars
  <1> QED BY <1>1, <1>2, <1>3, <1>4, <1>5, <1>6, <1>7, <1>8, <1>9, <1>10 DEF Next, Entities

LEMMA LivesStep == EntitiesInv /\ [Next]_vars => Lives'
  <1> SUFFICES ASSUME EntitiesInv, [Next]_vars PROVE Lives'
      OBVIOUS
  <1>0. Owned /\ Lives /\ EntityTypeOK /\ used \subseteq Ids /\ 0 \notin Ids
      BY EntityTyped, InUse DEF EntitiesInv, Typed
  <1>1. ASSUME NEW t \in Threads, Manage(t) PROVE Lives'
      BY <1>0, <1>1, ManageMoves DEF Lives, Alone, entityVars, config
  <1>2. ASSUME NEW t \in Threads, Direct(t) PROVE Lives'
    <2>1. user = "direct" /\ UNCHANGED <<entityVars, config>>
        BY <1>2, DirectMoves
    <2>2. \A u \in Threads : handle[u] = 0 /\ step[u] = "none"
        BY <2>1, NoEntities
    <2> QED BY <1>0, <2>1, <2>2 DEF Lives, entityVars, config
  <1>3. ASSUME NEW t \in Threads, AllocateId(t) PROVE Lives'
    <2>1. CASE used' = used /\ doing' = doing
        BY <1>0, <1>3, <2>1, AllocateMoves DEF Lives, Alone, EntityTypeOK, config
    <2>2. ASSUME NEW e \in Ids \ used, used' = used \cup {e}, doing' = [doing EXCEPT ![t] = e],
                 step' = [step EXCEPT ![t] = "count"], UNCHANGED <<handle, life, config>>, Alone(t)
          PROVE  Lives'
      <3>1. doing'[t] = e /\ step'[t] = "count" /\ life[e] = "none"
          BY <1>0, <2>2 DEF EntityTypeOK, Lives
      <3>2. \A u \in Threads \ {t} : doing'[u] = doing[u] /\ step'[u] = step[u] /\ pc'[u] = pc[u]
          BY <1>0, <2>2 DEF EntityTypeOK, Alone
      <3> QED BY <1>0, <2>2, <3>1, <3>2 DEF Lives, config
    <2> QED BY <1>3, <2>1, <2>2, AllocateMoves
  <1>4. ASSUME NEW t \in Threads, DeallocateId(t) PROVE Lives'
    <2>1. CASE pc[t] = "idle"
      <3>1. /\ used' = used \ {doing[t]} /\ UNCHANGED <<step, doing, handle, life, config>> /\ Alone(t)
            /\ step[t] = "deallocate" /\ pc'[t] # "idle"
          BY <1>4, <2>1, DeallocateMoves
      <3>2. life[doing[t]] = "none"
          BY <1>0, <2>1, <3>1 DEF Lives
      <3> QED BY <1>0, <3>1, <3>2 DEF Lives, Alone, config
    <2>2. CASE pc[t] # "idle"
        BY <1>0, <1>4, <2>2, DeallocateMoves DEF Lives, Alone, EntityTypeOK, config
    <2> QED BY <2>1, <2>2
  <1>5. ASSUME NEW t \in Threads, AllocateEntity(t) \/ AllocateRefused(t) PROVE Lives'
      BY <1>0, <1>5 DEF AllocateEntity, AllocateRefused, Proceed, poolVars, config, EntityTypeOK, Lives
  <1>6. ASSUME NEW t \in Threads, SetReference(t) PROVE Lives'
      BY <1>0, <1>6 DEF SetReference, At, Proceed, poolVars, config, EntityTypeOK, Lives
  <1>7. ASSUME NEW t \in Threads, OnCreate(t) \/ Delete(t) \/ OnDestroy(t) PROVE Lives'
    <2>1. Working(t) /\ user = "entities" /\ doing[t] \in used
        BY <1>0, <1>7 DEF OnCreate, Delete, OnDestroy, At, Working, Owned
    <2>2. \A u \in Threads : handle[u] # doing[t]
        BY <1>0, <2>1 DEF Owned
    <2>3. \A u \in Threads \ {t} : Working(u) => doing[u] # doing[t]
        BY <1>0, <2>1 DEF Owned
    <2>4. CASE OnCreate(t)
      <3>1. /\ step' = [step EXCEPT ![t] = "none"] /\ life' = [life EXCEPT ![doing[t]] = "alive"]
            /\ handle' = [handle EXCEPT ![t] = doing[t]] /\ doing' = [doing EXCEPT ![t] = 0]
            /\ pc' = pc /\ used' = used /\ user' = user
          BY <2>4 DEF OnCreate, Proceed, poolVars, config
      <3>2. \A u \in Threads \ {t} : handle'[u] = handle[u] /\ doing'[u] = doing[u] /\ step'[u] = step[u]
          BY <1>0, <3>1 DEF EntityTypeOK
      <3>3. handle'[t] = doing[t] /\ step'[t] = "none" /\ life'[doing[t]] = "alive"
            /\ \A e \in Ids \ {doing[t]} : life'[e] = life[e]
          BY <1>0, <2>1, <3>1 DEF EntityTypeOK
      <3>4. \A u \in Threads : handle[u] # 0 => handle[u] \in Ids
          BY <1>0 DEF Owned
      <3>5. \A u \in Threads : Working(u) => doing[u] \in Ids
          BY <1>0 DEF Owned
      <3> QED BY <1>0, <2>1, <2>2, <2>3, <3>1, <3>2, <3>3, <3>4, <3>5 DEF Lives, Working
    <2>5. CASE Delete(t) \/ OnDestroy(t)
      <3>1. /\ handle' = handle /\ doing' = doing /\ pc' = pc /\ used' = used /\ user' = user
            /\ \/ life' = [life EXCEPT ![doing[t]] = "destructed"] /\ step' = [step EXCEPT ![t] = "destroy"]
               \/ life' = [life EXCEPT ![doing[t]] = "none"] /\ step' = [step EXCEPT ![t] = "deallocate"]
          BY <2>5 DEF Delete, OnDestroy, Proceed, poolVars, config
      <3>2. \A u \in Threads \ {t} : step'[u] = step[u]
          BY <1>0, <3>1 DEF EntityTypeOK
      <3>3. /\ \A e \in Ids \ {doing[t]} : life'[e] = life[e]
            /\ \/ step'[t] = "destroy"
               \/ step'[t] = "deallocate" /\ life'[doing[t]] = "none"
          BY <1>0, <2>1, <3>1 DEF EntityTypeOK
      <3>4. \A u \in Threads : handle[u] # 0 => handle[u] \in Ids
          BY <1>0 DEF Owned
      <3>5. \A u \in Threads : Working(u) => doing[u] \in Ids
          BY <1>0 DEF Owned
      <3> QED BY <1>0, <2>1, <2>2, <2>3, <3>1, <3>2, <3>3, <3>4, <3>5 DEF Lives, Working
    <2> QED BY <1>7, <2>4, <2>5
  <1>8. ASSUME NEW t \in Threads, NEW u \in Threads, Copy(t, u) PROVE Lives'
    <2>1. /\ UNCHANGED <<pc, used, step, doing, life, user>>
          /\ handle' = [handle EXCEPT ![u] = handle[t]] /\ handle[t] # 0
        BY <1>8 DEF Copy, poolVars, config
    <2>2. handle'[u] = handle[t] /\ \A v \in Threads \ {u} : handle'[v] = handle[v]
        BY <1>0, <2>1 DEF EntityTypeOK
    <2> QED BY <1>0, <2>1, <2>2 DEF Lives
  <1>9. ASSUME NEW t \in Threads, Release(t) PROVE Lives'
    <2>1. /\ step[t] = "none" /\ UNCHANGED <<pc, used, life, user>>
          /\ handle' = [handle EXCEPT ![t] = 0]
          /\ \/ step' = [step EXCEPT ![t] = "destruct"]
             \/ step' = step
          /\ \E d : doing' = [doing EXCEPT ![t] = d]
        BY <1>9, ReleaseMoves DEF poolVars, config
    <2>2. step'[t] \in {"none", "destruct"}
        BY <1>0, <2>1 DEF EntityTypeOK
    <2>3. handle'[t] = 0 /\ \A u \in Threads \ {t} : /\ handle'[u] = handle[u]
                                                     /\ step'[u] = step[u] /\ doing'[u] = doing[u]
        BY <1>0, <2>1 DEF EntityTypeOK
    <2> QED BY <1>0, <2>1, <2>2, <2>3 DEF Lives
  <1>10. CASE UNCHANGED vars
      BY <1>0, <1>10 DEF Lives, vars, poolVars, entityVars, config
  <1> QED BY <1>1, <1>2, <1>3, <1>4, <1>5, <1>6, <1>7, <1>8, <1>9, <1>10 DEF Next, Entities

LEMMA CountsStay ==
    ASSUME EntitiesInv, refs' = refs, \A e \in Ids : Counted(e)' = Counted(e)
    PROVE  Counts'
  <1> QED BY DEF EntitiesInv, Counts

LEMMA CountsStep == EntitiesInv /\ [Next]_vars => Counts'
  <1> SUFFICES ASSUME EntitiesInv, [Next]_vars PROVE Counts'
      OBVIOUS
  <1>0. Owned /\ Counts /\ Places /\ EntityTypeOK /\ used \subseteq Ids /\ 0 \notin Ids
      BY EntityTyped, InUse DEF EntitiesInv, Typed
  <1>1. ASSUME UNCHANGED entityVars PROVE Counts'
    <2>1. \A e \in Ids : Counted(e)' = Counted(e)
        BY <1>1 DEF Counted, entityVars
    <2> QED BY <1>1, <2>1, CountsStay DEF entityVars
  <1>2. ASSUME NEW t \in Threads, refs' = refs, handle' = handle,
               step[t] # "create", step'[t] # "create",
               \A u \in Threads \ {t} : step'[u] = step[u] /\ doing'[u] = doing[u]
        PROVE  Counts'
    <2>1. \A e \in Ids : Counted(e)' = Counted(e)
        BY <1>2 DEF Counted
    <2> QED BY <1>2, <2>1, CountsStay
  <1>3. ASSUME NEW t \in Threads, AllocateId(t) PROVE Counts'
    <2>1. /\ refs' = refs /\ handle' = handle /\ step[t] # "create" /\ step'[t] # "create"
          /\ \A u \in Threads \ {t} : step'[u] = step[u] /\ doing'[u] = doing[u]
        BY <1>0, <1>3, AllocateMoves DEF EntityTypeOK
    <2> QED BY <1>2, <2>1
  <1>4. ASSUME NEW t \in Threads, DeallocateId(t) PROVE Counts'
    <2>1. /\ refs' = refs /\ handle' = handle /\ step[t] # "create" /\ step'[t] # "create"
          /\ \A u \in Threads \ {t} : step'[u] = step[u] /\ doing'[u] = doing[u]
        BY <1>0, <1>4, DeallocateMoves DEF EntityTypeOK
    <2> QED BY <1>2, <2>1
  <1>5. ASSUME NEW t \in Threads, AllocateEntity(t) \/ AllocateRefused(t) \/ Delete(t) \/ OnDestroy(t)
        PROVE  Counts'
    <2>1. /\ refs' = refs /\ handle' = handle /\ step[t] # "create" /\ step'[t] # "create"
          /\ \A u \in Threads \ {t} : step'[u] = step[u] /\ doing'[u] = doing[u]
        BY <1>0, <1>5 DEF AllocateEntity, AllocateRefused, Delete, OnDestroy, At, Proceed, EntityTypeOK
    <2> QED BY <1>2, <2>1
  <1>6. ASSUME NEW t \in Threads, SetReference(t) PROVE Counts'
    <2>0. PICK e \in Ids : e = doing[t]
        BY <1>0, <1>6 DEF SetReference, At, Working, Owned
    <2>1. /\ e = doing[t] /\ Working(t) /\ step[t] = "count"
          /\ handle' = handle /\ doing' = doing
          /\ refs' = [refs EXCEPT ![e] = 1] /\ step' = [step EXCEPT ![t] = "create"]
        BY <2>0, <1>6 DEF SetReference, At, Proceed, Working
    <2>2. Counted(e)' = {t}
      <3>1. \A u \in Threads : handle[u] # e
          BY <1>0, <2>1 DEF Owned
      <3>2. \A u \in Threads \ {t} : step[u] = "create" => doing[u] # e
          BY <1>0, <2>1 DEF Owned, Working
      <3> QED BY <1>0, <2>1, <3>1, <3>2 DEF Counted, EntityTypeOK
    <2>3. \A f \in Ids \ {e} : Counted(f)' = Counted(f)
        BY <1>0, <2>1 DEF Counted, EntityTypeOK
    <2>4. refs'[e] = 1 /\ \A f \in Ids \ {e} : refs'[f] = refs[f]
        BY <1>0, <2>1 DEF EntityTypeOK
    <2>5. Cardinality(Counted(e)') = 1
        BY <2>2, FS_Singleton
    <2>6. ASSUME NEW f \in Ids PROVE refs'[f] = Cardinality(Counted(f)')
      <3>1. CASE f = e
          BY <2>4, <2>5, <3>1
      <3>2. CASE f # e
          BY <1>0, <2>3, <2>4, <3>2 DEF Counts
      <3> QED BY <3>1, <3>2
    <2> QED BY <2>6 DEF Counts
  <1>7. ASSUME NEW t \in Threads, OnCreate(t) PROVE Counts'
    <2>1. /\ refs' = refs /\ step[t] = "create" /\ handle[t] = 0
          /\ handle' = [handle EXCEPT ![t] = doing[t]] /\ step' = [step EXCEPT ![t] = "none"]
          /\ doing' = [doing EXCEPT ![t] = 0]
        BY <1>0, <1>7 DEF OnCreate, At, Proceed, Places
    <2>2. \A e \in Ids : Counted(e)' = Counted(e)
        BY <1>0, <2>1 DEF Counted, EntityTypeOK
    <2> QED BY <2>1, <2>2, CountsStay
  <1>8. ASSUME NEW t \in Threads, NEW u \in Threads \ {t}, Copy(t, u) PROVE Counts'
    <2>0. PICK e \in Ids : e = handle[t]
        BY <1>0, <1>8 DEF Copy, Owned
    <2>1. /\ e = handle[t] /\ UNCHANGED <<step, doing>>
          /\ handle[u] = 0 /\ step[u] = "none"
          /\ refs' = [refs EXCEPT ![e] = refs[e] + 1] /\ handle' = [handle EXCEPT ![u] = e]
        BY <2>0, <1>8 DEF Copy, At
    <2>2. Counted(e)' = Counted(e) \cup {u} /\ u \notin Counted(e)
        BY <1>0, <2>1 DEF Counted, EntityTypeOK
    <2>3. \A f \in Ids \ {e} : Counted(f)' = Counted(f)
        BY <1>0, <2>1 DEF Counted, EntityTypeOK
    <2>4. refs'[e] = refs[e] + 1 /\ \A f \in Ids \ {e} : refs'[f] = refs[f]
        BY <1>0, <2>1 DEF EntityTypeOK
    <2>5. Cardinality(Counted(e)') = Cardinality(Counted(e)) + 1
        BY <2>2, CountedFinite, FS_AddElement
    <2>6. refs[e] = Cardinality(Counted(e))
        BY <1>0, <2>1 DEF Counts
    <2>7. ASSUME NEW f \in Ids PROVE refs'[f] = Cardinality(Counted(f)')
      <3>1. CASE f = e
          BY <2>4, <2>5, <2>6, <3>1
      <3>2. CASE f # e
          BY <1>0, <2>3, <2>4, <3>2 DEF Counts
      <3> QED BY <3>1, <3>2
    <2> QED BY <2>7 DEF Counts
  <1>9. ASSUME NEW t \in Threads, Release(t) PROVE Counts'
    <2>0. PICK e \in Ids : e = handle[t]
        BY <1>0, <1>9, ReleaseMoves
    <2>1. /\ e = handle[t] /\ step[t] = "none"
          /\ refs' = [refs EXCEPT ![e] = refs[e] - 1] /\ handle' = [handle EXCEPT ![t] = 0]
          /\ \/ step' = [step EXCEPT ![t] = "destruct"]
             \/ step' = step
          /\ \E d : doing' = [doing EXCEPT ![t] = d]
        BY <2>0, <1>9, ReleaseMoves
    <2>2. /\ step'[t] \in {"none", "destruct"} /\ handle'[t] = 0
          /\ \A u \in Threads \ {t} : handle'[u] = handle[u] /\ step'[u] = step[u] /\ doing'[u] = doing[u]
        BY <1>0, <2>1 DEF EntityTypeOK
    <2>3. Counted(e)' = Counted(e) \ {t} /\ t \in Counted(e)
        BY <1>0, <2>1, <2>2 DEF Counted
    <2>4. \A f \in Ids \ {e} : Counted(f)' = Counted(f)
        BY <1>0, <2>1, <2>2 DEF Counted
    <2>5. refs'[e] = refs[e] - 1 /\ \A f \in Ids \ {e} : refs'[f] = refs[f]
        BY <1>0, <2>1 DEF EntityTypeOK
    <2>6. Cardinality(Counted(e)') = Cardinality(Counted(e)) - 1
        BY <2>3, CountedFinite, FS_RemoveElement
    <2>7. refs[e] = Cardinality(Counted(e))
        BY <1>0, <2>1 DEF Counts
    <2>8. ASSUME NEW f \in Ids PROVE refs'[f] = Cardinality(Counted(f)')
      <3>1. CASE f = e
          BY <2>5, <2>6, <2>7, <3>1
      <3>2. CASE f # e
          BY <1>0, <2>4, <2>5, <3>2 DEF Counts
      <3> QED BY <3>1, <3>2
    <2> QED BY <2>8 DEF Counts
  <1> QED BY <1>1, <1>3, <1>4, <1>5, <1>6, <1>7, <1>8, <1>9 DEF Next, Entities, Manage, Direct, vars

LEMMA ConfigStays == [Next]_vars => UNCHANGED config
  <1>1. ASSUME NEW t \in Threads, Manage(t) \/ Direct(t) PROVE UNCHANGED config
      BY <1>1 DEF Manage, Direct
  <1>2. ASSUME NEW t \in Threads, AllocateEntity(t) \/ AllocateId(t) \/ AllocateRefused(t) \/ SetReference(t)
        PROVE  UNCHANGED config
      BY <1>2 DEF AllocateEntity, AllocateId, AllocateRefused, SetReference
  <1>3. ASSUME NEW t \in Threads, OnCreate(t) \/ Release(t) \/ Delete(t) \/ OnDestroy(t) \/ DeallocateId(t)
        PROVE  UNCHANGED config
      BY <1>3 DEF OnCreate, Release, Delete, OnDestroy, DeallocateId
  <1>4. ASSUME NEW t \in Threads, NEW u \in Threads, Copy(t, u) PROVE UNCHANGED config
      BY <1>4 DEF Copy
  <1>5. CASE UNCHANGED vars
      BY <1>5 DEF vars
  <1> QED BY <1>1, <1>2, <1>3, <1>4, <1>5 DEF Next, Entities

LEMMA KeptStep == EntitiesInv /\ [Next]_vars => Kept'
  <1> SUFFICES ASSUME EntitiesInv, [Next]_vars, user = "entities" PROVE Kept'
      BY ConfigStays DEF Kept, config
  <1> DEFINE Cares(t, e) == \/ handle[t] = e
                            \/ Working(t) /\ doing[t] = e
  <1>0. Owned /\ Places /\ EntityTypeOK /\ used \subseteq Ids /\ 0 \notin Ids
      BY EntityTyped, InUse DEF EntitiesInv, Typed
  <1>1. \A e \in used : \E t \in Threads : Cares(t, e)
      BY DEF EntitiesInv, Kept
  <1>2. SUFFICES ASSUME NEW e \in used' PROVE \E t \in Threads : Cares(t, e)'
      BY <1>2 DEF Kept
  <1>3. ASSUME NEW t \in Threads, e \in used, Cares(t, e) => Cares(t, e)',
               \A u \in Threads \ {t} : Cares(u, e) => Cares(u, e)'
        PROVE  \E u \in Threads : Cares(u, e)'
      BY <1>1, <1>3
  <1>4. ASSUME NEW t \in Threads, Manage(t) PROVE \E u \in Threads : Cares(u, e)'
      BY <1>1, <1>4, ManageMoves DEF Working, Alone, entityVars
  <1>5. ASSUME NEW t \in Threads, AllocateId(t) PROVE \E u \in Threads : Cares(u, e)'
    <2>1. \A u \in Threads \ {t} : Cares(u, e) => Cares(u, e)'
        BY <1>0, <1>5, AllocateMoves DEF Working, Alone, EntityTypeOK
    <2>2. step[t] = "allocate" /\ handle' = handle
        BY <1>5, AllocateMoves
    <2>3. CASE used' = used
        BY <1>3, <2>1, <2>2, <2>3 DEF Working
    <2>4. ASSUME NEW f \in Ids \ used, used' = used \cup {f}, doing' = [doing EXCEPT ![t] = f],
                 step' = [step EXCEPT ![t] = "count"]
          PROVE  \E u \in Threads : Cares(u, e)'
      <3>1. CASE e = f
        <4>1. Cares(t, e)'
            BY <1>0, <2>4, <3>1 DEF Working, EntityTypeOK
        <4> QED BY <4>1
      <3>2. CASE e # f
          BY <1>3, <2>1, <2>2, <2>4, <3>2 DEF Working
      <3> QED BY <3>1, <3>2
    <2> QED BY <1>5, <2>3, <2>4, AllocateMoves
  <1>6. ASSUME NEW t \in Threads, DeallocateId(t) PROVE \E u \in Threads : Cares(u, e)'
    <2>1. \A u \in Threads \ {t} : Cares(u, e) => Cares(u, e)'
        BY <1>0, <1>6, DeallocateMoves DEF Working, Alone, EntityTypeOK
    <2>2. step[t] = "deallocate" /\ handle' = handle /\ e \in used
        BY <1>6, DeallocateMoves
    <2>3. Cares(t, e) => Cares(t, e)'
        BY <1>0, <1>6, <2>2, DeallocateMoves DEF Working
    <2> QED BY <1>3, <2>1, <2>2, <2>3
  <1>7. ASSUME NEW t \in Threads, AllocateEntity(t) \/ AllocateRefused(t) PROVE \E u \in Threads : Cares(u, e)'
    <2>1. /\ used' = used /\ handle' = handle /\ pc' = pc /\ doing' = doing /\ ~ Working(t)
          /\ \A u \in Threads \ {t} : step'[u] = step[u]
        BY <1>0, <1>7 DEF AllocateEntity, AllocateRefused, At, Proceed, poolVars, EntityTypeOK, Working
    <2>2. \A u \in Threads : Cares(u, e) => Cares(u, e)'
        BY <2>1 DEF Working
    <2> QED BY <1>1, <2>1, <2>2
  <1>8. ASSUME NEW t \in Threads, SetReference(t) \/ Delete(t) \/ OnDestroy(t)
        PROVE  \E u \in Threads : Cares(u, e)'
    <2>1. /\ used' = used /\ handle' = handle /\ pc' = pc /\ doing' = doing /\ pc[t] = "idle"
          /\ \A u \in Threads \ {t} : step'[u] = step[u]
          /\ step'[t] \in {"create", "destroy", "deallocate"}
        BY <1>0, <1>8 DEF SetReference, Delete, OnDestroy, At, Places, Proceed, poolVars, EntityTypeOK
    <2>2. \A u \in Threads : Cares(u, e) => Cares(u, e)'
        BY <2>1 DEF Working
    <2> QED BY <1>1, <2>1, <2>2
  <1>9. ASSUME NEW t \in Threads, OnCreate(t) PROVE \E u \in Threads : Cares(u, e)'
    <2>1. /\ used' = used /\ pc' = pc /\ handle[t] = 0 /\ handle'[t] = doing[t]
          /\ \A u \in Threads \ {t} : step'[u] = step[u] /\ handle'[u] = handle[u] /\ doing'[u] = doing[u]
        BY <1>0, <1>9 DEF OnCreate, At, Places, Proceed, poolVars, EntityTypeOK
    <2>2. \A u \in Threads \ {t} : Cares(u, e) => Cares(u, e)'
        BY <2>1 DEF Working
    <2>3. Cares(t, e) => Cares(t, e)'
        BY <1>0, <2>1
    <2> QED BY <1>3, <2>1, <2>2, <2>3
  <1>10. ASSUME NEW t \in Threads, NEW u \in Threads, Copy(t, u) PROVE \E v \in Threads : Cares(v, e)'
    <2>1. /\ used' = used /\ pc' = pc /\ step' = step /\ doing' = doing /\ handle[u] = 0
          /\ \A v \in Threads \ {u} : handle'[v] = handle[v]
        BY <1>0, <1>10 DEF Copy, poolVars, EntityTypeOK
    <2>2. \A v \in Threads : Cares(v, e) => Cares(v, e)'
        BY <1>0, <2>1 DEF Working
    <2> QED BY <1>1, <2>1, <2>2
  <1>11. ASSUME NEW t \in Threads, Release(t) PROVE \E u \in Threads : Cares(u, e)'
    <2>1. /\ used' = used /\ pc' = pc /\ pc[t] = "idle" /\ step[t] = "none"
          /\ handle' = [handle EXCEPT ![t] = 0] /\ \E l : step' = [step EXCEPT ![t] = l]
          /\ \E d : doing' = [doing EXCEPT ![t] = d]
        BY <1>11, ReleaseMoves DEF poolVars, Release, Proceed
    <2>2. \A u \in Threads \ {t} : handle'[u] = handle[u] /\ step'[u] = step[u] /\ doing'[u] = doing[u]
        BY <1>0, <2>1 DEF EntityTypeOK
    <2>3. \A u \in Threads \ {t} : Cares(u, e) => Cares(u, e)'
        BY <2>1, <2>2 DEF Working
    <2>4. CASE handle[t] # e
        BY <1>3, <2>1, <2>3, <2>4 DEF Working
    <2>5. CASE handle[t] = e /\ doing' = [doing EXCEPT ![t] = e] /\ step' = [step EXCEPT ![t] = "destruct"]
      <3>1. Cares(t, e)'
          BY <1>0, <2>5 DEF Working, EntityTypeOK
      <3> QED BY <3>1
    <2>6. CASE handle[t] = e /\ \E u \in Threads \ {t} : u \in Counted(e)
        BY <2>3, <2>6 DEF Counted, Working
    <2> QED BY <1>11, <2>4, <2>5, <2>6, ReleaseMoves
  <1>12. ASSUME NEW t \in Threads, Direct(t) PROVE FALSE
      BY <1>12 DEF Direct
  <1>13. CASE UNCHANGED vars
    <2>1. \A u \in Threads : Cares(u, e) => Cares(u, e)'
        BY <1>13 DEF vars, poolVars, entityVars, Working
    <2> QED BY <1>1, <1>13, <2>1 DEF vars, poolVars
  <1> QED BY <1>4, <1>5, <1>6, <1>7, <1>8, <1>9, <1>10, <1>11, <1>12, <1>13 DEF Next, Entities

LEMMA EntitiesStep == EntitiesInv /\ [Next]_vars => EntitiesInv'
  <1> QED BY TypedStep, PlacesStep, OwnedStep, LivesStep, CountsStep, KeptStep DEF EntitiesInv

LEMMA InPhases ==
    ASSUME EntitiesInv, user = "entities", NEW e \in Ids
    PROVE  OnePhase(e)
  <1>0. Owned /\ 0 \notin Ids /\ Counts /\ Kept
      BY InUse DEF EntitiesInv, Typed
  <1>1. /\ \A t \in Creators(e) \cup Destroyers(e) : t \in Threads /\ Working(t) /\ doing[t] = e
        /\ \A t \in Threads : Working(t) /\ doing[t] = e => t \in Creators(e) \cup Destroyers(e)
        /\ Creators(e) \cap Destroyers(e) = {}
      BY DEF Creators, Destroyers, Working
  <1>2. CASE \E t \in Threads : Working(t) /\ doing[t] = e
    <2>1. PICK t \in Threads : Working(t) /\ doing[t] = e
        BY <1>2
    <2>2. Creators(e) \cup Destroyers(e) = {t} /\ Holders(e) = {}
        BY <1>0, <1>1, <2>1 DEF Owned, Holders
    <2>3. {Creators(e), Destroyers(e), Holders(e)} \ {{}} = {{t}}
        BY <1>1, <2>2
    <2>4. Cardinality({{t}}) = 1 /\ Cardinality({t}) = 1
        BY FS_Singleton
    <2>5. Counted(e) = {u \in Creators(e) : step[u] = "create"}
        BY <1>1, <2>2 DEF Counted, Holders, Creators
    <2>6. Cardinality(Holders(e)) = 0
        BY <2>2, FS_EmptySet
    <2>7. refs[e] = Cardinality(Holders(e)) + Cardinality({u \in Creators(e) : step[u] = "create"})
        BY <1>0, <2>5, <2>6, CountedFinite DEF Counts
    <2>8. Cardinality(Creators(e) \cup Destroyers(e)) <= 1
        BY <2>2, <2>4
    <2> QED BY <2>3, <2>4, <2>7, <2>8 DEF OnePhase
  <1>3. CASE ~ \E t \in Threads : Working(t) /\ doing[t] = e
    <2>1. Creators(e) = {} /\ Destroyers(e) = {}
        BY <1>1, <1>3
    <2>2. Counted(e) = Holders(e) /\ {u \in Creators(e) : step[u] = "create"} = {}
        BY <2>1 DEF Counted, Holders, Creators
    <2>3. refs[e] = Cardinality(Holders(e)) + Cardinality({u \in Creators(e) : step[u] = "create"})
      <3>1. refs[e] = Cardinality(Holders(e)) /\ Cardinality(Holders(e)) \in Nat
          BY <1>0, <2>2, CountedFinite DEF Counts
      <3>2. Cardinality({u \in Creators(e) : step[u] = "create"}) = 0
          BY <2>2, FS_EmptySet
      <3> QED BY <3>1, <3>2
    <2>4. Cardinality(Creators(e) \cup Destroyers(e)) <= 1
      <3>1. Creators(e) \cup Destroyers(e) = {}
          BY <2>1
      <3> QED BY <3>1, FS_EmptySet
    <2>5. e \in used => Holders(e) # {}
        BY <1>0, <1>3 DEF Kept, Holders
    <2>6. Holders(e) # {} => {Creators(e), Destroyers(e), Holders(e)} \ {{}} = {Holders(e)}
        BY <2>1
    <2>7. Cardinality({Holders(e)}) = 1
        BY FS_Singleton
    <2>8. e \in used => Cardinality({Creators(e), Destroyers(e), Holders(e)} \ {{}}) = 1
        BY <2>5, <2>6, <2>7
    <2> QED BY <2>3, <2>4, <2>8 DEF OnePhase
  <1> QED BY <1>2, <1>3

LEMMA EntitiesAlways == Spec => []EntitiesInv
  <1> QED BY InitEntities, EntitiesStep, PTL DEF Spec

(* The lives of a slot do not overlap, for any number of threads and       *)
(* entities, whichever pool gives the ids: a pointer's entity is created   *)
(* and not destroyed, and the reference count is 0 where AllocateEntity    *)
(* and DeallocateEntity assert it.                                         *)
THEOREM LivesDoNotOverlap == Spec => []LivesApart
  <1> QED BY EntitiesAlways, EntitiesApart, PTL

(* The reference count of a slot is the number of its pointers, and its id *)
(* is in use exactly as long as the entity is made, held or unmade, each   *)
(* by one thread but for the holders.                                      *)
THEOREM EveryEntityInOnePhase == Spec => []EntityInv
  <1>1. EntitiesInv => EntityInv
      BY InPhases DEF EntityInv, EntitiesInv, Typed
  <1> QED BY <1>1, EntitiesAlways, PTL

-----------------------------------------------------------------------------
(***************************************************************************)
(* Sets of threads by their next step.                                     *)
(***************************************************************************)
In(L) == {t \in Threads : pc[t] \in L}

(* How many threads are at one of the steps L changes with the one thread  *)
(* that moves.                                                             *)
LEMMA InMoves ==
    ASSUME NEW L, NEW t \in Threads, Alone(t)
    PROVE  /\ Cardinality(In(L)) \in Nat
           /\ (pc[t] \in L <=> pc'[t] \in L) => Cardinality(In(L)') = Cardinality(In(L))
           /\ pc[t] \in L /\ pc'[t] \notin L => Cardinality(In(L)') = Cardinality(In(L)) - 1
           /\ pc[t] \notin L /\ pc'[t] \in L => Cardinality(In(L)') = Cardinality(In(L)) + 1
  <1>1. IsFiniteSet(In(L)) /\ Cardinality(In(L)) \in Nat
    <2>1. In(L) \subseteq Threads
        BY DEF In
    <2> QED BY <2>1, PoolAssumption, FS_Subset, FS_CardinalityType
  <1>2. CASE pc[t] \in L <=> pc'[t] \in L
    <2>1. In(L)' = In(L)
        BY <1>2 DEF In, Alone
    <2> QED BY <1>1, <1>2, <2>1
  <1>3. CASE pc[t] \in L /\ pc'[t] \notin L
    <2>1. In(L)' = In(L) \ {t} /\ t \in In(L)
        BY <1>3 DEF In, Alone
    <2> QED BY <1>1, <1>3, <2>1, FS_RemoveElement
  <1>4. CASE pc[t] \notin L /\ pc'[t] \in L
    <2>1. In(L)' = In(L) \cup {t} /\ t \notin In(L)
        BY <1>4 DEF In, Alone
    <2> QED BY <1>1, <1>4, <2>1, FS_AddElement
  <1> QED BY <1>1, <1>2, <1>3, <1>4

LEMMA InNone ==
    ASSUME NEW L, \A t \in Threads : pc[t] \notin L
    PROVE  Cardinality(In(L)) = 0
  <1>1. In(L) = {}
      BY DEF In
  <1> QED BY <1>1, FS_EmptySet

LEMMA IdsFinite == IsFiniteSet(Ids) /\ Cardinality(Ids) = MaxUID
  <1> QED BY PoolAssumption, FS_Interval DEF Ids

LEMMA UsedCounts ==
    ASSUME PoolTypeOK, NEW i \in Ids
    PROVE  /\ Cardinality(used) \in Nat
           /\ i \notin used => Cardinality(used \cup {i}) = Cardinality(used) + 1
           /\ i \in used => Cardinality(used \ {i}) = Cardinality(used) - 1 /\ Cardinality(used) > 0
  <1>1. IsFiniteSet(used)
      BY IdsFinite, FS_Subset DEF PoolTypeOK
  <1>2. Cardinality(used) \in Nat
      BY <1>1, FS_CardinalityType
  <1>3. i \in used => Cardinality(used) # 0
      BY <1>1, FS_EmptySet
  <1>4. i \notin used => Cardinality(used \cup {i}) = Cardinality(used) + 1
      BY <1>1, FS_AddElement
  <1>5. i \in used => Cardinality(used \ {i}) = Cardinality(used) - 1
      BY <1>1, FS_RemoveElement
  <1> QED BY <1>2, <1>3, <1>4, <1>5

(***************************************************************************)
(* The flags.                                                              *)
(***************************************************************************)
(* A thread in Activate is alone, in a pool without ids in use.            *)
Quiet ==
    \A t \in Threads : pc[t] \in Activating =>
        /\ used = {} /\ activations > 0 /\ (pc[t] # "activate" => active)
        /\ \A u \in Threads \ {t} : pc[u] = "idle"

Dispatched == dispatches = IF called THEN 1 ELSE 0

(* What a step of either pool does to the flags: one of the actions that   *)
(* set them, or nothing.                                                   *)
FlagMove(t) ==
    \/ ActivatePool(t) \/ ActivateFlag(t) \/ ActivateClear(t) \/ ActivateZero(t)
    \/ Deactivate(t) \/ Announce(t)
    \/ /\ UNCHANGED <<active, called, dispatches, activations>>
       /\ pc[t] \notin Activating /\ pc'[t] \notin Activating
       /\ pc[t] = "idle" => Usable

LEMMA StoreFlags ==
    ASSUME Store!TypeOK, PoolTypeOK, NEW t \in Threads, Store!Step(t)
    PROVE  FlagMove(t)
  <1>0. pc \in [Threads -> {"idle", "look", "announce", "count", "take", "undo", "check",
                            "uncount", "recount", "free"} \cup Activating]
      BY DEF PoolTypeOK
  <1>1. CASE Store!Activate(t)
      BY <1>1 DEF Store!Activate, Store!ActivatePool, Store!Goto, ActivatePool, Goto, Unused, Store!Unused, FlagMove
  <1>2. CASE Store!DeactivateStore(t)
      BY <1>0, <1>2 DEF Store!DeactivateStore, Store!DeactivateLook, Store!Goto, FlagMove, Activating
  <1>3. CASE Store!Pooled(t)
    <2>1. CASE Store!ActivateFlag(t) \/ Store!ActivateClear(t) \/ Store!ActivateZero(t)
               \/ Store!Deactivate(t) \/ Store!Announce(t)
        BY <2>1 DEF Store!ActivateFlag, Store!ActivateClear, Store!ActivateZero, Store!Deactivate, Store!Announce,
             Store!Goto, Store!Usable, Store!Activating, ActivateFlag, ActivateClear, ActivateZero, Deactivate,
             Announce, Goto, Usable, Activating, FlagMove
    <2>2. CASE Store!AllocateCheck(t) \/ Store!AllocateCount(t) \/ Store!AllocateUndo(t)
        BY <1>0, <2>2 DEF Store!AllocateCheck, Store!AllocateCount, Store!AllocateUndo, Store!Goto, Store!Usable,
             Store!Activating, Usable, Activating, FlagMove
    <2> QED BY <1>3, <2>1, <2>2 DEF Store!Pooled
  <1>4. CASE Store!AllocatePop(t)
      BY <1>0, <1>4 DEF Store!AllocatePop, Store!Goto, FlagMove, Activating
  <1>5. CASE Store!DeallocatePush(t) \/ Store!DeallocateUncount(t) \/ Store!DeallocateCheck(t)
      BY <1>0, <1>5 DEF Store!DeallocatePush, Store!DeallocateUncount, Store!DeallocateCheck, Store!Goto,
             Store!Usable, Store!Activating, Usable, FlagMove, Activating
  <1> QED BY <1>1, <1>2, <1>3, <1>4, <1>5 DEF Store!Step

LEMMA CacheFlags ==
    ASSUME Cache!TypeOK, PoolTypeOK, NEW t \in Threads, Cache!Step(t)
    PROVE  FlagMove(t)
  <1>0. pc \in [Threads -> {"idle", "look", "announce", "count", "take", "undo", "check",
                            "uncount", "recount", "free"} \cup Activating]
      BY DEF PoolTypeOK
  <1>1. CASE Cache!Activate(t)
      BY <1>1 DEF Cache!Activate, Cache!ActivatePool, Cache!Goto, ActivatePool, Goto, Unused, Cache!Unused, FlagMove
  <1>2. CASE Cache!DeactivateCache(t)
      BY <1>0, <1>2 DEF Cache!DeactivateCache, Cache!DeactivateLook, Cache!Goto, FlagMove, Activating
  <1>3. CASE Cache!Pooled(t)
    <2>1. CASE Cache!ActivateFlag(t) \/ Cache!ActivateClear(t) \/ Cache!ActivateZero(t)
               \/ Cache!Deactivate(t) \/ Cache!Announce(t)
        BY <2>1 DEF Cache!ActivateFlag, Cache!ActivateClear, Cache!ActivateZero, Cache!Deactivate, Cache!Announce,
             Cache!Goto, Cache!Usable, Cache!Activating, ActivateFlag, ActivateClear, ActivateZero, Deactivate,
             Announce, Goto, Usable, Activating, FlagMove
    <2>2. CASE Cache!AllocateCount(t)
        BY <1>0, <2>2 DEF Cache!AllocateCount, Cache!Goto, Activating, FlagMove
    <2> QED BY <1>3, <2>1, <2>2 DEF Cache!Pooled
  <1>4. CASE Cache!Allocate(t) \/ Cache!AllocateGiveUp(t)
      BY <1>0, <1>4 DEF Cache!Allocate, Cache!AllocateCheck, Cache!AllocateGiveUp, Cache!AllocateUndo, Cache!Goto,
             Cache!Usable, Cache!Activating, Usable, FlagMove, Activating
  <1>5. CASE Cache!AllocateTake(t)
      BY <1>0, <1>5 DEF Cache!AllocateTake, Cache!Goto, FlagMove, Activating
  <1>6. CASE Cache!DeallocateUncount(t) \/ Cache!DeallocateRecount(t)
      BY <1>0, <1>6 DEF Cache!DeallocateUncount, Cache!DeallocateRecount, Cache!Goto,
             Cache!Usable, Cache!Activating, Usable, FlagMove, Activating
  <1>7. CASE Cache!DeallocateFree(t) \/ Cache!DeallocateCheck(t)
      BY <1>0, <1>7 DEF Cache!DeallocateFree, Cache!DeallocateCheck, Cache!Goto, FlagMove, Activating
  <1> QED BY <1>1, <1>2, <1>3, <1>4, <1>5, <1>6, <1>7 DEF Cache!Step

LEMMA FlagsStep ==
    ASSUME PoolTypeOK, Quiet, Dispatched, NEW t \in Threads, FlagMove(t), Alone(t)
    PROVE  Quiet' /\ Dispatched'
  <1>1. CASE ActivatePool(t)
    <2>1. Quiet'
        BY <1>1 DEF ActivatePool, Unused, Goto, PoolTypeOK, Quiet, Activating
    <2> QED BY <1>1, <2>1 DEF ActivatePool, Dispatched
  <1>2. CASE ActivateFlag(t)
      BY <1>2 DEF ActivateFlag, Goto, PoolTypeOK, Quiet, Activating, Dispatched
  <1>3. CASE ActivateClear(t)
      BY <1>3 DEF ActivateClear, Goto, PoolTypeOK, Quiet, Activating, Dispatched
  <1>4. CASE ActivateZero(t)
      BY <1>4 DEF ActivateZero, Goto, PoolTypeOK, Quiet, Activating, Dispatched
  <1>5. CASE Deactivate(t)
      BY <1>5 DEF Deactivate, Usable, Goto, PoolTypeOK, Quiet, Activating, Dispatched
  <1>6. CASE Announce(t)
    <2>1. Quiet'
        BY <1>6 DEF Announce, Goto, PoolTypeOK, Quiet, Activating
    <2> QED BY <1>6, <2>1 DEF Announce, Dispatched
  <1>7. CASE /\ UNCHANGED <<active, called, dispatches, activations>>
             /\ pc[t] \notin Activating /\ pc'[t] \notin Activating
             /\ pc[t] = "idle" => Usable
    <2>1. \A u \in Threads : pc[u] \notin Activating
        BY <1>7 DEF Quiet, Usable
    <2>2. \A u \in Threads : pc'[u] \notin Activating
        BY <1>7, <2>1 DEF Alone
    <2> QED BY <1>7, <2>2 DEF Quiet, Dispatched
  <1> QED BY <1>1, <1>2, <1>3, <1>4, <1>5, <1>6, <1>7 DEF FlagMove

(***************************************************************************)
(* The store: a stack of free ids.                                         *)
(***************************************************************************)
Stack ==
    /\ \A i, j \in 1 .. Len(FreeIds) : FreeIds[i] = FreeIds[j] => i = j
    /\ \A i \in 1 .. Len(FreeIds) : FreeIds[i] \notin used
    /\ activations > 0 => \A e \in Ids \ used : \E i \in 1 .. Len(FreeIds) : FreeIds[i] = e

Pending == {"take", "undo", "uncount"}

Exact == count = Cardinality(used) + Cardinality(In(Pending))

(* If the pool is deactivated and has all its ids, somebody has said so or *)
(* is about to find it out.                                                *)
Announced ==
    (\A t \in Threads : pc[t] \notin Activating) /\ activations > 0 /\ ~active /\ used = {} =>
        \/ called
        \/ \E t \in Threads : pc[t] \in {"look", "announce"}
        \/ \E t \in Threads : pc[t] \in {"uncount", "check"} /\ all[t]

StoreInv == Stack /\ Exact /\ Announced

LEMMA StackFull ==
    ASSUME NEW stack \in Seq(Ids),
           \A i, j \in 1 .. Len(stack) : stack[i] = stack[j] => i = j,
           \A e \in Ids : \E i \in 1 .. Len(stack) : stack[i] = e
    PROVE  Len(stack) = MaxUID
  <1>1. Len(stack) \in Nat /\ stack \in [1 .. Len(stack) -> Ids]
      BY LenProperties
  <1>2. stack \in Bijection(1 .. Len(stack), Ids)
      BY <1>1 DEF Bijection, Injection, Surjection, IsInjective
  <1>3. IsFiniteSet(1 .. Len(stack)) /\ Cardinality(1 .. Len(stack)) = Len(stack)
      BY <1>1, FS_Interval
  <1>4. Cardinality(Ids) = Cardinality(1 .. Len(stack))
      BY <1>2, <1>3, FS_Bijection DEF ExistsBijection
  <1> QED BY <1>3, <1>4, IdsFinite

LEMMA StoreStep ==
    ASSUME Store!TypeOK, PoolTypeOK, Quiet, StoreInv, NEW t \in Threads, Store!Step(t), Alone(t)
    PROVE  StoreInv'
  <1>0. /\ FreeIds \in Seq(Ids) /\ all \in [Threads -> BOOLEAN]
        /\ pc \in [Threads -> {"idle", "look", "announce", "count", "take", "undo", "check",
                               "uncount", "recount", "free"} \cup Activating]
        /\ Len(FreeIds) \in Nat /\ used \subseteq Ids /\ count \in Int /\ Cardinality(used) \in Nat
        /\ activations \in Nat
    <2>1. FreeIds \in Seq(Ids) /\ all \in [Threads -> BOOLEAN]
        BY DEF Store!TypeOK, Ids, Store!Ids
    <2>2. 1 \in Ids
        BY PoolAssumption DEF Ids
    <2>3. Cardinality(used) \in Nat
        BY <2>2, UsedCounts
    <2>4. activations \in Nat
        BY PoolAssumption DEF PoolTypeOK
    <2> QED BY <2>1, <2>3, <2>4, LenProperties DEF PoolTypeOK
  <1>1. Stack /\ Exact /\ Announced
      BY DEF StoreInv
  <1>2. ASSUME UNCHANGED <<FreeIds, used, activations>> PROVE Stack'
      BY <1>1, <1>2 DEF Stack
  <1>3. ASSUME used' = used, count' = count, pc[t] \in Pending <=> pc'[t] \in Pending PROVE Exact'
    <2>1. Cardinality(In(Pending)') = Cardinality(In(Pending))
        BY <1>3, InMoves
    <2> QED BY <1>1, <1>3, <2>1 DEF Exact
  <1>4. CASE Store!Activate(t)
    <2>1. /\ used = {} /\ used' = {} /\ count' = count
          /\ pc[t] = "idle" /\ pc'[t] = "activate"
          /\ FreeIds' = [i \in 1 .. MaxUID |-> MaxUID + 1 - i]
        BY <1>0, <1>4 DEF Store!Activate, Store!ActivatePool, Store!Unused, Store!Goto, Store!Ids
    <2>2. Stack'
      <3>1. \A i \in 1 .. MaxUID : FreeIds'[i] = MaxUID + 1 - i
          BY <2>1
      <3>2. Len(FreeIds') = MaxUID
          BY <2>1, PoolAssumption
      <3>3. \A e \in Ids : MaxUID + 1 - e \in 1 .. MaxUID /\ FreeIds'[MaxUID + 1 - e] = e
          BY <2>1, PoolAssumption DEF Ids
      <3>4. \A i, j \in 1 .. MaxUID : FreeIds'[i] = FreeIds'[j] => i = j
          BY <3>1, PoolAssumption
      <3> QED BY ZenonT(40), <2>1, <3>2, <3>3, <3>4 DEF Stack
    <2>3. Exact'
        BY <1>3, <2>1 DEF Pending
    <2>4. Announced'
        BY <2>1 DEF Announced, Activating
    <2> QED BY <2>2, <2>3, <2>4 DEF StoreInv
  <1>5. CASE Store!DeactivateStore(t)
    <2>1. /\ UNCHANGED <<active, called, count, used, activations, FreeIds, all>>
          /\ pc[t] = "look" /\ pc'[t] = IF Store!HasAll(FreeIds) THEN "announce" ELSE "idle"
        BY <1>0, <1>5 DEF Store!DeactivateStore, Store!DeactivateLook, Store!Goto
    <2>2. Announced'
      <3>1. CASE Store!HasAll(FreeIds)
          BY <2>1, <3>1 DEF Announced
      <3>2. CASE ~ Store!HasAll(FreeIds)
          BY <1>0, <1>1, <2>1, <3>2, StackFull DEF Announced, Stack, Store!HasAll
      <3> QED BY <3>1, <3>2
    <2>3. Exact'
        BY <1>3, <2>1 DEF Pending
    <2> QED BY <1>2, <2>1, <2>2, <2>3 DEF StoreInv
  <1>6. CASE Store!AllocatePop(t)
    <2>1. CASE FreeIds = << >>
      <3>1. /\ UNCHANGED <<active, called, count, used, activations, FreeIds, all>>
            /\ pc[t] = "take" /\ pc'[t] = "undo"
          BY <1>0, <1>6, <2>1 DEF Store!AllocatePop, Store!Goto
      <3>2. Announced'
          BY <1>1, <3>1 DEF Announced, Alone, Activating
      <3> QED BY <1>2, <1>3, <3>1, <3>2 DEF StoreInv, Pending
    <2>2. CASE FreeIds # << >>
      <3>1. /\ FreeIds' = SubSeq(FreeIds, 1, Len(FreeIds) - 1) /\ used' = used \cup {FreeIds[Len(FreeIds)]}
            /\ UNCHANGED <<active, called, count, activations, all>>
            /\ pc[t] = "take" /\ pc'[t] = "idle"
          BY <1>0, <1>6, <2>2 DEF Store!AllocatePop, Store!Front, Store!Last, Store!Goto
      <3>2. Len(FreeIds) \in Nat \ {0} /\ FreeIds[Len(FreeIds)] \in Ids
          BY <1>0, <2>2
      <3>3. Len(FreeIds') = Len(FreeIds) - 1 /\ \A i \in 1 .. Len(FreeIds) - 1 : FreeIds'[i] = FreeIds[i]
        <4>1. PICK n \in Nat : n = Len(FreeIds) - 1
            BY <3>2
        <4>2. \A i \in 1 .. n : FreeIds[i] \in Ids
            BY <1>0, <3>2, <4>1
        <4>3. /\ Len(SubSeq(FreeIds, 1, n)) = IF 1 <= n THEN n - 1 + 1 ELSE 0
              /\ \A i \in 1 .. n - 1 + 1 : SubSeq(FreeIds, 1, n)[i] = FreeIds[1 + i - 1]
            BY <4>2, SubSeqProperties
        <4>4. Len(SubSeq(FreeIds, 1, n)) = n
            BY <4>3
        <4>5. \A i \in 1 .. n : SubSeq(FreeIds, 1, n)[i] = FreeIds[i]
            BY <4>3
        <4> QED BY <3>1, <4>1, <4>4, <4>5
      <3>4. Stack'
          BY SMTT(30), <1>0, <1>1, <3>1, <3>2, <3>3 DEF Stack
      <3>5. Exact'
        <4>1. FreeIds[Len(FreeIds)] \notin used
            BY <1>0, <1>1, <3>2 DEF Stack
        <4>2. Cardinality(used') = Cardinality(used) + 1
            BY <3>1, <3>2, <4>1, UsedCounts
        <4>3. /\ Cardinality(In(Pending)') = Cardinality(In(Pending)) - 1
              /\ Cardinality(In(Pending)) \in Nat
            BY <3>1, InMoves DEF Pending
        <4> QED BY <1>0, <1>1, <3>1, <4>2, <4>3 DEF Exact
      <3>6. Announced'
          BY <3>1 DEF Announced
      <3> QED BY <3>4, <3>5, <3>6 DEF StoreInv
    <2> QED BY <2>1, <2>2
  <1>7. CASE Store!DeallocatePush(t)
    <2>1. PICK e \in used : used' = used \ {e} /\ FreeIds' = Append(FreeIds, e)
                           /\ all' = [all EXCEPT ![t] = Store!HasAll(FreeIds')]
        BY <1>7 DEF Store!DeallocatePush
    <2>2. UNCHANGED <<active, called, count, activations>> /\ pc[t] = "idle" /\ pc'[t] = "uncount"
        BY <1>0, <1>7 DEF Store!DeallocatePush, Store!Goto
    <2>3. /\ FreeIds' \in Seq(Ids) /\ Len(FreeIds') = Len(FreeIds) + 1
          /\ FreeIds'[Len(FreeIds) + 1] = e /\ \A i \in 1 .. Len(FreeIds) : FreeIds'[i] = FreeIds[i]
        BY <1>0, <2>1, AppendProperties
    <2>4. Stack'
      <3>1. \A i, j \in 1 .. Len(FreeIds') : FreeIds'[i] = FreeIds'[j] => i = j
          BY <1>0, <1>1, <2>1, <2>3 DEF Stack
      <3>2. \A i \in 1 .. Len(FreeIds') : FreeIds'[i] \notin used'
          BY <1>0, <1>1, <2>1, <2>3 DEF Stack
      <3>3. activations' > 0 => \A f \in Ids \ used' : \E i \in 1 .. Len(FreeIds') : FreeIds'[i] = f
          BY <1>0, <1>1, <2>1, <2>2, <2>3 DEF Stack
      <3> QED BY <3>1, <3>2, <3>3 DEF Stack
    <2>5. Exact'
      <3>1. Cardinality(used') = Cardinality(used) - 1
          BY <1>0, <2>1, UsedCounts
      <3>2. /\ Cardinality(In(Pending)') = Cardinality(In(Pending)) + 1
            /\ Cardinality(In(Pending)) \in Nat
          BY <2>2, InMoves DEF Pending
      <3> QED BY <1>0, <1>1, <2>2, <3>1, <3>2 DEF Exact
    <2>6. Announced'
      <3> SUFFICES ASSUME activations' > 0, used' = {} PROVE Announced'
          BY DEF Announced
      <3>1. Store!HasAll(FreeIds')
          BY <2>3, <2>4, StackFull DEF Stack, Store!HasAll
      <3> QED BY <1>0, <2>1, <2>2, <3>1 DEF Announced
    <2> QED BY <2>4, <2>5, <2>6 DEF StoreInv
  <1>8. CASE Store!DeallocateUncount(t)
    <2>1. /\ UNCHANGED <<active, called, used, activations, FreeIds, all>> /\ count' = count - 1
          /\ pc[t] = "uncount" /\ pc'[t] = "check"
        BY <1>0, <1>8 DEF Store!DeallocateUncount, Store!Goto
    <2>2. Exact'
      <3>1. /\ Cardinality(In(Pending)') = Cardinality(In(Pending)) - 1
            /\ Cardinality(In(Pending)) \in Nat
          BY <2>1, InMoves DEF Pending
      <3> QED BY <1>0, <1>1, <2>1, <3>1 DEF Exact
    <2>3. Announced'
        BY <1>1, <2>1 DEF Announced, Alone, Activating
    <2> QED BY <1>2, <2>1, <2>2, <2>3 DEF StoreInv
  <1>9. CASE Store!DeallocateCheck(t)
    <2>1. /\ UNCHANGED <<active, called, count, used, activations, FreeIds>>
          /\ all' = [all EXCEPT ![t] = FALSE]
          /\ pc[t] = "check" /\ pc'[t] = IF ~ active /\ all[t] THEN "announce" ELSE "idle"
        BY <1>0, <1>9 DEF Store!DeallocateCheck, Store!Goto
    <2>2. Announced'
      <3>1. CASE ~ active /\ all[t]
          BY <2>1, <3>1 DEF Announced
      <3>2. CASE ~ (~ active /\ all[t])
        <4>1. \A u \in Threads \ {t} : all'[u] = all[u]
            BY <1>0, <2>1
        <4> QED BY <1>1, <2>1, <3>2, <4>1 DEF Announced, Alone, Activating
      <3> QED BY <3>1, <3>2
    <2>3. Exact'
        BY <1>3, <2>1 DEF Pending
    <2> QED BY <1>2, <2>1, <2>2, <2>3 DEF StoreInv
  <1>10. CASE Store!Pooled(t)
    <2>1. UNCHANGED <<FreeIds, all, used, activations>>
        BY <1>10 DEF Store!Pooled, Store!ActivateFlag, Store!ActivateClear, Store!ActivateZero, Store!Deactivate,
             Store!Announce, Store!AllocateCheck, Store!AllocateCount, Store!AllocateUndo
    <2>2. ASSUME Exact', Announced' PROVE StoreInv'
        BY <1>2, <2>1, <2>2 DEF StoreInv
    <2>3. CASE Store!ActivateFlag(t) \/ Store!ActivateClear(t)
      <3>1. count' = count /\ pc[t] \in Activating /\ pc'[t] \in Activating
          BY <1>0, <2>3 DEF Store!ActivateFlag, Store!ActivateClear, Store!Goto, Activating
      <3>2. Exact'
          BY <1>3, <2>1, <3>1 DEF Pending, Activating
      <3> QED BY <2>2, <3>1, <3>2 DEF Announced
    <2>4. CASE Store!ActivateZero(t)
      <3>1. count' = 0 /\ active' = active /\ pc[t] = "zero" /\ pc'[t] = "idle"
          BY <1>0, <2>4 DEF Store!ActivateZero, Store!Goto
      <3>2. used = {} /\ active /\ \A u \in Threads \ {t} : pc[u] = "idle"
          BY <3>1 DEF Quiet, Activating
      <3>3. Exact'
        <4>1. \A u \in Threads : pc'[u] \notin Pending
            BY <3>1, <3>2 DEF Alone, Pending
        <4>2. In(Pending)' = {}
            BY <4>1 DEF In
        <4> QED BY <2>1, <3>1, <3>2, <4>2, FS_EmptySet DEF Exact
      <3> QED BY <2>2, <3>1, <3>2, <3>3 DEF Announced
    <2>5. CASE Store!Deactivate(t)
      <3>1. count' = count /\ pc[t] = "idle" /\ pc'[t] = "look"
          BY <1>0, <2>5 DEF Store!Deactivate, Store!Goto
      <3>2. Exact'
          BY <1>3, <2>1, <3>1 DEF Pending
      <3> QED BY <2>2, <3>1, <3>2 DEF Announced
    <2>6. CASE Store!Announce(t)
      <3>1. count' = count /\ called' = TRUE /\ pc[t] = "announce" /\ pc'[t] = "idle"
          BY <1>0, <2>6 DEF Store!Announce, Store!Goto
      <3>2. Exact'
          BY <1>3, <2>1, <3>1 DEF Pending
      <3> QED BY <2>2, <3>1, <3>2 DEF Announced
    <2>7. CASE Store!AllocateCheck(t) \/ Store!AllocateCount(t) \/ Store!AllocateUndo(t)
      <3>1. /\ active' = active /\ called' = called
            /\ \/ count' = count /\ pc[t] = "idle" /\ pc'[t] = "count"
               \/ count' = count + 1 /\ pc[t] = "count" /\ pc'[t] \in {"take", "undo"}
               \/ count' = count - 1 /\ pc[t] = "undo" /\ pc'[t] = "idle"
          BY <1>0, <2>7 DEF Store!AllocateCheck, Store!AllocateCount, Store!AllocateUndo, Store!Goto
      <3>2. Exact'
        <4>1. Cardinality(In(Pending)) \in Nat
            BY InMoves
        <4>2. CASE count' = count /\ pc[t] = "idle" /\ pc'[t] = "count"
            BY <1>3, <2>1, <4>2 DEF Pending
        <4>3. CASE count' = count + 1 /\ pc[t] = "count" /\ pc'[t] \in {"take", "undo"}
          <5>1. Cardinality(In(Pending)') = Cardinality(In(Pending)) + 1
              BY <4>3, InMoves DEF Pending
          <5> QED BY <1>0, <1>1, <2>1, <4>1, <4>3, <5>1 DEF Exact
        <4>4. CASE count' = count - 1 /\ pc[t] = "undo" /\ pc'[t] = "idle"
          <5>1. Cardinality(In(Pending)') = Cardinality(In(Pending)) - 1
              BY <4>4, InMoves DEF Pending
          <5> QED BY <1>0, <1>1, <2>1, <4>1, <4>4, <5>1 DEF Exact
        <4> QED BY <3>1, <4>2, <4>3, <4>4
      <3>3. Announced'
          BY <1>1, <2>1, <3>1 DEF Announced, Alone, Activating
      <3> QED BY <2>2, <3>2, <3>3
    <2> QED BY <1>10, <2>3, <2>4, <2>5, <2>6, <2>7 DEF Store!Pooled
  <1> QED BY <1>4, <1>5, <1>6, <1>7, <1>8, <1>9, <1>10 DEF Store!Step

(***************************************************************************)
(* The cache: a flag for each id.                                          *)
(***************************************************************************)
Idle == \A t \in Threads : pc[t] \notin Activating

Taken == {i \in Ids : slots[i]}

(* No call of Deallocate that is under way has made the count too large    *)
(* for the flags.                                                          *)
Fits ==
    Idle => count + Cardinality(In({"recount", "free"}))
              <= Cardinality(Taken) + Cardinality(In({"take"})) + Cardinality(In({"undo"}))

(* What entities do with the cache: they give back only what they took, so *)
(* that the count is right and a flag that is to be freed is set.          *)
Careful ==
    /\ count = Cardinality(used) + Cardinality(In({"take"})) + Cardinality(In({"undo"}))
    /\ \A i \in used : slots[i]
    /\ \A t \in Threads : pc[t] # "recount"
    /\ \A t \in Threads : pc[t] = "free" => slots[uid[t]] /\ uid[t] \notin used
    /\ \A t, u \in Threads : pc[t] = "free" /\ pc[u] = "free" /\ uid[t] = uid[u] => t = u

GivesBackOwn(t) ==
    pc[t] = "idle" /\ pc'[t] \in {"uncount", "recount", "free"} =>
        uid'[t] \in used /\ used' = used \ {uid'[t]}

(* The steps of the cache by what they do to the count, the flags and the  *)
(* ids.                                                                    *)
CacheDelta(t) ==
    LET busy == {"take", "undo", "recount", "free"}
    IN  \/ /\ pc[t] = "idle" /\ pc'[t] = "activate" /\ used = {} /\ \A u \in Threads : pc[u] = "idle"
           /\ slots' = [i \in Ids |-> FALSE] /\ UNCHANGED <<count, used, uid>>
        \/ /\ pc[t] \notin busy /\ pc'[t] \notin busy /\ (pc[t] \in Activating => pc'[t] \in Activating)
           /\ UNCHANGED <<count, used, slots>>
        \/ /\ pc[t] = "zero" /\ pc'[t] = "idle" /\ count' = 0 /\ UNCHANGED <<used, slots>>
        \/ /\ pc[t] = "count" /\ pc'[t] \in {"take", "undo"} /\ count' = count + 1 /\ UNCHANGED <<used, slots>>
        \/ /\ pc[t] = "take" /\ pc'[t] = "undo" /\ slots[uid[t]] /\ UNCHANGED <<count, used, slots>>
        \/ /\ pc[t] = "take" /\ pc'[t] = "idle" /\ ~ slots[uid[t]] /\ slots' = [slots EXCEPT ![uid[t]] = TRUE]
           /\ used' = used \cup {uid[t]} /\ UNCHANGED count
        \/ /\ pc[t] = "undo" /\ pc'[t] = "idle" /\ count' = count - 1 /\ UNCHANGED <<used, slots>>
        \/ /\ pc[t] = "idle" /\ pc'[t] = IF count <= 0 THEN "recount" ELSE "free"
           /\ Usable /\ count' = count - 1 /\ UNCHANGED slots
        \/ /\ pc[t] = "recount" /\ pc'[t] = "idle" /\ count' = count + 1 /\ UNCHANGED <<used, slots>>
        \/ /\ pc[t] = "free" /\ pc'[t] \in {"check", "idle"} /\ slots' = [slots EXCEPT ![uid[t]] = FALSE]
           /\ UNCHANGED <<count, used>>

LEMMA CacheDeltas ==
    ASSUME Cache!TypeOK, PoolTypeOK, NEW t \in Threads, Cache!Step(t)
    PROVE  CacheDelta(t) /\ \A u \in Threads \ {t} : uid'[u] = uid[u]
  <1>0. /\ uid \in [Threads -> 0 .. MaxUID]
        /\ pc \in [Threads -> {"idle", "look", "announce", "count", "take", "undo", "check",
                               "uncount", "recount", "free"} \cup Activating]
      BY DEF PoolTypeOK, Cache!TypeOK
  <1>1. CASE Cache!Activate(t)
      BY <1>0, <1>1 DEF Cache!Activate, Cache!ActivatePool, Cache!Unused, Cache!Goto, Ids, Cache!Ids, CacheDelta
  <1>2. CASE Cache!DeactivateCache(t)
      BY <1>0, <1>2 DEF Cache!DeactivateCache, Cache!DeactivateLook, Cache!Goto, CacheDelta, Activating
  <1>3. CASE Cache!Pooled(t)
    <2>1. CASE Cache!ActivateFlag(t) \/ Cache!ActivateClear(t) \/ Cache!ActivateZero(t)
        BY <1>0, <1>3, <2>1 DEF Cache!Pooled, Cache!ActivateFlag, Cache!ActivateClear, Cache!ActivateZero,
             Cache!Goto, CacheDelta, Activating
    <2>2. CASE Cache!Deactivate(t) \/ Cache!Announce(t)
        BY <1>0, <1>3, <2>2 DEF Cache!Pooled, Cache!Deactivate, Cache!Announce, Cache!Goto, CacheDelta, Activating
    <2>3. CASE Cache!AllocateCount(t)
        BY <1>0, <1>3, <2>3 DEF Cache!Pooled, Cache!AllocateCount, Cache!Goto, CacheDelta
    <2> QED BY <1>3, <2>1, <2>2, <2>3 DEF Cache!Pooled
  <1>4. CASE Cache!Allocate(t)
      BY <1>0, <1>4 DEF Cache!Allocate, Cache!AllocateCheck, Cache!Goto, CacheDelta, Activating
  <1>5. CASE Cache!AllocateTake(t)
    <2>1. CASE slots[uid[t]]
      <3>1. slots' = slots
          BY <1>5, <2>1 DEF Cache!AllocateTake, Cache!TypeOK
      <3> QED BY <1>0, <1>5, <2>1, <3>1 DEF Cache!AllocateTake, Cache!Goto, CacheDelta
    <2>2. CASE ~ slots[uid[t]]
        BY <1>0, <1>5, <2>2 DEF Cache!AllocateTake, Cache!Goto, CacheDelta
    <2> QED BY <2>1, <2>2
  <1>6. CASE Cache!AllocateGiveUp(t)
      BY <1>0, <1>6 DEF Cache!AllocateGiveUp, Cache!AllocateUndo, Cache!Goto, CacheDelta
  <1>7. CASE Cache!DeallocateUncount(t)
      BY <1>0, <1>7 DEF Cache!DeallocateUncount, Cache!Goto, Cache!Usable, Cache!Activating, Usable, Activating,
             CacheDelta
  <1>8. CASE Cache!DeallocateRecount(t)
      BY <1>0, <1>8 DEF Cache!DeallocateRecount, Cache!Goto, CacheDelta
  <1>9. CASE Cache!DeallocateFree(t)
      BY <1>0, <1>9 DEF Cache!DeallocateFree, Cache!Goto, CacheDelta
  <1>10. CASE Cache!DeallocateCheck(t)
      BY <1>0, <1>10 DEF Cache!DeallocateCheck, Cache!Goto, CacheDelta, Activating
  <1> QED BY <1>1, <1>2, <1>3, <1>4, <1>5, <1>6, <1>7, <1>8, <1>9, <1>10 DEF Cache!Step

LEMMA TakenMoves ==
    ASSUME slots \in [Ids -> BOOLEAN], NEW i \in Ids
    PROVE  /\ Cardinality(Taken) \in Nat
           /\ slots' = slots => Taken' = Taken
           /\ ~ slots[i] /\ slots' = [slots EXCEPT ![i] = TRUE] => Cardinality(Taken') = Cardinality(Taken) + 1
           /\ slots[i] /\ slots' = [slots EXCEPT ![i] = FALSE] => Cardinality(Taken') = Cardinality(Taken) - 1
           /\ ~ slots[i] /\ slots' = [slots EXCEPT ![i] = FALSE] => Taken' = Taken
  <1>1. IsFiniteSet(Taken)
    <2>1. Taken \subseteq Ids
        BY DEF Taken
    <2> QED BY <2>1, IdsFinite, FS_Subset
  <1>2. Cardinality(Taken) \in Nat
      BY <1>1, FS_CardinalityType
  <1>3. slots' = slots => Taken' = Taken
      BY DEF Taken
  <1>4. ~ slots[i] /\ slots' = [slots EXCEPT ![i] = TRUE] => Cardinality(Taken') = Cardinality(Taken) + 1
    <2> SUFFICES ASSUME ~ slots[i], slots' = [slots EXCEPT ![i] = TRUE]
                 PROVE  Cardinality(Taken') = Cardinality(Taken) + 1
        OBVIOUS
    <2>1. Taken' = Taken \cup {i} /\ i \notin Taken
        BY DEF Taken
    <2> QED BY <1>1, <2>1, FS_AddElement
  <1>5. slots[i] /\ slots' = [slots EXCEPT ![i] = FALSE] => Cardinality(Taken') = Cardinality(Taken) - 1
    <2> SUFFICES ASSUME slots[i], slots' = [slots EXCEPT ![i] = FALSE]
                 PROVE  Cardinality(Taken') = Cardinality(Taken) - 1
        OBVIOUS
    <2>1. Taken' = Taken \ {i} /\ i \in Taken
        BY DEF Taken
    <2> QED BY <1>1, <2>1, FS_RemoveElement
  <1>6. ~ slots[i] /\ slots' = [slots EXCEPT ![i] = FALSE] => Taken' = Taken
      BY DEF Taken
  <1> QED BY <1>2, <1>3, <1>4, <1>5, <1>6

LEMMA FitsStep ==
    ASSUME Cache!TypeOK, PoolTypeOK, CallsNameIds, Quiet, Fits, NEW t \in Threads, CacheDelta(t), Alone(t)
    PROVE  Fits'
  <1> DEFINE out  == Cardinality(In({"recount", "free"}))
             take == Cardinality(In({"take"}))
             undo == Cardinality(In({"undo"}))
  <1> SUFFICES ASSUME Idle' PROVE count' + out' <= Cardinality(Taken') + take' + undo'
      BY DEF Fits
  <1>0. /\ count \in Int /\ slots \in [Ids -> BOOLEAN]
        /\ out \in Nat /\ take \in Nat /\ undo \in Nat
      BY InMoves DEF PoolTypeOK, Cache!TypeOK, Ids, Cache!Ids
  <1>1. 1 \in Ids /\ \A u \in Threads : pc[u] \in {"take", "free"} => uid[u] \in Ids
      BY PoolAssumption DEF Ids, CallsNameIds
  <1>2. Cardinality(Taken) \in Nat /\ (slots' = slots => Taken' = Taken)
      BY <1>0, <1>1, TakenMoves
  <1>3. ASSUME pc[t] # "zero" PROVE pc[t] \notin Activating \/ pc'[t] \in Activating
    BY <1>3 DEF CacheDelta, Activating
  <1>4. ASSUME pc[t] \notin Activating PROVE count + out <= Cardinality(Taken) + take + undo
    <2>1. Idle
        BY <1>4 DEF Idle, Alone
    <2> QED BY <2>1 DEF Fits
  <1>5. pc'[t] \notin Activating
      BY DEF Idle
  <1> HIDE DEF out, take, undo
  <1>6. CASE /\ pc[t] = "idle" /\ pc'[t] = "activate"
      BY <1>5, <1>6 DEF Activating
  <1>7. CASE /\ pc[t] \notin {"take", "undo", "recount", "free"} /\ pc'[t] \notin {"take", "undo", "recount", "free"}
             /\ (pc[t] \in Activating => pc'[t] \in Activating) /\ UNCHANGED <<count, used, slots>>
    <2>1. out' = out /\ take' = take /\ undo' = undo
        BY <1>7, InMoves DEF out, take, undo
    <2>2. count + out <= Cardinality(Taken) + take + undo
        BY <1>4, <1>5, <1>7
    <2> QED BY <1>2, <1>7, <2>1, <2>2
  <1>8. CASE /\ pc[t] = "zero" /\ pc'[t] = "idle" /\ count' = 0 /\ UNCHANGED <<used, slots>>
    <2>1. \A u \in Threads : pc[u] \notin {"recount", "free"}
        BY <1>8 DEF Quiet, Activating
    <2>2. out = 0
        BY <2>1, InNone DEF out
    <2>3. out' = out /\ take' = take /\ undo' = undo
        BY <1>8, InMoves DEF out, take, undo
    <2> QED BY <1>0, <1>2, <1>8, <2>2, <2>3
  <1>9. CASE /\ pc[t] = "count" /\ pc'[t] \in {"take", "undo"} /\ count' = count + 1 /\ UNCHANGED <<used, slots>>
    <2>1. count + out <= Cardinality(Taken) + take + undo
        BY <1>4, <1>9 DEF Activating
    <2>2. out' = out
        BY <1>9, InMoves DEF out
    <2>3. CASE pc'[t] = "take"
      <3>1. take' = take + 1 /\ undo' = undo
          BY <1>9, <2>3, InMoves DEF take, undo
      <3> QED BY <1>0, <1>2, <1>9, <2>1, <2>2, <3>1
    <2>4. CASE pc'[t] = "undo"
      <3>1. take' = take /\ undo' = undo + 1
          BY <1>9, <2>4, InMoves DEF take, undo
      <3> QED BY <1>0, <1>2, <1>9, <2>1, <2>2, <3>1
    <2> QED BY <1>9, <2>3, <2>4
  <1>10. CASE /\ pc[t] = "take" /\ pc'[t] = "undo" /\ UNCHANGED <<count, used, slots>>
    <2>1. count + out <= Cardinality(Taken) + take + undo
        BY <1>4, <1>10 DEF Activating
    <2>2. out' = out /\ take' = take - 1 /\ undo' = undo + 1
        BY <1>10, InMoves DEF out, take, undo
    <2> QED BY <1>0, <1>2, <1>10, <2>1, <2>2
  <1>11. CASE /\ pc[t] = "take" /\ pc'[t] = "idle" /\ ~ slots[uid[t]] /\ slots' = [slots EXCEPT ![uid[t]] = TRUE]
              /\ UNCHANGED count
    <2>1. count + out <= Cardinality(Taken) + take + undo
        BY <1>4, <1>11 DEF Activating
    <2>2. out' = out /\ take' = take - 1 /\ undo' = undo
        BY <1>11, InMoves DEF out, take, undo
    <2>3. Cardinality(Taken') = Cardinality(Taken) + 1
        BY <1>0, <1>1, <1>11, TakenMoves
    <2> QED BY <1>0, <1>2, <1>11, <2>1, <2>2, <2>3
  <1>12. CASE /\ pc[t] = "undo" /\ pc'[t] = "idle" /\ count' = count - 1 /\ UNCHANGED <<used, slots>>
    <2>1. count + out <= Cardinality(Taken) + take + undo
        BY <1>4, <1>12 DEF Activating
    <2>2. out' = out /\ take' = take /\ undo' = undo - 1
        BY <1>12, InMoves DEF out, take, undo
    <2> QED BY <1>0, <1>2, <1>12, <2>1, <2>2
  <1>13. CASE /\ pc[t] = "idle" /\ pc'[t] \in {"recount", "free"} /\ count' = count - 1 /\ UNCHANGED slots
    <2>1. count + out <= Cardinality(Taken) + take + undo
        BY <1>4, <1>13 DEF Activating
    <2>2. out' = out + 1 /\ take' = take /\ undo' = undo
        BY <1>13, InMoves DEF out, take, undo
    <2> QED BY <1>0, <1>2, <1>13, <2>1, <2>2
  <1>14. CASE /\ pc[t] = "recount" /\ pc'[t] = "idle" /\ count' = count + 1 /\ UNCHANGED <<used, slots>>
    <2>1. count + out <= Cardinality(Taken) + take + undo
        BY <1>4, <1>14 DEF Activating
    <2>2. out' = out - 1 /\ take' = take /\ undo' = undo
        BY <1>14, InMoves DEF out, take, undo
    <2> QED BY <1>0, <1>2, <1>14, <2>1, <2>2
  <1>15. CASE /\ pc[t] = "free" /\ pc'[t] \in {"check", "idle"} /\ slots' = [slots EXCEPT ![uid[t]] = FALSE]
              /\ UNCHANGED <<count, used>>
    <2>1. count + out <= Cardinality(Taken) + take + undo
        BY <1>4, <1>15 DEF Activating
    <2>2. out' = out - 1 /\ take' = take /\ undo' = undo
        BY <1>15, InMoves DEF out, take, undo
    <2>3. Cardinality(Taken') = Cardinality(Taken) - 1 \/ Taken' = Taken
        BY <1>0, <1>1, <1>15, TakenMoves
    <2> QED BY <1>0, <1>2, <1>15, <2>1, <2>2, <2>3
  <1> QED BY <1>6, <1>7, <1>8, <1>9, <1>10, <1>11, <1>12, <1>13, <1>14, <1>15 DEF CacheDelta

LEMMA CarefulStep ==
    ASSUME Cache!TypeOK, PoolTypeOK, CallsNameIds, Quiet, Careful, NEW t \in Threads, CacheDelta(t), Alone(t),
           \A u \in Threads \ {t} : uid'[u] = uid[u], GivesBackOwn(t)
    PROVE  Careful'
  <1> DEFINE take == Cardinality(In({"take"}))
             undo == Cardinality(In({"undo"}))
             Free == /\ \A i \in used : slots[i]
                     /\ \A u \in Threads : pc[u] = "free" => slots[uid[u]] /\ uid[u] \notin used
                     /\ \A u, v \in Threads : pc[u] = "free" /\ pc[v] = "free" /\ uid[u] = uid[v] => u = v
  <1>0. /\ count \in Int /\ slots \in [Ids -> BOOLEAN] /\ used \subseteq Ids
        /\ take \in Nat /\ undo \in Nat
      BY InMoves DEF PoolTypeOK, Cache!TypeOK, Ids, Cache!Ids
  <1>1. 1 \in Ids /\ \A u \in Threads : pc[u] \in {"take", "free"} => uid[u] \in Ids
      BY PoolAssumption DEF Ids, CallsNameIds
  <1>2. Cardinality(used) \in Nat /\ count = Cardinality(used) + take + undo
      BY <1>1, UsedCounts DEF Careful
  <1>3. Free /\ pc[t] # "recount"
      BY DEF Careful
  <1>4. ASSUME pc'[t] # "recount", Free', count' = Cardinality(used') + take' + undo' PROVE Careful'
    <2>1. \A u \in Threads : pc'[u] # "recount"
        BY <1>4 DEF Careful, Alone
    <2> QED BY <1>4, <2>1 DEF Careful
  <1>5. ASSUME UNCHANGED <<used, slots>>, pc'[t] # "free" PROVE Free'
      BY <1>3, <1>5 DEF Alone
  <1> HIDE DEF take, undo
  <1>6. CASE /\ pc[t] = "idle" /\ pc'[t] = "activate" /\ used = {} /\ (\A u \in Threads : pc[u] = "idle")
             /\ slots' = [i \in Ids |-> FALSE] /\ UNCHANGED <<count, used, uid>>
    <2>1. Free'
        BY <1>6 DEF Alone
    <2>2. take' = take /\ undo' = undo
        BY <1>6, InMoves DEF take, undo
    <2> QED BY <1>2, <1>4, <1>6, <2>1, <2>2
  <1>7. CASE /\ pc[t] \notin {"take", "undo", "recount", "free"} /\ pc'[t] \notin {"take", "undo", "recount", "free"}
             /\ UNCHANGED <<count, used, slots>>
    <2>1. take' = take /\ undo' = undo
        BY <1>7, InMoves DEF take, undo
    <2> QED BY <1>2, <1>4, <1>5, <1>7, <2>1
  <1>8. CASE /\ pc[t] = "zero" /\ pc'[t] = "idle" /\ count' = 0 /\ UNCHANGED <<used, slots>>
    <2>1. used = {} /\ \A u \in Threads : pc[u] \notin {"take"} /\ pc[u] \notin {"undo"}
        BY <1>8 DEF Quiet, Activating
    <2>2. take = 0 /\ undo = 0
        BY <2>1, InNone DEF take, undo
    <2>3. take' = take /\ undo' = undo
        BY <1>8, InMoves DEF take, undo
    <2>4. Cardinality(used') = 0
        BY <1>8, <2>1, FS_EmptySet
    <2> QED BY <1>4, <1>5, <1>8, <2>2, <2>3, <2>4
  <1>9. CASE /\ pc[t] = "count" /\ pc'[t] \in {"take", "undo"} /\ count' = count + 1 /\ UNCHANGED <<used, slots>>
    <2>1. CASE pc'[t] = "take"
      <3>1. take' = take + 1 /\ undo' = undo
          BY <1>9, <2>1, InMoves DEF take, undo
      <3> QED BY <1>0, <1>2, <1>4, <1>5, <1>9, <2>1, <3>1
    <2>2. CASE pc'[t] = "undo"
      <3>1. take' = take /\ undo' = undo + 1
          BY <1>9, <2>2, InMoves DEF take, undo
      <3> QED BY <1>0, <1>2, <1>4, <1>5, <1>9, <2>2, <3>1
    <2> QED BY <1>9, <2>1, <2>2
  <1>10. CASE /\ pc[t] = "take" /\ pc'[t] = "undo" /\ UNCHANGED <<count, used, slots>>
    <2>1. take' = take - 1 /\ undo' = undo + 1
        BY <1>10, InMoves DEF take, undo
    <2> QED BY <1>0, <1>2, <1>4, <1>5, <1>10, <2>1
  <1>11. CASE /\ pc[t] = "take" /\ pc'[t] = "idle" /\ ~ slots[uid[t]] /\ slots' = [slots EXCEPT ![uid[t]] = TRUE]
              /\ used' = used \cup {uid[t]} /\ UNCHANGED count
    <2>1. take' = take - 1 /\ undo' = undo
        BY <1>11, InMoves DEF take, undo
    <2>2. uid[t] \in Ids /\ uid[t] \notin used
        BY <1>1, <1>3, <1>11
    <2>3. Cardinality(used') = Cardinality(used) + 1
        BY <1>11, <2>2, UsedCounts
    <2>4. Free'
        BY <1>0, <1>1, <1>3, <1>11, <2>2 DEF Alone
    <2> QED BY <1>0, <1>2, <1>4, <1>11, <2>1, <2>3, <2>4
  <1>12. CASE /\ pc[t] = "undo" /\ pc'[t] = "idle" /\ count' = count - 1 /\ UNCHANGED <<used, slots>>
    <2>1. take' = take /\ undo' = undo - 1
        BY <1>12, InMoves DEF take, undo
    <2> QED BY <1>0, <1>2, <1>4, <1>5, <1>12, <2>1
  <1>13. CASE /\ pc[t] = "idle" /\ pc'[t] = (IF count <= 0 THEN "recount" ELSE "free")
              /\ count' = count - 1 /\ UNCHANGED slots
    <2>1. uid'[t] \in used /\ used' = used \ {uid'[t]}
        BY <1>13 DEF GivesBackOwn
    <2>2. Cardinality(used') = Cardinality(used) - 1 /\ Cardinality(used) > 0
        BY <1>0, <2>1, UsedCounts
    <2>3. pc'[t] = "free"
        BY <1>0, <1>2, <1>13, <2>2
    <2>4. take' = take /\ undo' = undo
        BY <1>13, <2>3, InMoves DEF take, undo
    <2>5. Free'
        BY <1>0, <1>3, <1>13, <2>1 DEF Alone
    <2> QED BY <1>0, <1>2, <1>4, <1>13, <2>2, <2>3, <2>4, <2>5
  <1>14. CASE /\ pc[t] = "free" /\ pc'[t] \in {"check", "idle"} /\ slots' = [slots EXCEPT ![uid[t]] = FALSE]
              /\ UNCHANGED <<count, used>>
    <2>1. take' = take /\ undo' = undo
        BY <1>14, InMoves DEF take, undo
    <2>2. Free'
        BY <1>0, <1>1, <1>3, <1>14 DEF Alone
    <2> QED BY <1>2, <1>4, <1>14, <2>1, <2>2
  <1> QED BY <1>3, <1>6, <1>7, <1>8, <1>9, <1>10, <1>11, <1>12, <1>13, <1>14 DEF CacheDelta

(***************************************************************************)
(* The composition with the entities.                                      *)
(***************************************************************************)
IdsInv ==
    /\ EntitiesInv /\ Quiet /\ Dispatched
    /\ ~ cached => StoreInv
    /\ cached => Fits
    /\ cached /\ user = "entities" => Careful

LEMMA IdsInit == Init => IdsInv
  <1> SUFFICES ASSUME Init PROVE IdsInv
      OBVIOUS
  <1>1. /\ active = FALSE /\ called = FALSE /\ count = 0 /\ used = {} /\ dispatches = 0 /\ activations = 0
        /\ pc = [t \in Threads |-> "idle"]
        /\ FreeIds = << >> /\ slots = [i \in Ids |-> FALSE]
      BY DEF Init, Store!Init, Store!PoolInit, Cache!Init, Cache!PoolInit, Ids, Cache!Ids
  <1>2. Quiet /\ Dispatched
      BY <1>1 DEF Quiet, Dispatched, Activating
  <1>3. ASSUME NEW L, "idle" \notin L PROVE Cardinality(In(L)) = 0
      BY <1>1, <1>3, InNone
  <1>4. Cardinality(used) = 0 /\ Cardinality(Taken) = 0
    <2>1. Taken = {}
        BY <1>1 DEF Taken
    <2> QED BY <1>1, <2>1, FS_EmptySet
  <1>5. Exact
      BY <1>1, <1>3, <1>4 DEF Exact, Pending
  <1>6. Fits
    <2>1. Cardinality(In({"recount", "free"})) = 0 /\ Cardinality(In({"take"})) = 0 /\ Cardinality(In({"undo"})) = 0
        BY <1>3
    <2> QED BY <1>1, <1>4, <2>1 DEF Fits
  <1>7. Careful
    <2>1. Cardinality(In({"take"})) = 0 /\ Cardinality(In({"undo"})) = 0
        BY <1>3
    <2> QED BY <1>1, <1>4, <2>1 DEF Careful
  <1>8. StoreInv
      BY <1>1, <1>5 DEF StoreInv, Stack, Announced
  <1> QED BY <1>2, <1>6, <1>7, <1>8, InitEntities DEF IdsInv

(* A step of the whole is one of the pool, and the entities give back only *)
(* ids of their own, or leaves the pool alone.                             *)
LEMMA PoolOrNot ==
    ASSUME EntitiesInv, [Next]_vars
    PROVE  \/ UNCHANGED <<poolVars, storeVars, cacheVars>>
           \/ \E t \in Threads : IdStep(t) /\ (cached /\ user = "entities" => GivesBackOwn(t))
  <1>1. ASSUME NEW t \in Threads, Manage(t)
        PROVE  IdStep(t) /\ GivesBackOwn(t)
      BY <1>1 DEF Manage, GivesBackOwn
  <1>2. ASSUME NEW t \in Threads, AllocateId(t)
        PROVE  IdStep(t) /\ GivesBackOwn(t)
      BY <1>2 DEF AllocateId, GivesBackOwn
  <1>3. ASSUME NEW t \in Threads, DeallocateId(t)
        PROVE  IdStep(t) /\ (cached => GivesBackOwn(t))
      BY <1>3 DEF DeallocateId, GivesBackOwn
  <1>4. ASSUME NEW t \in Threads, Direct(t) PROVE IdStep(t) /\ user = "direct"
      BY <1>4 DEF Direct
  <1>5. ASSUME NEW t \in Threads,
               \/ AllocateEntity(t) \/ AllocateRefused(t) \/ SetReference(t) \/ OnCreate(t)
               \/ Release(t) \/ Delete(t) \/ OnDestroy(t) \/ (\E u \in Threads : Copy(t, u))
        PROVE  UNCHANGED <<poolVars, storeVars, cacheVars>>
      BY <1>5 DEF AllocateEntity, AllocateRefused, SetReference, OnCreate, Release, Delete, OnDestroy, Copy
  <1>6. CASE UNCHANGED vars
      BY <1>6 DEF vars
  <1> QED BY <1>1, <1>2, <1>3, <1>4, <1>5, <1>6 DEF Next, Entities

LEMMA IdsStep == IdsInv /\ [Next]_vars => IdsInv'
  <1> SUFFICES ASSUME IdsInv, [Next]_vars PROVE IdsInv'
      OBVIOUS
  <1>0. EntitiesInv /\ EntitiesInv' /\ UNCHANGED config
      BY EntitiesStep, ConfigStays DEF IdsInv
  <1>1. Store!TypeOK /\ Cache!TypeOK /\ PoolTypeOK /\ (cached => CallsNameIds)
      BY <1>0, PoolTyped DEF EntitiesInv, Typed, TypeOK
  <1>2. CASE UNCHANGED <<poolVars, storeVars, cacheVars>>
      BY <1>0, <1>2 DEF IdsInv, poolVars, storeVars, cacheVars, config, Quiet, Dispatched, StoreInv, Stack, Exact,
             Announced, Fits, Idle, Taken, In, Careful
  <1>3. ASSUME NEW t \in Threads, IdStep(t), cached /\ user = "entities" => GivesBackOwn(t) PROVE IdsInv'
    <2>1. Alone(t)
        BY <1>0, <1>3, IdSteps DEF EntitiesInv
    <2>2. CASE cached /\ Cache!Step(t)
      <3>1. FlagMove(t) /\ CacheDelta(t) /\ \A u \in Threads \ {t} : uid'[u] = uid[u]
          BY <1>1, <2>2, CacheFlags, CacheDeltas
      <3>2. Quiet' /\ Dispatched'
          BY <1>1, <2>1, <3>1, FlagsStep DEF IdsInv
      <3>3. Fits'
          BY <1>1, <2>1, <2>2, <3>1, FitsStep DEF IdsInv
      <3>4. user = "entities" => Careful'
          BY <1>1, <1>3, <2>1, <2>2, <3>1, CarefulStep DEF IdsInv
      <3> QED BY <1>0, <2>2, <3>2, <3>3, <3>4 DEF IdsInv, config
    <2>3. CASE ~ cached /\ Store!Step(t)
      <3>1. FlagMove(t)
          BY <1>1, <2>3, StoreFlags
      <3>2. Quiet' /\ Dispatched'
          BY <1>1, <2>1, <3>1, FlagsStep DEF IdsInv
      <3>3. StoreInv'
          BY <1>1, <2>1, <2>3, StoreStep DEF IdsInv
      <3> QED BY <1>0, <2>3, <3>2, <3>3 DEF IdsInv, config
    <2> QED BY <1>3, <2>2, <2>3 DEF IdStep
  <1> QED BY <1>0, <1>2, <1>3, PoolOrNot

LEMMA IdsAlways == Spec => []IdsInv
  <1> QED BY IdsInit, IdsStep, PTL DEF Spec

(* OnAllFreed runs at most once for each activation, however often and by  *)
(* whomever Deactivate is called while ids are given back, and a store     *)
(* that is deactivated, has all its ids and is at rest has called it.      *)
THEOREM OnAllFreedRunsOnce == Spec => []AllFreedOnce
  <1>1. IdsInv => DispatchedOnce
      BY DEF IdsInv, Dispatched, DispatchedOnce
  <1>2. IdsInv => NoLostCallbackOfStore
      BY DEF IdsInv, StoreInv, Announced, Activating, NoLostCallback, NoLostCallbackOfStore
  <1> QED BY <1>1, <1>2, IdsAlways, PTL DEF AllFreedOnce

LEMMA StoreInvKeeps ==
    ASSUME FreeIds \in Seq(Ids), used \subseteq Ids, StoreInv
    PROVE  Store!EveryIdOnce /\ Store!CountExact
  <1>1. DOMAIN FreeIds = 1 .. Len(FreeIds) /\ \A i \in 1 .. Len(FreeIds) : FreeIds[i] \in Ids
      BY LenProperties
  <1>2. Store!IsInjective(FreeIds)
      BY <1>1 DEF StoreInv, Stack, Store!IsInjective
  <1>3. activations > 0 => Ids \ used = Store!Range(FreeIds)
      BY <1>1 DEF StoreInv, Stack, Store!Range
  <1>4. Store!EveryIdOnce
      BY <1>2, <1>3 DEF Store!EveryIdOnce, Ids, Store!Ids
  <1>5. \A S : Store!Cardinality(S) = Cardinality(S)
      BY DEF Store!Cardinality, Cardinality
  <1>6. Store!CountExact
      BY <1>5 DEF StoreInv, Exact, In, Pending, Store!CountExact
  <1> QED BY <1>4, <1>6

(* Ids are neither lost nor given twice: every id of the store is on its   *)
(* stack or with one caller and the count misses only the calls under way, *)
(* though it is changed outside of the lock; and the cache never looks     *)
(* fuller than its flags say, whatever its callers give back.              *)
THEOREM IdsAreKept == Spec => []IdsKept
  <1>1. IdsInv => StoreKeepsIds
      BY StoreInvKeeps, PoolTyped DEF IdsInv, EntitiesInv, Typed, TypeOK, Store!TypeOK, PoolTypeOK, Ids, Store!Ids,
         StoreKeepsIds
  <1>2. IdsInv => CacheNotFuller
    <2> SUFFICES ASSUME IdsInv, cached, Idle
                 PROVE  Cache!NotFuller
        BY DEF CacheNotFuller, Cache!NotFuller, Idle, Activating, Cache!Activating
    <2>1. 1 \in Ids /\ slots \in [Ids -> BOOLEAN] /\ count \in Int
        BY PoolAssumption DEF IdsInv, EntitiesInv, Typed, TypeOK, Cache!TypeOK, Cache!PoolTypeOK, Ids, Cache!Ids
    <2>2. \A L : Cardinality(In(L)) \in Nat
      <3>1. \A L : In(L) \subseteq Threads
          BY DEF In
      <3> QED BY <3>1, PoolAssumption, FS_Subset, FS_CardinalityType
    <2>3. count <= Cardinality(Taken) + Cardinality(In({"take"})) + Cardinality(In({"undo"}))
        BY <2>1, <2>2, TakenMoves DEF IdsInv, Fits
    <2>4. \A S : Cache!Cardinality(S) = Cardinality(S)
        BY DEF Cache!Cardinality, Cardinality
    <2>5. /\ Cache!At("take") = In({"take"}) /\ Cache!At("undo") = In({"undo"})
          /\ {i \in Cache!Ids : slots[i]} = Taken
        BY DEF Cache!At, In, Taken, Ids, Cache!Ids
    <2> QED BY <2>3, <2>4, <2>5 DEF Cache!NotFuller
  <1> QED BY <1>1, <1>2, IdsAlways, PTL DEF IdsKept

(* The cache takes back every id that an entity gives it: the count it     *)
(* reads is positive and the flag it clears is set, which is what the      *)
(* assertion on the result of Deallocate demands.                          *)
THEOREM CacheTakesIdsBack == Spec => []DeallocateSucceeds
  <1>1. IdsInv => DeallocateSucceeds
    <2> SUFFICES ASSUME IdsInv, NEW t \in Threads, cached, step[t] = "deallocate"
                 PROVE  pc[t] # "recount" /\ (pc[t] = "free" => slots[uid[t]])
        BY DEF DeallocateSucceeds
    <2>1. user = "entities"
        BY UsersAssumption DEF IdsInv, EntitiesInv, Places, Typed, TypeOK
    <2> QED BY <2>1 DEF IdsInv, Careful
  <1> QED BY <1>1, IdsAlways, PTL
=============================================================================
