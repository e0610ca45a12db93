----------------------------- MODULE EntityStore -----------------------------
(***************************************************************************)
(* EntityStore (EntityStore.h): entities that live in fixed slots.  An id  *)
(* comes from a UIDStore or, with bUseCachedAllocationUIDStore, from a     *)
(* UIDAllocationCache; a reference count in the slot says when the entity  *)
(* is destroyed and its id given back.  With "direct" in Users the two id  *)
(* classes are used by themselves as well, with calls no entity makes.     *)
(***************************************************************************)
EXTENDS IdPool

CONSTANT Users   \* subset of {"entities", "direct"}

ASSUME UsersAssumption == Users \subseteq {"entities", "direct"}

VARIABLES
    user,     \* who uses the ids
    cached,   \* bUseCachedAllocationUIDStore
    FreeIds, all,      \* of IdStore
    slots, uid, last,  \* of IdCache
    refs,     \* refs[e]: ReferenceCount of slot e
    life,     \* life[e]: "none", "alive" after OnCreate, "destructed"
    handle,   \* handle[t]: the entity of t's TEntitySharedPtr, 0 if it is empty
    doing,    \* doing[t]: the entity that t creates or destroys, or 0
    step      \* step[t]: where t is in AllocateEntity, Delete or DeallocateEntity

storeVars  == <<FreeIds, all>>
cacheVars  == <<slots, uid, last>>
entityVars == <<refs, life, handle, doing, step>>
config     == <<user, cached>>
vars       == <<poolVars, storeVars, cacheVars, entityVars, config>>

Store == INSTANCE IdStore
Cache == INSTANCE IdCache

(* Initialize counts no reference in any slot.                             *)
Init ==
    /\ Store!Init /\ Cache!Init
    /\ user \in Users /\ cached \in BOOLEAN
    /\ refs = [e \in Ids |-> 0] /\ life = [e \in Ids |-> "none"]
    /\ handle = [t \in Threads |-> 0] /\ doing = [t \in Threads |-> 0]
    /\ step = [t \in Threads |-> "none"]

IdStep(t) ==
    \/ cached  /\ Cache!Step(t) /\ UNCHANGED storeVars
    \/ ~cached /\ Store!Step(t) /\ UNCHANGED cacheVars

At(t, s) == user = "entities" /\ step[t] = s
Proceed(t, s) == step' = [step EXCEPT ![t] = s]

Direct(t) == user = "direct" /\ IdStep(t) /\ UNCHANGED <<entityVars, config>>

(* Activate and Deactivate of the store are those of its ids. Nobody calls *)
(* Activate while a call is under way.                                     *)
Manage(t) ==
    /\ At(t, "none")
    /\ IdStep(t)
    /\ pc[t] = "idle" =>
          \/ pc'[t] = "look"
          \/ pc'[t] = "activate" /\ \A u \in Threads : step[u] = "none"
    /\ UNCHANGED <<entityVars, config>>

(***************************************************************************)
(* AllocateEntity and AllocateSpecificEntity                               *)
(***************************************************************************)
AllocateEntity(t) ==
    /\ At(t, "none") /\ pc[t] = "idle" /\ Usable /\ handle[t] = 0
    /\ active
    /\ Proceed(t, "allocate")
    /\ UNCHANGED <<poolVars, storeVars, cacheVars, refs, life, handle, doing, config>>

(* The pool looks at its flag again; it may refuse an id for want of one.  *)
AllocateId(t) ==
    /\ At(t, "allocate")
    /\ IdStep(t)
    /\ pc[t] = "idle" => pc'[t] = "count"
    /\ \/ used' # used /\ doing' = [doing EXCEPT ![t] = CHOOSE e \in used' : e \notin used]
          /\ Proceed(t, "count")
       \/ used' = used /\ UNCHANGED doing
          /\ Proceed(t, IF pc'[t] = "idle" THEN "none" ELSE "allocate")
    /\ UNCHANGED <<refs, life, handle, config>>

AllocateRefused(t) ==
    /\ At(t, "allocate") /\ pc[t] = "idle" /\ ~active
    /\ Proceed(t, "none")
    /\ UNCHANGED <<poolVars, storeVars, cacheVars, refs, life, handle, doing, config>>

SetReference(t) ==
    /\ At(t, "count")
    /\ refs' = [refs EXCEPT ![doing[t]] = 1]
    /\ Proceed(t, "create")
    /\ UNCHANGED <<poolVars, storeVars, cacheVars, life, handle, doing, config>>

OnCreate(t) ==
    /\ At(t, "create")
    /\ life' = [life EXCEPT ![doing[t]] = "alive"]
    /\ handle' = [handle EXCEPT ![t] = doing[t]]
    /\ doing' = [doing EXCEPT ![t] = 0]
    /\ Proceed(t, "none")
    /\ UNCHANGED <<poolVars, storeVars, cacheVars, refs, config>>

(***************************************************************************)
(* TEntitySharedPtr: a copy for another thread, and the end of a pointer.  *)
(***************************************************************************)
(* Faulty: the copy is not counted.                                        *)
CopyUncounted(t, u) ==
    /\ At(t, "none") /\ pc[t] = "idle" /\ handle[t] # 0
    /\ At(u, "none") /\ pc[u] = "idle" /\ handle[u] = 0
    /\ handle' = [handle EXCEPT ![u] = handle[t]]
    /\ UNCHANGED <<poolVars, storeVars, cacheVars, refs, life, doing, step, config>>

Copy(t, u) ==
    /\ At(t, "none") /\ pc[t] = "idle" /\ handle[t] # 0
    /\ At(u, "none") /\ pc[u] = "idle" /\ handle[u] = 0
    /\ refs' = [refs EXCEPT ![handle[t]] = @ + 1]
    /\ handle' = [handle EXCEPT ![u] = handle[t]]
    /\ UNCHANGED <<poolVars, storeVars, cacheVars, life, doing, step, config>>

Release(t) ==
    LET e == handle[t]
    IN  /\ At(t, "none") /\ pc[t] = "idle" /\ e # 0
        /\ refs' = [refs EXCEPT ![e] = @ - 1]
        /\ handle' = [handle EXCEPT ![t] = 0]
        /\ doing' = [doing EXCEPT ![t] = IF refs[e] = 1 THEN e ELSE 0]
        /\ Proceed(t, IF refs[e] = 1 THEN "destruct" ELSE "none")
        /\ UNCHANGED <<poolVars, storeVars, cacheVars, life, config>>

(***************************************************************************)
(* Delete and DeallocateEntity: the destructor, then OnDestroy, on the     *)
(* destructed entity, and then the id.                                     *)
(***************************************************************************)
Delete(t) ==
    /\ At(t, "destruct")
    /\ life' = [life EXCEPT ![doing[t]] = "destructed"]
    /\ Proceed(t, "destroy")
    /\ UNCHANGED <<poolVars, storeVars, cacheVars, refs, handle, doing, config>>

OnDestroy(t) ==
    /\ At(t, "destroy")
    /\ life' = [life EXCEPT ![doing[t]] = "none"]
    /\ Proceed(t, "deallocate")
    /\ UNCHANGED <<poolVars, storeVars, cacheVars, refs, handle, doing, config>>

DeallocateId(t) ==
    /\ At(t, "deallocate")
    /\ IdStep(t)
    /\ pc[t] = "idle" => /\ used' = used \ {doing[t]} /\ used' # used
                         /\ pc'[t] \in {"uncount", "recount", "free"}
                         /\ cached => uid'[t] = doing[t]
    /\ \/ pc'[t] = "idle" /\ Proceed(t, "none") /\ doing' = [doing EXCEPT ![t] = 0]
       \/ pc'[t] # "idle" /\ UNCHANGED <<step, doing>>
    /\ UNCHANGED <<refs, life, handle, config>>

Entities(t) ==
    \/ AllocateEntity(t) \/ AllocateId(t) \/ AllocateRefused(t)
    \/ SetReference(t) \/ OnCreate(t)
    \/ \E u \in Threads \ {t} : Copy(t, u)
    \/ Release(t) \/ Delete(t) \/ OnDestroy(t) \/ DeallocateId(t)

Next == \E t \in Threads : Manage(t) \/ Entities(t) \/ Direct(t)

Spec == Init /\ [][Next]_vars
-----------------------------------------------------------------------------
TypeOK ==
    /\ Store!TypeOK /\ Cache!TypeOK
    /\ user \in Users /\ cached \in BOOLEAN
    /\ refs \in [Ids -> Int]
    /\ life \in [Ids -> {"none", "alive", "destructed"}]
    /\ handle \in [Threads -> 0 .. MaxUID] /\ doing \in [Threads -> 0 .. MaxUID]
    /\ step \in [Threads -> {"none", "allocate", "count", "create",
                             "destruct", "destroy", "deallocate"}]

Holders(e)    == {t \in Threads : handle[t] = e}
Creators(e)   == {t \in Threads : doing[t] = e /\ step[t] \in {"count", "create"}}
Destroyers(e) == {t \in Threads : /\ doing[t] = e
                                  /\ \/ step[t] \in {"destruct", "destroy"}
                                     \/ step[t] = "deallocate" /\ pc[t] = "idle"}

(* An id is in use as long as its entity is being created, is held, or is  *)
(* being destroyed, one of the three, by one thread but for the holders,   *)
(* and the reference count is that of the holders.                         *)
OnePhase(e) ==
    LET phases == {Creators(e), Destroyers(e), Holders(e)} \ {{}}
    IN  /\ e \in used => Cardinality(phases) = 1
        /\ Cardinality(Creators(e) \cup Destroyers(e)) <= 1
        /\ refs[e] = Cardinality(Holders(e))
                     + Cardinality({t \in Creators(e) : step[t] = "create"})

EntityInv == TypeOK /\ (user = "entities" => \A e \in Ids : OnePhase(e))

(* The lives of a slot do not overlap: who holds an entity finds it        *)
(* created and not destroyed, and who creates or gives back one finds a    *)
(* slot without references and without life, as the two assertions demand. *)
LivesApart ==
    \A t \in Threads :
       /\ handle[t] # 0 => life[handle[t]] = "alive" /\ handle[t] \in used
       /\ step[t] \in {"count", "create"} => life[doing[t]] = "none"
       /\ step[t] \in {"count", "destruct", "destroy"} => refs[doing[t]] = 0
       /\ step[t] = "deallocate" /\ pc[t] = "idle" =>
             refs[doing[t]] = 0 /\ life[doing[t]] = "none"

(* The cache takes back every id that an entity gives it: the assertion on *)
(* the result of Deallocate.                                               *)
DeallocateSucceeds ==
    \A t \in Threads :
       cached /\ step[t] = "deallocate" =>
          /\ pc[t] # "recount"
          /\ pc[t] = "free" => slots[uid[t]]

(* What the store of ids keeps, and the cache, whoever uses them.          *)
StoreKeepsIds == ~cached => Store!EveryIdOnce /\ Store!CountExact

CacheNotFuller == cached => Cache!NotFuller

(* Ids are neither lost nor given twice, through any number of lives.      *)
IdsKept == StoreKeepsIds /\ CacheNotFuller

NoLostCallbackOfStore == ~cached => NoLostCallback

(* OnAllFreed runs once: at most once, and for a store it is not missed.   *)
AllFreedOnce == DispatchedOnce /\ NoLostCallbackOfStore
=============================================================================
