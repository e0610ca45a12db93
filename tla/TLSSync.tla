------------------------------- MODULE TLSSync -------------------------------
(***************************************************************************)
(* One TLSSyncSystem: the ring TLSSyncQueue of TLSSync/TLSSyncQueue.h, the *)
(* tasks of TLSSync/TLSSyncTask.h with a reference for each worker, and    *)
(* TLSTick of SkylakeLib.cpp, which every worker calls in its run loop.    *)
(*                                                                         *)
(* Indexes are 64 bits wide in the code and unbounded here; there are      *)
(* finitely many tasks.  A task's functor, its memory and the sleeping of  *)
(* the run loop are left out.                                              *)
(***************************************************************************)
EXTENDS Naturals, FiniteSets, Sequences

CONSTANTS Workers,         \* the workers that take part
          Tasks,           \* tasks, each issued at most once
          Size,            \* TLSSyncQueue::Size
          MaxOutstanding,  \* tasks that callers let be in the queue at once
          Null             \* nullptr

ASSUME SizeAssumption ==
    /\ Size \in Nat \ {0} /\ MaxOutstanding \in Nat
    /\ IsFiniteSet(Workers) /\ Workers # {} /\ Null \notin Tasks

VARIABLES
    head,    \* TLSSyncQueue::Head
    items,   \* TLSSyncQueue::Items
    refs,    \* refs[t]: ReferenceCount of the task's control block
    index,   \* index[t]: Push's local TaskIndex
    status,  \* status[t]: "new", "claimed", "stored", "popped" or "freed"
    idx,     \* idx[w]: ThreadIndex of the worker's thread
    pc,      \* pc[w]: where worker w is
    cur,     \* cur[w]: TLSTick's local Task
    runs,    \* runs[t][w]: times that w dispatched t
    finals   \* finals[t]: times that t was dispatched as finalized

taskVars   == <<head, index>>
workerVars == <<idx, pc, cur>>
history    == <<runs, finals>>
vars == <<head, items, refs, index, status, idx, pc, cur, runs, finals>>

Slots   == 0 .. Size - 1
Slot(i) == i % Size

Init ==
    /\ head = 0
    /\ items = [s \in Slots |-> Null]
    /\ refs = [t \in Tasks |-> 0]
    /\ index = [t \in Tasks |-> 0]
    /\ status = [t \in Tasks |-> "new"]
    /\ idx = [w \in Workers |-> 0]
    /\ pc = [w \in Workers |-> "loop"]
    /\ cur = [w \in Workers |-> Null]
    /\ runs = [t \in Tasks |-> [w \in Workers |-> 0]]
    /\ finals = [t \in Tasks |-> 0]

(***************************************************************************)
(* SyncTLS, on any thread: a task with one reference per worker, and Push  *)
(* in its two steps.  Nothing in the code stops a caller that finds the    *)
(* queue full; that callers keep to MaxOutstanding is assumed.             *)
(***************************************************************************)
Outstanding == {t \in Tasks : status[t] \in {"claimed", "stored"}}

Claim(t) ==
    /\ status[t] = "new"
    /\ Cardinality(Outstanding) < MaxOutstanding
    /\ refs' = [refs EXCEPT ![t] = Cardinality(Workers)]
    /\ index' = [index EXCEPT ![t] = head]
    /\ head' = head + 1
    /\ status' = [status EXCEPT ![t] = "claimed"]
    /\ UNCHANGED <<items, workerVars, history>>

Store(t) ==
    /\ status[t] = "claimed"
    /\ items' = [items EXCEPT ![Slot(index[t])] = t]
    /\ status' = [status EXCEPT ![t] = "stored"]
    /\ UNCHANGED <<taskVars, refs, workerVars, history>>

(***************************************************************************)
(* TLSTick.  Load(w, i): the worker takes what is at index i of the ring,  *)
(* and leaves the tick if there is nothing.                                *)
(***************************************************************************)
Load(w, i) ==
    /\ cur' = [cur EXCEPT ![w] = items[Slot(i)]]
    /\ pc' = [pc EXCEPT ![w] = IF items[Slot(i)] = Null THEN "loop" ELSE "dispatch"]

Goto(w, l) == pc' = [pc EXCEPT ![w] = l]

Front(w) ==
    /\ pc[w] = "loop" /\ Load(w, idx[w])
    /\ UNCHANGED <<taskVars, items, refs, status, idx, history>>

Dispatch(w) ==
    /\ pc[w] = "dispatch"
    /\ runs' = [runs EXCEPT ![cur[w]][w] = @ + 1]
    /\ Goto(w, "release")
    /\ UNCHANGED <<taskVars, items, refs, status, idx, cur, finals>>

(* Faulty: the first worker to release its reference finalizes the task.   *)
ReleaseFirst(w) ==
    /\ pc[w] = "release"
    /\ refs' = [refs EXCEPT ![cur[w]] = @ - 1]
    /\ \/ refs[cur[w]] = Cardinality(Workers) /\ Goto(w, "finalize")
       \/ refs[cur[w]] # Cardinality(Workers) /\ Goto(w, "next")
    /\ UNCHANGED <<taskVars, items, status, idx, cur, history>>

(* Faulty: the last worker forgets to finalize.                            *)
ReleaseForgets(w) ==
    /\ pc[w] = "release"
    /\ refs' = [refs EXCEPT ![cur[w]] = @ - 1]
    /\ Goto(w, "next")
    /\ UNCHANGED <<taskVars, items, status, idx, cur, history>>

Release(w) ==
    /\ pc[w] = "release"
    /\ refs' = [refs EXCEPT ![cur[w]] = @ - 1]
    /\ \/ refs[cur[w]] = 1 /\ Goto(w, "finalize")
       \/ refs[cur[w]] # 1 /\ Goto(w, "next")
    /\ UNCHANGED <<taskVars, items, status, idx, cur, history>>

Finalize(w) ==
    /\ pc[w] = "finalize"
    /\ finals' = [finals EXCEPT ![cur[w]] = @ + 1]
    /\ Goto(w, "pop")
    /\ UNCHANGED <<taskVars, items, refs, status, idx, cur, runs>>

(* Faulty: leaves the task in the ring.                                    *)
TLSPopForgets(w) ==
    /\ pc[w] = "pop"
    /\ status' = [status EXCEPT ![cur[w]] = "popped"]
    /\ Goto(w, "free")
    /\ UNCHANGED <<taskVars, items, refs, idx, cur, history>>

TLSPop(w) ==
    /\ pc[w] = "pop"
    /\ items' = [items EXCEPT ![Slot(idx[w])] = Null]
    /\ status' = [status EXCEPT ![cur[w]] = "popped"]
    /\ Goto(w, "free")
    /\ UNCHANGED <<taskVars, refs, idx, cur, history>>

Free(w) ==
    /\ pc[w] = "free"
    /\ status' = [status EXCEPT ![cur[w]] = "freed"]
    /\ Goto(w, "next")
    /\ UNCHANGED <<taskVars, items, refs, idx, cur, history>>

TLSNext(w) ==
    /\ pc[w] = "next" /\ Load(w, idx[w] + 1)
    /\ idx' = [idx EXCEPT ![w] = @ + 1]
    /\ UNCHANGED <<taskVars, items, refs, status, history>>

(* The worker's group stops running: it leaves its loop between two ticks. *)
Stop(w) ==
    /\ pc[w] = "loop" /\ Goto(w, "stopped")
    /\ UNCHANGED <<taskVars, items, refs, status, idx, cur, history>>

(* ~TLSSyncQueue, when every thread is gone: Clear drops one reference of  *)
(* each task that is still in the ring.                                    *)
Clear ==
    LET left == {t \in Tasks : \E s \in Slots : items[s] = t}
    IN  /\ \A w \in Workers : pc[w] = "stopped"
        /\ \A t \in Tasks : status[t] # "claimed"
        /\ items' = [s \in Slots |-> Null]
        /\ refs' = [t \in Tasks |-> IF t \in left THEN refs[t] - 1 ELSE refs[t]]
        /\ status' = [t \in Tasks |->
              IF t \notin left THEN status[t] ELSE IF refs[t] = 1 THEN "freed" ELSE "popped"]
        /\ pc' = [w \in Workers |-> "gone"]
        /\ UNCHANGED <<taskVars, idx, cur, history>>

Tick(w) ==
    \/ Front(w) \/ Dispatch(w) \/ Release(w) \/ Finalize(w) \/ TLSPop(w) \/ Free(w) \/ TLSNext(w)

Issue(t) == pc # [w \in Workers |-> "gone"] /\ (Claim(t) \/ Store(t))

Next ==
    \/ \E t \in Tasks : Issue(t)
    \/ \E w \in Workers : Tick(w) \/ Stop(w)
    \/ Clear

Spec == Init /\ [][Next]_vars

(* A thread in Push finishes it, and a worker keeps ticking until it stops.*)
FairSpec ==
    /\ Spec
    /\ \A t \in Tasks : WF_vars(Store(t))
    /\ \A w \in Workers : WF_vars(Tick(w))
-----------------------------------------------------------------------------
Busy == {"dispatch", "release", "finalize", "pop", "free", "next"}

TypeOK ==
    /\ head \in Nat
    /\ items \in [Slots -> Tasks \cup {Null}]
    /\ refs \in [Tasks -> 0 .. Cardinality(Workers)]
    /\ index \in [Tasks -> Nat]
    /\ status \in [Tasks -> {"new", "claimed", "stored", "popped", "freed"}]
    /\ idx \in [Workers -> Nat]
    /\ pc \in [Workers -> Busy \cup {"loop", "stopped", "gone"}]
    /\ cur \in [Workers -> Tasks \cup {Null}]
    /\ \A w \in Workers : pc[w] \in Busy => cur[w] \in Tasks
    /\ runs \in [Tasks -> [Workers -> Nat]]
    /\ finals \in [Tasks -> Nat]

(* Worker w is past task t: it has dispatched it, or its index is beyond.  *)
Past(w, t) ==
    \/ idx[w] > index[t]
    \/ idx[w] = index[t] /\ pc[w] \in Busy \ {"dispatch"}

(* A task runs on a worker exactly once, when the worker's index passes it.*)
OncePerWorker ==
    \A t \in Tasks, w \in Workers :
        runs[t][w] = IF status[t] # "new" /\ Past(w, t) THEN 1 ELSE 0

(* A task is finalized at most once, when all the workers have run it.     *)
FinalizedLast ==
    \A t \in Tasks :
        /\ finals[t] <= 1
        /\ finals[t] = 1 => \A w \in Workers : runs[t][w] = 1

(* No worker holds a freed task, apart from the one that has just freed it.*)
NoUseAfterFree ==
    /\ \A w \in Workers : pc[w] \in Busy \ {"next"} => status[cur[w]] # "freed"
    /\ \A s \in Slots : items[s] # Null => status[items[s]] = "stored"

(* The assertions in Push and TLSPop: a task is stored in an empty slot    *)
(* and the slot that is emptied holds the task that was finalized.         *)
SlotsFit ==
    /\ \A t \in Tasks : status[t] = "claimed" => items[Slot(index[t])] = Null
    /\ \A w \in Workers : pc[w] = "pop" => items[Slot(idx[w])] = cur[w]

(* With the types of the variables.                                        *)
RingInv == TypeOK /\ SlotsFit /\ OncePerWorker

(* The last worker, and no other, finalizes a task and frees it.           *)
FreedLast == FinalizedLast /\ NoUseAfterFree

(* The ring with its references and private indexes is a broadcast.        *)
Broadcast == INSTANCE TLSBroadcast WITH
    order     <- [i \in 1 .. head |->
                    CHOOSE t \in Tasks : status[t] # "new" /\ index[t] = i - 1],
    ran       <- [w \in Workers |->
                    idx[w] + (IF pc[w] \in Busy \ {"dispatch"} THEN 1 ELSE 0)],
    finalized <- Cardinality({t \in Tasks : finals[t] > 0})
BroadcastInOrder == Broadcast!Spec

(* Every task is finalized, unless a worker stops first.                   *)
EveryTaskFinalized ==
    \A t \in Tasks :
        status[t] = "claimed" ~> finals[t] = 1 \/ \E w \in Workers : pc[w] = "stopped"
=============================================================================
