------------------------------ MODULE AODObject ------------------------------
(***************************************************************************)
(* The dispatch protocol of AOD/AOD_Object.cpp and AOD/AOD_Object.h.  Code *)
(* issues tasks to objects with DoAsync, from any thread and from inside   *)
(* running tasks; the thread whose increment finds an object's task        *)
(* counter at zero becomes the object's consumer and flushes its queue,    *)
(* at once or, if the thread is already flushing an object of that kind,   *)
(* after the objects that wait in its pending list.                        *)
(*                                                                         *)
(* A task is dispatched once, so a call of Dispatch is named by its task:  *)
(* pc[t], won[t], cur[t] and run[t] are the locals of Dispatch(t) and of   *)
(* the Flush it is in, and stack[th] holds the calls thread th is in, the  *)
(* innermost first.  The object's AODTaskQueue is the first-in first-out   *)
(* queue that TaskQueue.tla shows it to be, with the one state of Push     *)
(* that its consumer can notice: a task that is swapped in and not linked  *)
(* (its pc is "link") cannot be popped yet.  A Pop that answers nullptr    *)
(* makes Flush spin, which is stuttering.                                  *)
(***************************************************************************)
EXTENDS Integers, Sequences

CONSTANTS Threads,   \* threads that have an AODTLSContext
          Objects,   \* AOD objects
          Tasks,     \* tasks, each issued at most once
          Kinds,     \* kinds of objects in use, out of the three below
          KindOf,    \* the kind of each object
          None       \* no task, no object

ASSUME KindAssumption ==
    /\ Kinds \subseteq {"Static", "Shared", "Custom"}
    /\ KindOf \in [Objects -> Kinds]
    /\ None \notin Tasks /\ None \notin Objects

VARIABLES
    count,    \* count[o]: Object::RemainingTasksCount
    queue,    \* queue[o]: Object::TaskQueue, in the order of the exchanges
    refs,     \* refs[o]: references to o (always 1 for a static object)
    owned,    \* owned[o]: code outside o's tasks still holds a reference
    flag,     \* flag[th][k]: ThreadFlags::bIsAny<k>DispatchInProgress
    pending,  \* pending[th][k]: AODTLSContext::PendingAOD_<k>Objects
    stack,    \* stack[th]: the calls of Dispatch thread th is in
    pc,       \* pc[t]: where Dispatch(t) is
    target,   \* target[t]: the object t is bound to
    won,      \* won[t]: Dispatch(t) found the counter at zero
    cur,      \* cur[t]: the object Dispatch(t) is flushing
    run,      \* run[t]: the task Dispatch(t) is running or ran last
    done      \* the tasks that ran

objVars    == <<count, queue>>
threadVars == <<flag, pending>>
vars == <<count, queue, refs, owned, flag, pending, stack, pc, target, won, cur, run, done>>

Kind(o)    == KindOf[o]
Counted(o) == Kind(o) # "Static"

(* TSharedPtr::Static_IncrementReference and Static_Reset, which do        *)
(* nothing in the code of static objects.                                  *)
AddRef(r, o)  == IF Counted(o) THEN [r EXCEPT ![o] = @ + 1] ELSE r
DropRef(r, o) == IF Counted(o) THEN [r EXCEPT ![o] = @ - 1] ELSE r

Init ==
    /\ count = [o \in Objects |-> 0]
    /\ queue = [o \in Objects |-> <<>>]
    /\ refs = [o \in Objects |-> 1]
    /\ owned = [o \in Objects |-> TRUE]
    /\ flag = [th \in Threads |-> [k \in Kinds |-> FALSE]]
    /\ pending = [th \in Threads |-> [k \in Kinds |-> <<>>]]
    /\ stack = [th \in Threads |-> <<>>]
    /\ pc = [t \in Tasks |-> "new"]
    /\ target = [t \in Tasks |-> None]
    /\ won = [t \in Tasks |-> FALSE]
    /\ cur = [t \in Tasks |-> None]
    /\ run = [t \in Tasks |-> None]
    /\ done = {}

(***************************************************************************)
(* Issuing.  Thread th may issue a task to o from outside all dispatches   *)
(* or from the task it is running, if it can name o: somebody still owns a *)
(* reference, or o is the object the running task is bound to.             *)
(***************************************************************************)
Idle(th)    == stack[th] = <<>>
Running(th) == ~Idle(th) /\ pc[Head(stack[th])] = "run"

CanIssue(th, o) ==
    \/ owned[o] /\ (Idle(th) \/ Running(th))
    \/ Running(th) /\ cur[Head(stack[th])] = o

(* DoAsync: make the task, SetParent takes a reference, call Dispatch.     *)
DoAsync(th, t, o) ==
    /\ pc[t] = "new" /\ CanIssue(th, o)
    /\ target' = [target EXCEPT ![t] = o]
    /\ refs' = AddRef(refs, o)
    /\ pc' = [pc EXCEPT ![t] = "increment"]
    /\ stack' = [stack EXCEPT ![th] = <<t>> \o @]
    /\ UNCHANGED <<objVars, owned, threadVars, won, cur, run, done>>

(* DoAsyncAfter: the task waits in a queue of delayed tasks with its       *)
(* reference until a thread that is in no dispatch finds it due.           *)
DoAsyncAfter(th, t, o) ==
    /\ pc[t] = "new" /\ CanIssue(th, o)
    /\ target' = [target EXCEPT ![t] = o]
    /\ refs' = AddRef(refs, o)
    /\ pc' = [pc EXCEPT ![t] = "delayed"]
    /\ UNCHANGED <<objVars, owned, threadVars, stack, won, cur, run, done>>

DispatchDelayed(th, t) ==
    /\ pc[t] = "delayed" /\ Idle(th)
    /\ pc' = [pc EXCEPT ![t] = "increment"]
    /\ stack' = [stack EXCEPT ![th] = <<t>>]
    /\ UNCHANGED <<objVars, refs, owned, threadVars, target, won, cur, run, done>>

(* The last owner outside the object's own tasks drops its reference.      *)
Disown(o) ==
    /\ owned[o] /\ Counted(o)
    /\ owned' = [owned EXCEPT ![o] = FALSE]
    /\ refs' = DropRef(refs, o)
    /\ UNCHANGED <<objVars, threadVars, stack, pc, target, won, cur, run, done>>

(***************************************************************************)
(* Dispatch(t).  At(th, t, l): thread th is executing Dispatch(t) at l.    *)
(***************************************************************************)
At(th, t, l) == ~Idle(th) /\ Head(stack[th]) = t /\ pc[t] = l
Goto(t, l)   == pc' = [pc EXCEPT ![t] = l] /\ UNCHANGED stack
Return(th, t, l) ==
    /\ pc' = [pc EXCEPT ![t] = l]
    /\ stack' = [stack EXCEPT ![th] = Tail(@)]

(* Faulty: takes an empty queue for the absence of a consumer.             *)
IncrementByQueue(th, t) ==
    /\ At(th, t, "increment")
    /\ won' = [won EXCEPT ![t] = queue[target[t]] = <<>>]
    /\ count' = [count EXCEPT ![target[t]] = @ + 1]
    /\ Goto(t, "swap")
    /\ UNCHANGED <<queue, refs, owned, threadVars, target, cur, run, done>>

(* RemainingTasksCount.increment()                        RefPoint [0]     *)
Increment(th, t) ==
    /\ At(th, t, "increment")
    /\ won' = [won EXCEPT ![t] = count[target[t]] = 0]
    /\ count' = [count EXCEPT ![target[t]] = @ + 1]
    /\ Goto(t, "swap")
    /\ UNCHANGED <<queue, refs, owned, threadVars, target, cur, run, done>>

(* Faulty: the newest task first.                                          *)
PushSwapInFront(th, t) ==
    /\ At(th, t, "swap")
    /\ queue' = [queue EXCEPT ![target[t]] = <<t>> \o @]
    /\ Goto(t, "link")
    /\ UNCHANGED <<count, refs, owned, threadVars, target, won, cur, run, done>>

(* TaskQueue.Push, in its two steps                 RefPoint [1] or [2]    *)
PushSwap(th, t) ==
    /\ At(th, t, "swap")
    /\ queue' = [queue EXCEPT ![target[t]] = Append(@, t)]
    /\ Goto(t, "link")
    /\ UNCHANGED <<count, refs, owned, threadVars, target, won, cur, run, done>>

PushLink(th, t) ==
    /\ At(th, t, "link")
    /\ \/ won[t] /\ Goto(t, "claim")
       \/ ~won[t] /\ Return(th, t, "returnedFalse")
    /\ UNCHANGED <<objVars, refs, owned, threadVars, target, won, cur, run, done>>

(* Faulty: does not hold the object while flushing it.                     *)
ClaimWithoutReference(th, t) ==
    LET o == target[t]
        k == Kind(o)
    IN  /\ At(th, t, "claim")
        /\ \/ /\ flag[th][k]
              /\ pending' = [pending EXCEPT ![th][k] = Append(@, o)]
              /\ Return(th, t, "returnedTrue")
              /\ UNCHANGED <<flag, cur>>
           \/ /\ ~flag[th][k]
              /\ flag' = [flag EXCEPT ![th][k] = TRUE]
              /\ cur' = [cur EXCEPT ![t] = o]
              /\ Goto(t, "pop")
              /\ UNCHANGED pending
        /\ UNCHANGED <<objVars, refs, owned, target, won, run, done>>

(* Faulty: inside another flush, returns without queueing the object up.   *)
ClaimAndForget(th, t) ==
    LET o == target[t]
        k == Kind(o)
    IN  /\ At(th, t, "claim")
        /\ refs' = AddRef(refs, o)
        /\ \/ flag[th][k] /\ Return(th, t, "returnedTrue") /\ UNCHANGED <<flag, cur>>
           \/ /\ ~flag[th][k]
              /\ flag' = [flag EXCEPT ![th][k] = TRUE]
              /\ cur' = [cur EXCEPT ![t] = o]
              /\ Goto(t, "pop")
        /\ UNCHANGED <<objVars, pending, owned, target, won, run, done>>

(* This thread is the consumer: take a reference, then flush or queue up.  *)
Claim(th, t) ==
    LET o == target[t]
        k == Kind(o)
    IN  /\ At(th, t, "claim")
        /\ refs' = AddRef(refs, o)
        /\ \/ /\ flag[th][k]
              /\ pending' = [pending EXCEPT ![th][k] = Append(@, o)]
              /\ Return(th, t, "returnedTrue")
              /\ UNCHANGED <<flag, cur>>
           \/ /\ ~flag[th][k]
              /\ flag' = [flag EXCEPT ![th][k] = TRUE]
              /\ cur' = [cur EXCEPT ![t] = o]
              /\ Goto(t, "pop")
              /\ UNCHANGED pending
        /\ UNCHANGED <<objVars, owned, target, won, run, done>>

(* Flush: Pop answers the oldest task and it starts to run.                *)
Pop(th, t) ==
    LET o == cur[t]
    IN  /\ At(th, t, "pop")
        /\ queue[o] # <<>> /\ pc[Head(queue[o])] # "link"
        /\ run' = [run EXCEPT ![t] = Head(queue[o])]
        /\ queue' = [queue EXCEPT ![o] = Tail(@)]
        /\ Goto(t, "run")
        /\ UNCHANGED <<count, refs, owned, threadVars, target, won, cur, done>>

(* The task returns and is released, with its reference to the object.     *)
FinishTask(th, t) ==
    /\ At(th, t, "run")
    /\ done' = done \cup {run[t]}
    /\ refs' = DropRef(refs, cur[t])
    /\ Goto(t, "decrement")
    /\ UNCHANGED <<objVars, owned, threadVars, target, won, cur, run>>

(* RemainingTasksCount.decrement(): Flush ends if this was the last task.  *)
Decrement(th, t) ==
    LET o == cur[t]
    IN  /\ At(th, t, "decrement")
        /\ count' = [count EXCEPT ![o] = @ - 1]
        /\ \/ count[o] # 1 /\ Goto(t, "pop")
           \/ count[o] = 1 /\ Goto(t, "flushed")
        /\ UNCHANGED <<queue, refs, owned, threadVars, target, won, cur, run, done>>

(* Faulty: keeps the reference to every pending object it flushed.         *)
EndFlushLeaks(th, t) ==
    LET k == Kind(target[t])
    IN  /\ At(th, t, "flushed")
        /\ won' = [won EXCEPT ![t] = FALSE]
        /\ \/ /\ pending[th][k] # <<>>
              /\ cur' = [cur EXCEPT ![t] = Head(pending[th][k])]
              /\ pending' = [pending EXCEPT ![th][k] = Tail(@)]
              /\ Goto(t, "pop")
              /\ UNCHANGED <<flag, refs>>
           \/ /\ pending[th][k] = <<>>
              /\ refs' = DropRef(refs, target[t])
              /\ flag' = [flag EXCEPT ![th][k] = FALSE]
              /\ Return(th, t, "returnedTrue")
              /\ UNCHANGED <<cur, pending>>
        /\ UNCHANGED <<objVars, owned, target, run, done>>

(***************************************************************************)
(* After a Flush: the reference to a pending object is dropped at once     *)
(* (won[t] is the mark of the first Flush, that of the call's own object), *)
(* then the next pending object is flushed or the call ends.               *)
(***************************************************************************)
EndFlush(th, t) ==
    LET k    == Kind(target[t])
        rest == IF won[t] THEN refs ELSE DropRef(refs, cur[t])
    IN  /\ At(th, t, "flushed")
        /\ won' = [won EXCEPT ![t] = FALSE]
        /\ \/ /\ pending[th][k] # <<>>
              /\ refs' = rest
              /\ cur' = [cur EXCEPT ![t] = Head(pending[th][k])]
              /\ pending' = [pending EXCEPT ![th][k] = Tail(@)]
              /\ Goto(t, "pop")
              /\ UNCHANGED flag
           \/ /\ pending[th][k] = <<>>
              /\ refs' = DropRef(rest, target[t])
              /\ flag' = [flag EXCEPT ![th][k] = FALSE]
              /\ Return(th, t, "returnedTrue")
              /\ UNCHANGED <<cur, pending>>
        /\ UNCHANGED <<objVars, owned, target, run, done>>

Step(th, t) ==
    \/ Increment(th, t) \/ PushSwap(th, t) \/ PushLink(th, t) \/ Claim(th, t)
    \/ Pop(th, t) \/ FinishTask(th, t) \/ Decrement(th, t) \/ EndFlush(th, t)

Next ==
    \/ \E th \in Threads, t \in Tasks :
          \/ Step(th, t)
          \/ DispatchDelayed(th, t)
          \/ \E o \in Objects : DoAsync(th, t, o) \/ DoAsyncAfter(th, t, o)
    \/ \E o \in Objects : Disown(o)

Spec == Init /\ [][Next]_vars

(***************************************************************************)
(* Threads run and their tasks return; every worker comes back to its run  *)
(* loop, where it dispatches the delayed tasks that are due.  Nobody has   *)
(* to issue a task or to drop a reference.                                 *)
(***************************************************************************)
Fairness ==
    /\ \A th \in Threads : WF_vars(\E t \in Tasks : Step(th, t))
    /\ WF_vars(\E th \in Threads, t \in Tasks : DispatchDelayed(th, t))

FairSpec == Spec /\ Fairness
-----------------------------------------------------------------------------
FlushPcs == {"pop", "run", "decrement", "flushed"}
Pcs == FlushPcs \cup {"new", "delayed", "increment", "swap", "link", "claim",
                      "returnedFalse", "returnedTrue"}

(* The AOD guarantee: two calls never flush one object at the same time,   *)
(* on two threads or nested on one, so a task has its object to itself.    *)
OneConsumer ==
    \A t, u \in Tasks :
        /\ t # u
        /\ pc[t] \in {"pop", "run", "decrement"}
        /\ pc[u] \in {"pop", "run", "decrement"}
        => cur[t] # cur[u]

(***************************************************************************)
(* Why: an object with a counter above zero has at most one consumer, which*)
(* is a call that won the election and has not claimed it yet, a place in  *)
(* a pending list, or a call that is flushing it; with the counter at zero *)
(* it has none, so the next increment elects the only one.                 *)
(***************************************************************************)
Elected(t)  == pc[t] = "claim" \/ (pc[t] \in {"swap", "link"} /\ won[t])
Flushing(t) == pc[t] \in {"pop", "run", "decrement"}
Places(th, k) == 1 .. Len(pending[th][k])

Typed ==
    /\ count \in [Objects -> Nat]
    /\ queue \in [Objects -> Seq(Tasks)]
    /\ flag \in [Threads -> [Kinds -> BOOLEAN]]
    /\ pending \in [Threads -> [Kinds -> Seq(Objects)]]
    /\ stack \in [Threads -> Seq(Tasks)]
    /\ pc \in [Tasks -> Pcs]
    /\ target \in [Tasks -> Objects \cup {None}]
    /\ won \in [Tasks -> BOOLEAN]
    /\ cur \in [Tasks -> Objects \cup {None}]
    /\ \A t \in Tasks : pc[t] # "new" => target[t] \in Objects
    /\ \A t \in Tasks : pc[t] \in FlushPcs => cur[t] \in Objects

BusyInv ==
    /\ \A t \in Tasks : Elected(t) => count[target[t]] > 0
    /\ \A t \in Tasks : Flushing(t) => count[cur[t]] > 0
    /\ \A th \in Threads, k \in Kinds : \A i \in Places(th, k) :
          count[pending[th][k][i]] > 0

CallsInv ==
    /\ \A t, u \in Tasks : t # u /\ Elected(t) /\ Elected(u) => target[t] # target[u]
    /\ \A t, u \in Tasks : Elected(t) /\ Flushing(u) => target[t] # cur[u]
    /\ \A t, u \in Tasks : t # u /\ Flushing(t) /\ Flushing(u) => cur[t] # cur[u]

ListsInv ==
    /\ \A th \in Threads, k \in Kinds : \A i \in Places(th, k) : \A t \in Tasks :
          /\ Elected(t) => target[t] # pending[th][k][i]
          /\ Flushing(t) => cur[t] # pending[th][k][i]
    /\ \A th1, th2 \in Threads, k1, k2 \in Kinds :
          \A i \in Places(th1, k1), j \in Places(th2, k2) :
              pending[th1][k1][i] = pending[th2][k2][j] => th1 = th2 /\ k1 = k2 /\ i = j

ConsumerInv == Typed /\ BusyInv /\ CallsInv /\ ListsInv

(* An object outlives every access to it: while a task of it waits, while  *)
(* a call is anywhere between its reference and its last step, and while   *)
(* it waits in a pending list.                                             *)
NoUseAfterFree ==
    /\ refs \in [Objects -> Nat]
    /\ \A t \in Tasks :
          /\ pc[t] \in {"delayed", "increment", "swap", "link", "claim"} => refs[target[t]] > 0
          /\ pc[t] \in FlushPcs => refs[cur[t]] > 0 /\ refs[target[t]] > 0
    /\ \A th \in Threads, k \in Kinds : \A i \in DOMAIN pending[th][k] :
          refs[pending[th][k][i]] > 0

(* When every thread is back in its loop nothing is left behind: no task   *)
(* waits in a queue nobody will flush, no flag stays set, and an object    *)
(* without owner has been freed (unless delayed tasks hold it).            *)
AllReturned ==
    (\A th \in Threads : Idle(th)) =>
        /\ \A o \in Objects : count[o] = 0 /\ queue[o] = <<>>
        /\ \A th \in Threads, k \in Kinds : ~flag[th][k] /\ pending[th][k] = <<>>
        /\ \A t \in Tasks : pc[t] \in {"new", "delayed"} \/ t \in done
        /\ \A o \in Objects :
              Counted(o) /\ ~owned[o] /\ (\A t \in Tasks : pc[t] = "delayed" => target[t] # o)
                  => refs[o] = 0

(* An object lives as long as it is used, and no longer.                   *)
ObjectLife == NoUseAfterFree /\ AllReturned

(* Each object runs its tasks one at a time, exactly once, in the order in *)
(* which they entered its queue.                                           *)
Runs(o, t)   == pc[t] = "run" /\ cur[t] = o
Serial == INSTANCE AODSerial WITH
    fresh   <- {t \in Tasks : pc[t] \in {"new", "delayed", "increment", "swap"}},
    line    <- queue,
    running <- [o \in Objects |-> IF \E t \in Tasks : Runs(o, t)
                                  THEN run[CHOOSE t \in Tasks : Runs(o, t)] ELSE None]
SerialExecution == Serial!Spec

(* What AOD_Object.h says of RExecutedSync, the status for a Dispatch that *)
(* returns true: the functor was dispatched in this call.  No run checks   *)
(* it: Dispatch also returns true for an object it only queued up.         *)
ExecutedSyncMeansExecuted == \A t \in Tasks : pc[t] = "returnedTrue" => t \in done

(* Every task given to DoAsync or DoAsyncAfter runs.                       *)
EveryTaskRuns == \A t \in Tasks : pc[t] # "new" ~> t \in done

(* An object nobody owns any more is freed once its tasks have run.        *)
UnownedIsFreed == \A o \in Objects : ~owned[o] ~> refs[o] = 0
=============================================================================
