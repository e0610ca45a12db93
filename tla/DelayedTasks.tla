---------------------------- MODULE DelayedTasks ----------------------------
(***************************************************************************)
(* Tasks that are to run later: DeferTask, ScheduleTask and DeferTaskAgain *)
(* of Task/Task.cpp, the two HandleTimerTasks functions of the run loop    *)
(* (Threading/WorkerGroup.cpp) and what is released when workers stop.     *)
(*                                                                         *)
(* A worker has an inbox that other threads push to (Worker::DelayedTasks, *)
(* the queue that module TaskQueue is about), and two thread local queues: *)
(* DelayedTasks, ordered by due time, and PendingDelayedTasks.  A step of  *)
(* a thread on its own queues is atomic.  Each task is one functor that is *)
(* deferred once and may then defer itself again.                          *)
(***************************************************************************)
EXTENDS DelayedQueues

VARIABLES
    refs,     \* refs[t]: the task's reference count
    pending,  \* pending[w]: ServerInstanceTLSContext::PendingDelayedTasks
    cur,      \* cur[w]: the task that w dispatches, or Null
    tick      \* tick[w]: tasks dispatched in this tick, in order

queues == <<inbox, delayed, pending>>
flow   == <<pc, at>>
vars == <<now, due, refs, inbox, delayed, pending, index, running, pc, at, cur, source, tick>>

Init ==
    /\ QueuesInit
    /\ refs = [t \in Tasks |-> 0]
    /\ pending = [w \in Workers |-> <<>>]
    /\ cur = [w \in Workers |-> Null]
    /\ tick = [w \in Workers |-> <<>>]

HandlesTimers(w) == GroupOf(w) \in Timers

Advance ==
    /\ now < MaxNow /\ now' = now + 1
    /\ UNCHANGED <<due, refs, queues, index, running, flow, cur, source, tick>>

(***************************************************************************)
(* Code of the user on worker w: a handler of the tick or of an IO task    *)
(* between two rounds, or the functor of the task being dispatched.        *)
(***************************************************************************)
InUserCode(w) == pc[w] = "loop" \/ cur[w] # Null

(* To a worker of a timer group.                                           *)
ScheduleTask(w, t) == Schedule(DeferredTasksHandlingGroups, w, t)

(* A task made without a delay is due at 0, at once.                       *)
DueTimes == {0} \cup {d \in {now + e : e \in Delays} : d <= MaxNow}

DeferTask(w, t) ==
    /\ InUserCode(w)
    /\ source[t] = Null /\ source' = [source EXCEPT ![t] = w]
    /\ refs' = [refs EXCEPT ![t] = 1]
    /\ \E d \in DueTimes : due' = [due EXCEPT ![t] = d]
    /\ IF HandlesTimers(w) THEN Keep(w, t) ELSE ScheduleTask(w, t)
    /\ UNCHANGED <<now, pending, running, flow, cur, tick>>

(* Faulty: the task goes straight to the queue that is being worked off.   *)
DeferTaskAgainAtOnce(w) ==
    LET t == cur[w]
    IN  /\ t # Null /\ refs[t] = 1
        /\ refs' = [refs EXCEPT ![t] = @ + 1]
        /\ \E d \in DueTimes \cup {due[t]} : due' = [due EXCEPT ![t] = d]
        /\ delayed' = [delayed EXCEPT ![w] = @ \cup {t}]
        /\ UNCHANGED <<now, inbox, pending, index, running, flow, cur, source, tick>>

(* DeferTaskAgain, by the functor of the task itself and at most once in a *)
(* dispatch, with a new delay or as due as it was.                         *)
DeferTaskAgain(w) ==
    LET t == cur[w]
    IN  /\ t # Null /\ refs[t] = 1
        /\ refs' = [refs EXCEPT ![t] = @ + 1]
        /\ \E d \in (DueTimes \ {0}) \cup {due[t]} : due' = [due EXCEPT ![t] = d]
        /\ pending' = [pending EXCEPT ![w] = Append(@, t)]
        /\ UNCHANGED <<now, inbox, delayed, index, running, flow, cur, source, tick>>

(***************************************************************************)
(* The part of the run loop that handles timer tasks.  Where all groups    *)
(* are active HandleTimerTasks_Local runs alone; elsewhere _Global first   *)
(* works off the inbox.                                                    *)
(***************************************************************************)
Idle(w) == cur[w] = Null

EnterGlobal(w) ==
    /\ pc[w] = "loop" /\ GroupOf(w) \in running /\ HandlesTimers(w) /\ ~AllActive
    /\ pc' = [pc EXCEPT ![w] = "inbox"]
    /\ at' = [at EXCEPT ![w] = now]
    /\ tick' = [tick EXCEPT ![w] = <<>>]
    /\ UNCHANGED <<now, due, refs, queues, index, running, cur, source>>

Dispatch(w, t) ==
    /\ cur' = [cur EXCEPT ![w] = t]
    /\ tick' = [tick EXCEPT ![w] = Append(@, t)]

(* Faulty: a task that is not due yet is dropped.                          *)
PopInboxDrops(w) ==
    /\ pc[w] = "inbox" /\ Idle(w) /\ inbox[w] # <<>>
    /\ inbox' = [inbox EXCEPT ![w] = Tail(@)]
    /\ \/ due[Head(inbox[w])] <= at[w] /\ Dispatch(w, Head(inbox[w]))
       \/ due[Head(inbox[w])] > at[w] /\ UNCHANGED <<cur, tick>>
    /\ UNCHANGED <<now, due, refs, delayed, pending, index, running, flow, source>>

PopInbox(w) ==
    LET t == Head(inbox[w])
    IN  /\ pc[w] = "inbox" /\ Idle(w) /\ inbox[w] # <<>>
        /\ inbox' = [inbox EXCEPT ![w] = Tail(@)]
        /\ \/ due[t] <= at[w] /\ Dispatch(w, t) /\ UNCHANGED delayed
           \/ due[t] > at[w] /\ delayed' = [delayed EXCEPT ![w] = @ \cup {t}]
                             /\ UNCHANGED <<cur, tick>>
        /\ UNCHANGED <<now, due, refs, pending, index, running, flow, source>>

(* Local: take the time, then move the tasks that deferred themselves.     *)
MovePending(w) ==
    /\ pc' = [pc EXCEPT ![w] = "delayed"]
    /\ at' = [at EXCEPT ![w] = now]
    /\ delayed' = [delayed EXCEPT ![w] = @ \cup Range(pending[w])]
    /\ pending' = [pending EXCEPT ![w] = <<>>]
    /\ UNCHANGED <<now, due, refs, inbox, index, running, cur, source>>

EnterLocal(w) ==
    /\ \/ /\ pc[w] = "loop" /\ GroupOf(w) \in running /\ HandlesTimers(w) /\ AllActive
          /\ tick' = [tick EXCEPT ![w] = <<>>]
       \/ /\ pc[w] = "inbox" /\ Idle(w) /\ inbox[w] = <<>>
          /\ UNCHANGED tick
    /\ MovePending(w)

(* Faulty: any task that is queued is taken for due.                       *)
RunTopEarly(w) ==
    /\ pc[w] = "delayed" /\ Idle(w)
    /\ \E t \in delayed[w] :
          /\ IsTop(w, t)
          /\ delayed' = [delayed EXCEPT ![w] = @ \ {t}]
          /\ Dispatch(w, t)
    /\ UNCHANGED <<now, due, refs, inbox, pending, index, running, flow, source>>

(* Faulty: the task is not popped before it is dispatched.                 *)
RunTopUnpopped(w) ==
    /\ pc[w] = "delayed" /\ Idle(w)
    /\ \E t \in delayed[w] : IsTop(w, t) /\ due[t] <= at[w] /\ Dispatch(w, t)
    /\ UNCHANGED <<now, due, refs, queues, index, running, flow, source>>

RunTop(w) ==
    /\ pc[w] = "delayed" /\ Idle(w)
    /\ \E t \in delayed[w] :
          /\ IsTop(w, t) /\ due[t] <= at[w]
          /\ delayed' = [delayed EXCEPT ![w] = @ \ {t}]
          /\ Dispatch(w, t)
    /\ UNCHANGED <<now, due, refs, inbox, pending, index, running, flow, source>>

(* The functor returns and Static_Reset drops the reference.               *)
EndDispatch(w) ==
    /\ cur[w] # Null
    /\ refs' = [refs EXCEPT ![cur[w]] = @ - 1]
    /\ cur' = [cur EXCEPT ![w] = Null]
    /\ UNCHANGED <<now, due, queues, index, running, flow, source, tick>>

EndLocal(w) ==
    /\ pc[w] = "delayed" /\ Idle(w) /\ \A t \in delayed[w] : due[t] > at[w]
    /\ pc' = [pc EXCEPT ![w] = "loop"]
    /\ UNCHANGED <<now, due, refs, queues, index, running, at, cur, source, tick>>

(***************************************************************************)
(* The end: a group is told to stop, its workers leave their loops, each   *)
(* destroys its ServerInstanceTLSContext, whose Clear releases DelayedTasks*)
(* and not PendingDelayedTasks, and when all are past the shutdown latch   *)
(* Worker::Join clears the inboxes.                                        *)
(***************************************************************************)
StopGroup(g) ==
    /\ g \in running /\ running' = running \ {g}
    /\ UNCHANGED <<now, due, refs, queues, index, flow, cur, source, tick>>

Unreference(lost) == refs' = [t \in Tasks |-> IF t \in lost THEN refs[t] - 1 ELSE refs[t]]

StopWorker(w) ==
    /\ pc[w] = "loop" /\ GroupOf(w) \notin running
    /\ pc' = [pc EXCEPT ![w] = "stopped"]
    /\ Unreference(delayed[w])
    /\ delayed' = [delayed EXCEPT ![w] = {}]
    /\ UNCHANGED <<now, due, inbox, pending, index, running, at, cur, source, tick>>

Join(w) ==
    /\ \A v \in Workers : pc[v] \in {"stopped", "joined"}
    /\ pc[w] = "stopped" /\ pc' = [pc EXCEPT ![w] = "joined"]
    /\ Unreference(Range(inbox[w]))
    /\ inbox' = [inbox EXCEPT ![w] = <<>>]
    /\ UNCHANGED <<now, due, delayed, pending, index, running, at, cur, source, tick>>

Handle(w) ==
    \/ EnterGlobal(w) \/ PopInbox(w) \/ EnterLocal(w) \/ RunTop(w) \/ EndDispatch(w) \/ EndLocal(w)

Next ==
    \/ Advance
    \/ \E w \in Workers :
          \/ \E t \in Tasks : DeferTask(w, t)
          \/ DeferTaskAgain(w) \/ Handle(w) \/ StopWorker(w) \/ Join(w)
    \/ \E g \in AllGroups : StopGroup(g)

Spec == Init /\ [][Next]_vars

(* Time passes and a worker keeps going round its loop; a functor returns. *)
FairSpec ==
    /\ Spec
    /\ WF_vars(Advance)
    /\ \A w \in Workers : WF_vars(Handle(w))
-----------------------------------------------------------------------------
TypeOK ==
    /\ QueuesTypeOK
    /\ refs \in [Tasks -> 0 .. 2]
    /\ pending \in [Workers -> Seq(Tasks)]
    /\ cur \in [Workers -> Tasks \cup {Null}]
    /\ tick \in [Workers -> Seq(Tasks)]

Times(s, t)   == Cardinality({i \in DOMAIN s : s[i] = t})
Waiting(t)    == \E w \in Workers : t \in Range(inbox[w]) \cup delayed[w] \cup Range(pending[w])
Dispatched(t) == \E w \in Workers : cur[w] = t

(* A task's reference count is the number of places that hold it: queues   *)
(* and the dispatch of a worker, each once.                                *)
Holders(t) ==
    {h \in Workers \X {"inbox", "delayed", "pending", "cur"} :
        \/ h[2] = "inbox"   /\ t \in Range(inbox[h[1]])
        \/ h[2] = "delayed" /\ t \in delayed[h[1]]
        \/ h[2] = "pending" /\ t \in Range(pending[h[1]])
        \/ h[2] = "cur"     /\ cur[h[1]] = t}

RefsExact ==
    \A t \in Tasks :
        /\ refs[t] = Cardinality(Holders(t))
        /\ \A w \in Workers : Times(inbox[w], t) <= 1 /\ Times(pending[w], t) <= 1

(* One tick dispatches a task once, and once more only if it came from the *)
(* inbox, was due there and deferred itself again: a task that keeps       *)
(* deferring itself does not keep the worker from the rest of its loop.    *)
NoTaskHogsTheTick ==
    \A w \in Workers, t \in Tasks :
        /\ Times(tick[w], t) <= IF AllActive THEN 1 ELSE 2
        /\ Times(tick[w], t) = 2 => source[t] \in Workers /\ ~HandlesTimers(source[t])

(* What is still allocated when all workers are joined is what had         *)
(* deferred itself in the last tick of a worker.                           *)
OnlyPendingLeaks ==
    (\A w \in Workers : pc[w] = "joined") =>
        \A t \in Tasks : refs[t] > 0 => \E w \in Workers : t \in Range(pending[w])

(* References are exact, to the end; with the types of the variables.      *)
RefsInv == TypeOK /\ RefsExact /\ OnlyPendingLeaks

(* The assertion at Task.cpp:48: the group that a task is scheduled to has *)
(* a worker that is running.  No run checks it: that group may have been   *)
(* stopped first.                                                          *)
TargetIsRunning ==
    \A w \in Workers :
        InUserCode(w) /\ ~HandlesTimers(w) =>
            LET g == TargetGroup(DeferredTasksHandlingGroups, index[w][1])
            IN  \E v \in TeamOf(g) : pc[v] \notin {"stopped", "joined"}

(* A deferred task is some day dispatched, unless a group is stopped.      *)
Processed == \A t \in Tasks : Waiting(t) ~> Dispatched(t) \/ running # AllGroups

(* Seen from outside, deferring is a promise about single dispatches.      *)
Timer == INSTANCE DeferredExecution WITH
    waiting  <- {t \in Tasks : Waiting(t)},
    busy     <- {t \in Tasks : Dispatched(t)},
    made     <- {t \in Tasks : source[t] # Null},
    stopping <- \E w \in Workers : pc[w] \in {"stopped", "joined"}
KeepsPromise == Timer!Spec
=============================================================================
