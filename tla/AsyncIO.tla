------------------------------- MODULE AsyncIO -------------------------------
(***************************************************************************)
(* The run loops of a worker group (WorkerGroupRunVariants.h), the         *)
(* completion port that they wait at (AsyncIO), and the tasks that they    *)
(* run: deferred through the port (WorkerGroup::Defer) or through the      *)
(* queue of a worker (DeferGeneral).  The handlers of delayed tasks have   *)
(* modules of their own; here they are part of the tick.                   *)
(***************************************************************************)
EXTENDS Integers, Sequences, FiniteSets

CONSTANTS Workers,             \* the threads of the group
          Main, Starter,       \* two others: one stops, one starts acceptors
          Deferred, General,   \* tasks for the port, tasks for the queues
          Repeating,           \* those that defer themselves again when they run
          Variants,            \* the kinds of group to consider
          BatchSize,           \* CMaxAsyncRequestsToDequeuePerTick
          Throttle             \* CMaxExecuteTasksCountPerFrame

ASSUME AsyncIOAssumption ==
    /\ Main # Starter /\ {Main, Starter} \cap Workers = {}
    /\ Repeating \subseteq Deferred \cup General
    /\ Variants \subseteq {"active", "reactiveSync", "reactive"}
    /\ BatchSize \in Nat \ {0} /\ Throttle \in Nat \ {0}

VARIABLES
    variant,   \* active; reactive with TLS synchronisation; reactive
    running,   \* bIsRunning of the group
    port,      \* QueueHandle is open
    queue,     \* completed requests and deferred tasks in the port
    batch,     \* batch[w]: those that w has dequeued and not handled yet
    general,   \* general[w]: Worker.Tasks
    handled,   \* handled[w]: general tasks that w ran in this round
    fate,      \* fate[t]: "new", "queued", "done" or "lost"
    pc

portVars == <<port, queue, batch>>
taskVars == <<general, handled, fate>>
loopVars == <<variant, running, portVars, taskVars, pc>>

Tasks      == Deferred \cup General
Threads    == Workers \cup {Main, Starter}
Goto(t, l) == pc' = [pc EXCEPT ![t] = l]

(* A reactive group without synchronisation waits for ever.                *)
TimesOut   == variant # "reactive"
AfterIO    == IF variant = "active" THEN "general" ELSE "tick"

LoopInit ==
    /\ variant \in Variants
    /\ running = TRUE /\ port = TRUE
    /\ queue = <<>>
    /\ batch = [w \in Workers |-> <<>>]
    /\ general = [w \in Workers |-> <<>>]
    /\ handled = [w \in Workers |-> 0]
    /\ fate = [t \in Tasks |-> "new"]
    /\ pc = [t \in Threads |-> IF t \in Workers THEN "loop" ELSE "idle"]

(***************************************************************************)
(* Scheduling, by any thread.                                              *)
(***************************************************************************)
(* A task that cannot be queued is not released either.                    *)
Defer(t) ==
    /\ fate[t] = "new"
    /\ \/ port  /\ queue' = Append(queue, t) /\ fate' = [fate EXCEPT ![t] = "queued"]
       \/ ~port /\ fate' = [fate EXCEPT ![t] = "lost"] /\ UNCHANGED queue
    /\ UNCHANGED <<variant, running, port, batch, general, handled, pc>>

(* Every calling thread goes round the workers by itself, so it may be the *)
(* turn of any of them.  Only active groups handle the queues.             *)
DeferGeneral(t) ==
    /\ variant = "active" /\ fate[t] = "new"
    /\ \E w \in Workers : general' = [general EXCEPT ![w] = Append(@, t)]
    /\ fate' = [fate EXCEPT ![t] = "queued"]
    /\ UNCHANGED <<variant, running, portVars, handled, pc>>

(***************************************************************************)
(* The loops.                                                              *)
(***************************************************************************)
Loop(w) ==
    /\ pc[w] = "loop"
    /\ Goto(w, IF running THEN "wait" ELSE "left")
    /\ UNCHANGED <<variant, running, portVars, taskVars>>

Dequeue(w) ==
    LET n == IF Len(queue) < BatchSize THEN Len(queue) ELSE BatchSize
    IN  /\ pc[w] = "wait" /\ port /\ n > 0
        /\ batch' = [batch EXCEPT ![w] = SubSeq(queue, 1, n)]
        /\ queue' = SubSeq(queue, n + 1, Len(queue))
        /\ Goto(w, "dispatch")
        /\ UNCHANGED <<variant, running, port, taskVars>>

(* TryGetMultipleCompletedAsyncRequest returns RTimeout.                   *)
Timeout(w) ==
    /\ pc[w] = "wait" /\ port /\ queue = <<>> /\ TimesOut
    /\ Goto(w, AfterIO)
    /\ UNCHANGED <<variant, running, portVars, taskVars>>

(* RSystemFailure, when the handle was closed, ends the loop.              *)
SystemFailure(w) ==
    /\ pc[w] = "wait" /\ ~port
    /\ Goto(w, "left")
    /\ UNCHANGED <<variant, running, portVars, taskVars>>

(* Faulty: a stop makes the worker drop what it has dequeued.              *)
HandledIfRunning(w) ==
    /\ batch' = [batch EXCEPT ![w] = IF running THEN Tail(@) ELSE <<>>]
    /\ Goto(w, IF ~running \/ Len(batch[w]) = 1 THEN AfterIO ELSE "dispatch")

(* What follows the handling of the first of the dequeued items.           *)
Handled(w) ==
    /\ batch' = [batch EXCEPT ![w] = Tail(@)]
    /\ Goto(w, IF Len(batch[w]) = 1 THEN AfterIO ELSE "dispatch")

(* A deferred task is dispatched, where it may be deferred again, and      *)
(* released.                                                               *)
HandleTask(w) ==
    LET t == Head(batch[w])
    IN  /\ pc[w] = "dispatch" /\ t \in Deferred
        /\ queue' = IF t \in Repeating /\ port THEN Append(queue, t) ELSE queue
        /\ fate' = [fate EXCEPT ![t] = IF t \notin Repeating THEN "done"
                                      ELSE IF port THEN "queued" ELSE "lost"]
        /\ Handled(w)
        /\ UNCHANGED <<variant, running, port, general, handled>>

(* Faulty: tasks are run until there is none.                              *)
HandleGeneralTasks(w) ==
    /\ pc[w] = "general"
    /\ \/ /\ general[w] = <<>>
          /\ Goto(w, "tick") /\ UNCHANGED <<general, fate>>
       \/ LET t    == Head(general[w])
              left == [general EXCEPT ![w] = Tail(@)]
          IN  /\ general[w] # <<>>
              /\ IF t \in Repeating
                 THEN \E u \in Workers : general' = [left EXCEPT ![u] = Append(@, t)]
                 ELSE general' = left
              /\ fate' = [fate EXCEPT ![t] = IF t \in Repeating THEN @ ELSE "done"]
              /\ UNCHANGED pc
    /\ UNCHANGED <<variant, running, portVars, handled>>

(* One task of HandleGeneralTasksWithThrottle, or the end of the round.    *)
HandleGeneralTasksWithThrottle(w) ==
    /\ pc[w] = "general"
    /\ \/ /\ general[w] = <<>> \/ handled[w] = Throttle
          /\ handled' = [handled EXCEPT ![w] = 0]
          /\ Goto(w, "tick") /\ UNCHANGED <<general, fate>>
       \/ LET t    == Head(general[w])
              left == [general EXCEPT ![w] = Tail(@)]
          IN  /\ general[w] # <<>> /\ handled[w] < Throttle
              /\ IF t \in Repeating
                 THEN \E u \in Workers : general' = [left EXCEPT ![u] = Append(@, t)]
                 ELSE general' = left
              /\ fate' = [fate EXCEPT ![t] = IF t \in Repeating THEN @ ELSE "done"]
              /\ handled' = [handled EXCEPT ![w] = @ + 1]
              /\ UNCHANGED pc
    /\ UNCHANGED <<variant, running, portVars>>

(* Timer and AOD tasks, TLS synchronisation, OnWorkerTick.                 *)
Tick(w) ==
    /\ pc[w] = "tick"
    /\ Goto(w, "loop")
    /\ UNCHANGED <<variant, running, portVars, taskVars>>

WorkerStep(w) ==
    \/ Loop(w) \/ Dequeue(w) \/ Timeout(w) \/ SystemFailure(w)
    \/ HandleTask(w) \/ HandleGeneralTasksWithThrottle(w) \/ Tick(w)

(***************************************************************************)
(* WorkerGroup::SignalToStop: the flag, the acceptors, the port.           *)
(***************************************************************************)
SignalToStop(next) ==
    /\ pc[Main] = "idle" /\ running
    /\ running' = FALSE
    /\ Goto(Main, next)
    /\ UNCHANGED <<variant, portVars, taskVars>>

(* Faulty: the stop only wakes one of the workers that wait, and leaves    *)
(* the port open.                                                          *)
StopAsyncIOWakeOne ==
    /\ pc[Main] = "closePort"
    /\ \E w \in Workers : pc' = [pc EXCEPT ![Main] = "stopped",
                                          ![w] = IF @ = "wait" THEN "left" ELSE @]
    /\ UNCHANGED <<variant, running, portVars, taskVars>>

StopAsyncIO ==
    /\ pc[Main] = "closePort"
    /\ port' = FALSE /\ queue' = <<>>
    /\ fate' = [t \in Tasks |->
                  IF \E i \in 1 .. Len(queue) : queue[i] = t THEN "lost" ELSE fate[t]]
    /\ Goto(Main, "stopped")
    /\ UNCHANGED <<variant, running, batch, general, handled>>

LoopNext ==
    \/ \E t \in Deferred : Defer(t)
    \/ \E t \in General : DeferGeneral(t)
    \/ \E w \in Workers : WorkerStep(w)
    \/ SignalToStop("closePort") \/ StopAsyncIO

(* Workers and a stop that has begun go on; a stop need not come.          *)
LoopSpec ==
    /\ LoopInit /\ [][LoopNext]_loopVars
    /\ \A w \in Workers : WF_loopVars(WorkerStep(w))
    /\ WF_loopVars(StopAsyncIO)
-----------------------------------------------------------------------------
(* The queues: the port, what a worker has dequeued, Worker.Tasks.         *)
Places == {<<"port", Main>>} \cup ({"batch", "general"} \X Workers)
At(p)  == IF p[1] = "port" THEN queue ELSE IF p[1] = "batch" THEN batch[p[2]] ELSE general[p[2]]

(* A task that was deferred and was not run yet is in one queue, once, so  *)
(* that nobody runs a released task or one that another worker runs; only  *)
(* the closed port loses tasks, none of those that a worker has dequeued;  *)
(* and no worker leaves its loop with tasks in hand.                       *)
TasksInOneQueue ==
    /\ \A t \in Tasks : fate[t] = "queued" <=> \E p \in Places : \E i \in 1 .. Len(At(p)) : At(p)[i] = t
    /\ \A p, q \in Places : \A i \in 1 .. Len(At(p)), j \in 1 .. Len(At(q)) :
          At(p)[i] = At(q)[j] => p = q /\ i = j
    /\ \A t \in Tasks : fate[t] = "lost" => ~port
    /\ ~port => queue = <<>>
    /\ \A w \in Workers : pc[w] = "left" => batch[w] = <<>>

(* Every task is handled, although others always come back, unless the     *)
(* stop comes first: a task in the port is lost when that is closed, but   *)
(* none that a worker has taken out; one in a worker's queue stays there.  *)
EveryTaskHandled ==
    /\ \A t \in Deferred \ Repeating : fate[t] = "queued" ~> fate[t] \in {"done", "lost"}
    /\ \A t \in General \ Repeating : fate[t] = "queued" ~> (fate[t] = "done" \/ ~running)

(* However many tasks come, the loop comes round to its tick, where the    *)
(* timers and the synchronisation are: in a group that is active or waits  *)
(* with a timeout.  And a stop ends every worker, also one that waits      *)
(* without a timeout.                                                      *)
KeepsTicking ==
    TimesOut => \A w \in Workers : [](running => <>(pc[w] = "tick" \/ ~running))
StopEndsLoops ==
    \A w \in Workers : ~running ~> pc[w] = "left"
LoopsGoOn == KeepsTicking /\ StopEndsLoops
=============================================================================
