--------------------------- MODULE DelayedQueues ---------------------------
(***************************************************************************)
(* What timer tasks and delayed tasks of async objects have in common: the *)
(* clock, an inbox for each worker that other threads push to, a queue of  *)
(* its own ordered by due time, and the choice of the inbox.  Each kind    *)
(* has queues of its own in the code; a module is about one of them.       *)
(***************************************************************************)
EXTENDS WorkerGroups

CONSTANTS Tasks,     \* tasks, each allocated and first delayed once
          Delays,    \* the delays that callers ask for
          MaxNow,    \* bound on the system tick count
          Null       \* nullptr

ASSUME ClockAssumption == MaxNow \in Nat /\ Delays \subseteq Nat /\ Null \notin Tasks \cup Workers

VARIABLES
    now,      \* GetSystemUpTickCount
    due,      \* due[t]: the task's due time
    source,   \* source[t]: the worker that delayed t, or Null
    inbox,    \* inbox[w]: the queue in the Worker object
    delayed,  \* delayed[w]: the priority queue in a thread local context
    index,    \* index[w]: RRLastIndex and RRLastIndex2 of that context
    running,  \* groups whose bIsRunning is set
    pc,       \* pc[w]: where worker w is
    at        \* at[w]: the local Now of the function that w is in

QueuesInit ==
    /\ now = 0
    /\ due = [t \in Tasks |-> 0]
    /\ source = [t \in Tasks |-> Null]
    /\ inbox = [w \in Workers |-> <<>>]
    /\ delayed = [w \in Workers |-> {}]
    /\ index = [w \in Workers |-> <<0, 0>>]
    /\ running = AllGroups
    /\ pc = [w \in Workers |-> "loop"]
    /\ at = [w \in Workers |-> 0]

(* Both ScheduleTask functions push the task to the inbox of a worker of a *)
(* group in their list.                                                    *)
TargetOf(list, w) == TargetWorker(TargetGroup(list, index[w][1]), index[w][2])

Schedule(list, w, t) ==
    /\ list # <<>>     \* an assertion; a division by zero otherwise
    /\ inbox' = [inbox EXCEPT ![TargetOf(list, w)] = Append(@, t)]
    /\ index' = [index EXCEPT ![w] = <<Following(@[1]), Following(@[2])>>]
    /\ UNCHANGED delayed

Keep(w, t) ==
    /\ delayed' = [delayed EXCEPT ![w] = @ \cup {t}]
    /\ UNCHANGED <<inbox, index>>

(* The order of the priority queue.                                        *)
IsTop(w, t) == t \in delayed[w] /\ \A u \in delayed[w] : due[t] <= due[u]

QueuesTypeOK ==
    /\ now \in 0 .. MaxNow
    /\ due \in [Tasks -> 0 .. MaxNow]
    /\ source \in [Tasks -> Workers \cup {Null}]
    /\ inbox \in [Workers -> Seq(Tasks)]
    /\ delayed \in [Workers -> SUBSET Tasks]
    /\ index \in [Workers -> (0 .. Wrap - 1) \X (0 .. Wrap - 1)]
    /\ running \in SUBSET AllGroups
    /\ pc \in [Workers -> {"loop", "inbox", "delayed", "stopped", "joined"}]
    /\ at \in [Workers -> 0 .. MaxNow]
=============================================================================
