----------------------------- MODULE AODDelayed -----------------------------
(***************************************************************************)
(* Tasks of asynchronous objects that are to run later: DelayTask and      *)
(* ScheduleTask of AOD/AOD_Object.cpp, the lists of AOD/AOD_TLS.cpp and    *)
(* the two HandleAODDelayedTasks functions of Threading/WorkerGroup.cpp.   *)
(* The code for Shared, Custom and Static objects is the same but for the  *)
(* types; this is one of them.  Handing a due task to its object is one    *)
(* step here: what the object does with it is in module AODObject.  AOD     *)
(* before a name of DelayedTasks: the same for these tasks.                *)
(***************************************************************************)
EXTENDS DelayedQueues

VARIABLES
    sent,     \* sent[t]: times that t was handed to its object
    freed     \* freed[t]: times that t was released without being handed over

clock     == <<now, due, source>>
aodQueues == <<inbox, delayed>>
fates     == <<sent, freed>>
aodVars   == <<now, due, source, inbox, delayed, index, running, pc, at, sent, freed>>

AODInit ==
    /\ QueuesInit
    /\ sent = [t \in Tasks |-> 0]
    /\ freed = [t \in Tasks |-> 0]

AODAdvance ==
    /\ now < MaxNow /\ now' = now + 1
    /\ UNCHANGED <<due, source, aodQueues, index, running, pc, at, fates>>

(* AODTLSContext::Reset copies the server's list for timer tasks, not the  *)
(* one for AOD tasks.                                                      *)
DeferredAODGroups == DeferredTasksHandlingGroups

AODScheduleTask(w, t) == Schedule(DeferredAODGroups, w, t)

(* Faulty: every task is handed to another worker.                         *)
DelayTaskAway(w, t) ==
    /\ pc[w] \notin {"stopped", "joined"}
    /\ source[t] = Null /\ source' = [source EXCEPT ![t] = w]
    /\ \E d \in Delays : now + d <= MaxNow /\ due' = [due EXCEPT ![t] = now + d]
    /\ AODScheduleTask(w, t)
    /\ UNCHANGED <<now, running, pc, at, fates>>

(* DoAsyncAfter and DelayTask on worker w, in any code of the user that w  *)
(* runs in its loop.  bScheduleAODDelayedTasks is set in groups that are   *)
(* not active.                                                             *)
DelayTask(w, t) ==
    /\ pc[w] \notin {"stopped", "joined"}
    /\ source[t] = Null /\ source' = [source EXCEPT ![t] = w]
    /\ \E d \in Delays : now + d <= MaxNow /\ due' = [due EXCEPT ![t] = now + d]
    /\ IF GroupOf(w) \in Active THEN Keep(w, t) ELSE AODScheduleTask(w, t)
    /\ UNCHANGED <<now, running, pc, at, fates>>

(* The part of the run loop that handles AOD tasks.                        *)
AODEnterGlobal(w) ==
    /\ pc[w] = "loop" /\ GroupOf(w) \in running \cap Active \cap AODs /\ ~AllActive
    /\ pc' = [pc EXCEPT ![w] = "inbox"]
    /\ at' = [at EXCEPT ![w] = now]
    /\ UNCHANGED <<clock, aodQueues, index, running, fates>>

Send(t) == sent' = [sent EXCEPT ![t] = @ + 1]

(* Faulty: a task that is not due yet is dropped.                          *)
AODPopInboxDrops(w) ==
    /\ pc[w] = "inbox" /\ inbox[w] # <<>>
    /\ inbox' = [inbox EXCEPT ![w] = Tail(@)]
    /\ IF due[Head(inbox[w])] <= at[w] THEN Send(Head(inbox[w])) ELSE UNCHANGED sent
    /\ UNCHANGED <<clock, delayed, index, running, pc, at, freed>>

AODPopInbox(w) ==
    LET t == Head(inbox[w])
    IN  /\ pc[w] = "inbox" /\ inbox[w] # <<>>
        /\ inbox' = [inbox EXCEPT ![w] = Tail(@)]
        /\ \/ due[t] <= at[w] /\ Send(t) /\ UNCHANGED delayed
           \/ due[t] > at[w] /\ delayed' = [delayed EXCEPT ![w] = @ \cup {t}]
                             /\ UNCHANGED sent
        /\ UNCHANGED <<clock, index, running, pc, at, freed>>

AODEnterLocal(w) ==
    /\ \/ pc[w] = "loop" /\ GroupOf(w) \in running \cap AODs /\ AllActive
       \/ pc[w] = "inbox" /\ inbox[w] = <<>>
    /\ pc' = [pc EXCEPT ![w] = "delayed"]
    /\ at' = [at EXCEPT ![w] = now]
    /\ UNCHANGED <<clock, aodQueues, index, running, fates>>

AODRunTop(w) ==
    /\ pc[w] = "delayed"
    /\ \E t \in delayed[w] :
          /\ IsTop(w, t) /\ due[t] <= at[w]
          /\ delayed' = [delayed EXCEPT ![w] = @ \ {t}]
          /\ Send(t)
    /\ UNCHANGED <<clock, inbox, index, running, pc, at, freed>>

AODEndLocal(w) ==
    /\ pc[w] = "delayed" /\ \A t \in delayed[w] : due[t] > at[w]
    /\ pc' = [pc EXCEPT ![w] = "loop"]
    /\ UNCHANGED <<clock, aodQueues, index, running, at, fates>>

(* The end, as in module DelayedTasks: AODTLSContext::Clear releases what  *)
(* is in the thread's queue, Worker::Join what is in the inbox.               *)
AODStopGroup(g) ==
    /\ g \in running /\ running' = running \ {g}
    /\ UNCHANGED <<clock, aodQueues, index, pc, at, fates>>

Free(lost) == freed' = [t \in Tasks |-> IF t \in lost THEN freed[t] + 1 ELSE freed[t]]

AODStopWorker(w) ==
    /\ pc[w] = "loop" /\ GroupOf(w) \notin running
    /\ pc' = [pc EXCEPT ![w] = "stopped"]
    /\ Free(delayed[w])
    /\ delayed' = [delayed EXCEPT ![w] = {}]
    /\ UNCHANGED <<clock, inbox, index, running, at, sent>>

(* Faulty: the inbox is cleared when its worker stops, not when all have.  *)
JoinEarly(w) ==
    /\ pc[w] = "stopped" /\ pc' = [pc EXCEPT ![w] = "joined"]
    /\ Free(Range(inbox[w]))
    /\ inbox' = [inbox EXCEPT ![w] = <<>>]
    /\ UNCHANGED <<clock, delayed, index, running, at, sent>>

AODJoin(w) ==
    /\ \A v \in Workers : pc[v] \in {"stopped", "joined"}
    /\ pc[w] = "stopped" /\ pc' = [pc EXCEPT ![w] = "joined"]
    /\ Free(Range(inbox[w]))
    /\ inbox' = [inbox EXCEPT ![w] = <<>>]
    /\ UNCHANGED <<clock, delayed, index, running, at, sent>>

AODHandle(w) == AODEnterGlobal(w) \/ AODPopInbox(w) \/ AODEnterLocal(w) \/ AODRunTop(w) \/ AODEndLocal(w)

AODNext ==
    \/ AODAdvance
    \/ \E w \in Workers :
          \/ \E t \in Tasks : DelayTask(w, t)
          \/ AODHandle(w) \/ AODStopWorker(w) \/ AODJoin(w)
    \/ \E g \in AllGroups : AODStopGroup(g)

AODSpec == AODInit /\ [][AODNext]_aodVars

(* Time passes and a worker keeps going round its loop.                    *)
AODFairSpec ==
    /\ AODSpec
    /\ WF_aodVars(AODAdvance)
    /\ \A w \in Workers : WF_aodVars(AODHandle(w))
-----------------------------------------------------------------------------
AODTypeOK ==
    /\ QueuesTypeOK
    /\ sent \in [Tasks -> 0 .. 1]
    /\ freed \in [Tasks -> 0 .. 1]

(* The places of task t: in a worker's own queue, at 0, or in its inbox.   *)
Places(t) ==
    UNION {{w} \X {i \in 0 .. Len(inbox[w]) : IF i = 0 THEN t \in delayed[w] ELSE inbox[w][i] = t} : w \in Workers}

(* A delayed task is in one queue until it is handed to its object or      *)
(* released, one of the two and once, so that no task is lost, leaked or   *)
(* handed over twice; and when all are joined no task is left over.        *)
OneFate ==
    \A t \in Tasks :
        /\ Cardinality(Places(t)) + sent[t] + freed[t] = IF source[t] = Null THEN 0 ELSE 1
        /\ (\A w \in Workers : pc[w] = "joined") => Places(t) = {}

(* No task is handed over before it is due.                                *)
NotEarly == \A t \in Tasks : sent[t] > 0 => due[t] <= now

(* A task is in one place, or was sent on once and in time, or freed once; *)
(* with the types of the variables.                                        *)
FateInv == AODTypeOK /\ OneFate /\ NotEarly

(* "Workers in this group can use AOD delayed tasks directly (handled by   *)
(* the same thread)": the task of an active worker stays with it.          *)
SameThread ==
    \A t \in Tasks :
        source[t] # Null /\ GroupOf(source[t]) \in Active =>
            \A p \in Places(t) : p[1] = source[t] /\ p[2] = 0

(* The assertion at AOD_Object.cpp:54: a task is scheduled to a group that *)
(* supports AOD, so that somebody looks into the inbox it is in.  No run   *)
(* checks it: a timer group without AOD support is in the list as well.    *)
TargetSupportsAOD == \A w \in Workers : inbox[w] # <<>> => GroupOf(w) \in AODs

(* A delayed task of a server whose groups all support AOD where they are  *)
(* active is some day handed to its object, unless a group is stopped.     *)
AODProcessed == \A t \in Tasks : source[t] # Null ~> sent[t] = 1 \/ running # AllGroups
=============================================================================
