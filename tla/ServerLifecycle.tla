--------------------------- MODULE ServerLifecycle ---------------------------
(***************************************************************************)
(* How a server instance starts and stops: Application/ServerInstance.cpp, *)
(* the life of a thread in Threading/Worker.cpp and the hooks of its group *)
(* in Threading/WorkerGroup.cpp.  The main thread starts the groups one    *)
(* after the other and then runs the master worker, if there is one.  Each *)
(* worker reports to its group and its server, meets all the others at a   *)
(* latch, runs until its group is told to stop, reports again and meets    *)
(* the others at a second latch.  SignalToStop, from any thread, stops the *)
(* services and then the groups.                                           *)
(*                                                                         *)
(* faults names the calls that may fail in a behaviour, and "earlyStop" if *)
(* the application may stop a server that is starting.  The counters are   *)
(* 32 bits wide in the code and wrap below zero; here they become negative.*)
(***************************************************************************)
EXTENDS Integers, Sequences, FiniteSets

CONSTANTS NumGroups,    \* the worker groups, started in the order 1 .. NumGroups
          Workers,      \* all the workers
          GroupOf,      \* the group of each worker
          NumServices,  \* the services, in the order of AllServices
          Settings,     \* pairs: what may go wrong, and the worker that runs on
                        \* the main thread, or None
          MaxSignals,   \* bound on the application's calls of SignalToStop
          None

Groups     == 1 .. NumGroups
Services   == 1 .. NumServices
Members(g) == {w \in Workers : GroupOf[w] = g}

ASSUME ServerAssumption ==
    /\ NumGroups \in Nat \ {0} /\ NumServices \in Nat /\ MaxSignals \in Nat
    /\ IsFiniteSet(Workers) /\ GroupOf \in [Workers -> Groups]
    /\ \A g \in Groups : Members(g) # {}
    /\ None \notin Workers
    /\ \A s \in Settings :
          /\ s[1] \subseteq {"beforeStart", "threadInit", "workerStart", "startHandler",
                "acceptor", "serverStart", "beforeStop", "stopHandler", "earlyStop"}
          /\ s[2] \in {w \in Workers : GroupOf[w] = NumGroups} \cup {None}

VARIABLES
    faults,          \* what may go wrong in this behaviour
    master,          \* the worker that runs on the main thread, or None
    main,            \* where the main thread is
    started,         \* how many groups it has started
    running,         \* ServerInstance::bIsRunning
    groupRunning,    \* groupRunning[g]: WorkerGroup::bIsRunning
    runningWorkers,  \* runningWorkers[g]: WorkerGroup::RunningWorkers
    activeGroups,    \* ActiveWorkerGroups
    totalRunning,    \* TotalNumberOfRunningWorkers
    servicesLeft,    \* TotalNumberOfInitServices
    startup,         \* arrivals that SyncWorkerStartup still expects
    shutdown,        \* arrivals that SyncWorkerShutdown still expects
    pc,              \* pc[w]: where worker w is
    ok,              \* ok[w]: what Group->OnWorkerStarted answered
    last,            \* last[w]: w was the last of its group to be counted
    service,         \* service[s]: "up", "pending" or "down"
    stop,            \* what SignalToStop is at: "idle", "services", "groups"
    stopAt,          \* the service or group it is at
    stopBy,          \* the worker that is inside SignalToStop, or None
    signals,         \* calls of SignalToStop by the application
    hooks            \* the server's hooks in the order of their calls (history)

counters   == <<runningWorkers, activeGroups, totalRunning, startup, shutdown>>
workerVars == <<pc, ok, last>>
mainVars   == <<faults, master, main, started>>
stopVars   == <<service, servicesLeft, stop, stopAt, stopBy>>
vars == <<mainVars, running, groupRunning, counters, workerVars, stopVars, signals, hooks>>

Init ==
    /\ \E s \in Settings : faults = s[1] /\ master = s[2]
    /\ main = "new" /\ started = 0 /\ running = FALSE
    /\ groupRunning = [g \in Groups |-> FALSE]
    /\ runningWorkers = [g \in Groups |-> 0]
    /\ activeGroups = 0 /\ totalRunning = 0
    /\ startup = Cardinality(Workers) /\ shutdown = Cardinality(Workers)
    /\ pc = [w \in Workers |-> "none"]
    /\ ok = [w \in Workers |-> FALSE] /\ last = [w \in Workers |-> FALSE]
    /\ service = [s \in Services |-> "up"] /\ servicesLeft = NumServices
    /\ stop = "idle" /\ stopAt = 1 /\ stopBy = None
    /\ signals = 0 /\ hooks = <<>>

Called(h) == \E i \in DOMAIN hooks : hooks[i] = h
Call(h)   == hooks' = Append(hooks, h)

(***************************************************************************)
(* The main thread: StartServer, then JoinAllGroups.                       *)
(***************************************************************************)
StartServer ==
    /\ main = "new"
    /\ running' = TRUE
    /\ \/ main' = "starting"
       \/ "beforeStart" \in faults /\ main' = "failed"
    /\ Call("beforeStart")
    /\ UNCHANGED <<faults, master, started, groupRunning, counters, workerVars, stopVars, signals>>

StartGroup ==
    LET g == started + 1
    IN  /\ main = "starting" /\ g \in Groups
        /\ started' = g
        /\ groupRunning' = [groupRunning EXCEPT ![g] = TRUE]
        /\ pc' = [w \in Workers |->
              IF GroupOf[w] = g /\ w # master THEN "spawned" ELSE pc[w]]
        /\ UNCHANGED <<faults, master, main, running, counters, ok, last, stopVars, signals, hooks>>

RunMaster ==
    /\ main = "starting" /\ started = NumGroups
    /\ main' = "joining"
    /\ pc' = [w \in Workers |-> IF w = master THEN "spawned" ELSE pc[w]]
    /\ UNCHANGED <<faults, master, started, running, groupRunning, counters, ok, last, stopVars, signals, hooks>>

JoinAllGroups ==
    /\ main = "joining" /\ \A w \in Workers : pc[w] \in {"gone", "dead"}
    /\ main' = "final"
    /\ \/ master # None /\ Call("afterStop")
       \/ master = None /\ UNCHANGED hooks
    /\ UNCHANGED <<faults, master, started, running, groupRunning, counters, workerVars, stopVars, signals>>

(***************************************************************************)
(* SignalToStop.  Begin(by, force) is its first part on worker by or on a  *)
(* thread of the application; the walk over the services and the groups    *)
(* follows in steps of its own, and worker by waits for its end.           *)
(***************************************************************************)
StopGroups(from) ==
    /\ stop' = "groups" /\ stopAt' = 1 /\ stopBy' = from

Begin(by, force) ==
    /\ running' = FALSE
    /\ \/ ~running /\ UNCHANGED <<stop, stopAt, stopBy, hooks>>
       \/ /\ running /\ ~force /\ "beforeStop" \in faults
          /\ Call("beforeStop")
          /\ UNCHANGED <<stop, stopAt, stopBy>>
       \/ /\ running /\ servicesLeft # 0
          /\ Call("beforeStop")
          /\ stop' = "services" /\ stopAt' = 1 /\ stopBy' = by
       \/ /\ running /\ servicesLeft = 0
          /\ hooks' = hooks \o <<"beforeStop", "servicesStopped">>
          /\ StopGroups(by)
    /\ UNCHANGED <<service, servicesLeft>>

(* The application's call, on any thread, forced or not.                   *)
SignalToStop(force) ==
    /\ signals < MaxSignals /\ ("earlyStop" \in faults \/ Called("started"))
    /\ stop = "idle"
    /\ signals' = signals + 1
    /\ Begin(None, force)
    /\ UNCHANGED <<mainVars, groupRunning, counters, workerVars>>

(* OnServiceStopped: the last service to stop starts to stop the groups.   *)
CountService(s, by) ==
    /\ service' = [service EXCEPT ![s] = "down"]
    /\ servicesLeft' = servicesLeft - 1
    /\ \/ servicesLeft = 1 /\ StopGroups(by) /\ Call("servicesStopped")
       \/ servicesLeft # 1 /\ UNCHANGED hooks

NextService(s) ==
    \/ s < NumServices /\ stopAt' = s + 1 /\ UNCHANGED <<stop, stopBy>>
    \/ s = NumServices /\ stop' = "idle" /\ stopAt' = 1 /\ stopBy' = None

StopService ==
    LET s == stopAt
    IN  /\ stop = "services"
        /\ \/ /\ CountService(s, stopBy)
              /\ servicesLeft # 1 => NextService(s)
           \/ /\ service' = [service EXCEPT ![s] = "pending"]
              /\ NextService(s)
              /\ UNCHANGED <<servicesLeft, hooks>>
        /\ UNCHANGED <<mainVars, running, groupRunning, counters, workerVars, signals>>

(* A service that answered RPending has stopped.                           *)
OnServiceStopped(s) ==
    /\ service[s] = "pending"
    /\ CountService(s, None)
    /\ servicesLeft # 1 => UNCHANGED <<stop, stopAt, stopBy>>
    /\ UNCHANGED <<mainVars, running, groupRunning, counters, workerVars, signals>>

NextGroup(g) ==
    \/ g < NumGroups /\ stopAt' = g + 1 /\ UNCHANGED <<stop, stopBy>>
    \/ g = NumGroups /\ stop' = "idle" /\ stopAt' = 1 /\ stopBy' = None

(* Faulty: after the first group the others are left running.              *)
StopGroupFirst ==
    /\ stop = "groups"
    /\ groupRunning' = [groupRunning EXCEPT ![1] = FALSE]
    /\ NextGroup(stopAt)
    /\ UNCHANGED <<mainVars, running, counters, workerVars, service, servicesLeft, signals, hooks>>

(* WorkerGroup::SignalToStop; closing the group's acceptors and its IO     *)
(* queue wakes the workers that wait there.                                *)
StopGroup ==
    /\ stop = "groups"
    /\ groupRunning' = [groupRunning EXCEPT ![stopAt] = FALSE]
    /\ NextGroup(stopAt)
    /\ UNCHANGED <<mainVars, running, counters, workerVars, service, servicesLeft, signals, hooks>>

(***************************************************************************)
(* A worker, Worker::RunImpl.                                              *)
(***************************************************************************)
At(w, l)   == pc[w] = l /\ stopBy # w
Goto(w, l) == pc' = [pc EXCEPT ![w] = l]
Answer(w, a) == ok' = [ok EXCEPT ![w] = a]

Begins(w) ==
    /\ At(w, "spawned")
    /\ \/ Goto(w, "increment")
       \/ "threadInit" \in faults /\ Goto(w, "dead")
    /\ UNCHANGED <<mainVars, running, groupRunning, counters, ok, last, stopVars, signals, hooks>>

(* WorkerGroup::OnWorkerStarted                                            *)
IncrementRunning(w) ==
    LET g == GroupOf[w]
    IN  /\ At(w, "increment")
        /\ runningWorkers' = [runningWorkers EXCEPT ![g] = @ + 1]
        /\ last' = [last EXCEPT ![w] = runningWorkers[g] + 1 = Cardinality(Members(g))]
        /\ Goto(w, "started")
        /\ UNCHANGED <<mainVars, running, groupRunning, activeGroups, totalRunning, startup,
                       shutdown, ok, stopVars, signals, hooks>>

OnWorkerStarted(w) ==
    /\ At(w, "started")
    /\ \/ totalRunning' = totalRunning + 1 /\ Goto(w, "startHandler") /\ UNCHANGED ok
       \/ "workerStart" \in faults /\ Answer(w, FALSE) /\ Goto(w, "arriveStart")
          /\ UNCHANGED totalRunning
    /\ UNCHANGED <<mainVars, running, groupRunning, runningWorkers, activeGroups, startup,
                   shutdown, last, stopVars, signals, hooks>>

StartHandler(w) ==
    /\ At(w, "startHandler")
    /\ \/ last[w] /\ Goto(w, "acceptors") /\ UNCHANGED ok
       \/ ~last[w] /\ Answer(w, TRUE) /\ Goto(w, "arriveStart")
       \/ "startHandler" \in faults /\ Answer(w, FALSE) /\ Goto(w, "arriveStart")
    /\ UNCHANGED <<mainVars, running, groupRunning, counters, last, stopVars, signals, hooks>>

(* StartAllTCPAcceptors: the last worker of the group to start starts them *)
(* and stops the server if one of them fails.                              *)
StartAcceptors(w) ==
    /\ At(w, "acceptors")
    /\ Goto(w, "groupStarted")
    /\ \/ UNCHANGED <<running, stopVars, hooks>>
       \/ "acceptor" \in faults /\ (running => stop = "idle") /\ Begin(w, TRUE)
    /\ UNCHANGED <<mainVars, groupRunning, counters, ok, last, signals>>

(* Faulty: the first group to start takes itself for the last.             *)
OnWorkerGroupStartedAny(w) ==
    /\ At(w, "groupStarted")
    /\ activeGroups' = activeGroups + 1
    /\ Answer(w, TRUE) /\ Call("started")
    /\ Goto(w, "arriveStart")
    /\ UNCHANGED <<mainVars, running, groupRunning, runningWorkers, totalRunning, startup,
                   shutdown, last, stopVars, signals>>

OnWorkerGroupStarted(w) ==
    /\ At(w, "groupStarted")
    /\ activeGroups' = activeGroups + 1
    /\ \/ activeGroups + 1 # NumGroups /\ Answer(w, TRUE) /\ UNCHANGED hooks
       \/ activeGroups + 1 = NumGroups /\ Answer(w, TRUE) /\ Call("started")
       \/ /\ activeGroups + 1 = NumGroups /\ "serverStart" \in faults
          /\ Answer(w, FALSE) /\ Call("started")
    /\ Goto(w, "arriveStart")
    /\ UNCHANGED <<mainVars, running, groupRunning, runningWorkers, totalRunning, startup,
                   shutdown, last, stopVars, signals>>

(* Faulty: counts down and does not wait.                                  *)
ArriveStartOnly(w) ==
    /\ At(w, "arriveStart")
    /\ startup' = startup - 1
    /\ Goto(w, IF ok[w] THEN "run" ELSE "signal")
    /\ UNCHANGED <<mainVars, running, groupRunning, runningWorkers, activeGroups, totalRunning,
                   shutdown, ok, last, stopVars, signals, hooks>>

(* SyncWorkerStartup->arrive_and_wait(), in two steps                      *)
ArriveStart(w) ==
    /\ At(w, "arriveStart")
    /\ startup' = startup - 1
    /\ Goto(w, "waitStart")
    /\ UNCHANGED <<mainVars, running, groupRunning, runningWorkers, activeGroups, totalRunning,
                   shutdown, ok, last, stopVars, signals, hooks>>

WaitStart(w) ==
    /\ At(w, "waitStart") /\ startup = 0
    /\ \/ ok[w] /\ Goto(w, "run")
       \/ ~ok[w] /\ Goto(w, "signal")
    /\ UNCHANGED <<mainVars, running, groupRunning, counters, ok, last, stopVars, signals, hooks>>

(* The run loop ends when the group does not run any more.                 *)
LeaveLoop(w) ==
    /\ At(w, "run") /\ ~groupRunning[GroupOf[w]]
    /\ Goto(w, "decrement")
    /\ UNCHANGED <<mainVars, running, groupRunning, counters, ok, last, stopVars, signals, hooks>>

(* A worker that failed to start stops the server.                         *)
SignalFailure(w) ==
    /\ At(w, "signal") /\ (running => stop = "idle")
    /\ Begin(w, TRUE)
    /\ Goto(w, "decrement")
    /\ UNCHANGED <<mainVars, groupRunning, counters, ok, last, signals>>

(* WorkerGroup::OnWorkerStopped                                            *)
DecrementRunning(w) ==
    LET g == GroupOf[w]
    IN  /\ At(w, "decrement")
        /\ runningWorkers' = [runningWorkers EXCEPT ![g] = @ - 1]
        /\ last' = [last EXCEPT ![w] = runningWorkers[g] = 1]
        /\ Goto(w, "stopped")
        /\ UNCHANGED <<mainVars, running, groupRunning, activeGroups, totalRunning, startup,
                       shutdown, ok, stopVars, signals, hooks>>

(* Faulty: counts the whole group out with its last worker.                *)
OnWorkerStoppedLast(w) ==
    /\ At(w, "stopped")
    /\ totalRunning' = IF last[w] THEN totalRunning - 1 ELSE totalRunning
    /\ Goto(w, "stopHandler")
    /\ UNCHANGED <<mainVars, running, groupRunning, runningWorkers, activeGroups, startup,
                   shutdown, ok, last, stopVars, signals, hooks>>

OnWorkerStopped(w) ==
    /\ At(w, "stopped")
    /\ totalRunning' = totalRunning - 1
    /\ Goto(w, "stopHandler")
    /\ UNCHANGED <<mainVars, running, groupRunning, runningWorkers, activeGroups, startup,
                   shutdown, ok, last, stopVars, signals, hooks>>

StopHandler(w) ==
    /\ At(w, "stopHandler")
    /\ \/ Goto(w, "arriveStop")
       \/ "stopHandler" \in faults /\ Goto(w, "gone")
    /\ UNCHANGED <<mainVars, running, groupRunning, counters, ok, last, stopVars, signals, hooks>>

(* SyncWorkerShutdown->arrive_and_wait(), in two steps                     *)
ArriveStop(w) ==
    /\ At(w, "arriveStop")
    /\ shutdown' = shutdown - 1
    /\ Goto(w, "waitStop")
    /\ UNCHANGED <<mainVars, running, groupRunning, runningWorkers, activeGroups, totalRunning,
                   startup, ok, last, stopVars, signals, hooks>>

WaitStop(w) ==
    /\ At(w, "waitStop") /\ shutdown = 0
    /\ \/ last[w] /\ Goto(w, "groupStopped")
       \/ ~last[w] /\ Goto(w, "gone")
    /\ UNCHANGED <<mainVars, running, groupRunning, counters, ok, last, stopVars, signals, hooks>>

(* OnWorkerGroupStopped and, for the last group, OnServerStopped; without  *)
(* a master worker OnAfterServerStopped follows at once.                   *)
OnWorkerGroupStopped(w) ==
    /\ At(w, "groupStopped")
    /\ activeGroups' = activeGroups - 1
    /\ \/ activeGroups # 1 /\ UNCHANGED <<running, hooks>>
       \/ /\ activeGroups = 1
          /\ running' = TRUE
          /\ hooks' = hooks \o (IF master = None THEN <<"stopped", "afterStop">> ELSE <<"stopped">>)
    /\ Goto(w, "gone")
    /\ UNCHANGED <<mainVars, groupRunning, runningWorkers, totalRunning, startup, shutdown,
                   ok, last, stopVars, signals>>

Step(w) ==
    \/ Begins(w) \/ IncrementRunning(w) \/ OnWorkerStarted(w) \/ StartHandler(w)
    \/ StartAcceptors(w) \/ OnWorkerGroupStarted(w) \/ ArriveStart(w) \/ WaitStart(w)
    \/ LeaveLoop(w) \/ SignalFailure(w) \/ DecrementRunning(w) \/ OnWorkerStopped(w)
    \/ StopHandler(w) \/ ArriveStop(w) \/ WaitStop(w) \/ OnWorkerGroupStopped(w)

Main == StartServer \/ StartGroup \/ RunMaster \/ JoinAllGroups

Next ==
    \/ Main
    \/ \E w \in Workers : Step(w)
    \/ \E force \in BOOLEAN : SignalToStop(force)
    \/ StopService \/ StopGroup
    \/ \E s \in Services : OnServiceStopped(s)

Spec == Init /\ [][Next]_vars

(* Every thread runs on, and a pending service stops sooner or later.      *)
Fairness ==
    /\ WF_vars(Main) /\ WF_vars(StopService) /\ WF_vars(StopGroup)
    /\ \A w \in Workers : WF_vars(Step(w))
    /\ \A s \in Services : WF_vars(OnServiceStopped(s))

FairSpec == Spec /\ Fairness
-----------------------------------------------------------------------------
BeforeCount == {"none", "spawned", "increment", "dead"}
Starting    == {"started", "startHandler", "acceptors", "groupStarted", "arriveStart"}
Running     == {"waitStart", "run", "signal", "decrement"}
Stopping    == {"stopped", "stopHandler", "arriveStop"}
Stopped     == {"waitStop", "groupStopped", "gone"}

TypeOK ==
    /\ main \in {"new", "starting", "joining", "final", "failed"}
    /\ started \in 0 .. NumGroups
    /\ running \in BOOLEAN
    /\ groupRunning \in [Groups -> BOOLEAN]
    /\ runningWorkers \in [Groups -> 0 .. Cardinality(Workers)]
    /\ activeGroups \in -NumGroups .. NumGroups
    /\ totalRunning \in -Cardinality(Workers) .. Cardinality(Workers)
    /\ startup \in 0 .. Cardinality(Workers)
    /\ shutdown \in 0 .. Cardinality(Workers)
    /\ pc \in [Workers -> BeforeCount \cup Starting \cup Running \cup Stopping \cup Stopped]
    /\ ok \in [Workers -> BOOLEAN] /\ last \in [Workers -> BOOLEAN]
    /\ service \in [Services -> {"up", "pending", "down"}]
    /\ servicesLeft \in Int /\ servicesLeft <= NumServices
    /\ stop \in {"idle", "services", "groups"}
    /\ stopAt \in Groups \cup Services
    /\ stopBy \in Workers \cup {None}
    /\ signals \in 0 .. MaxSignals
    /\ \A i \in DOMAIN hooks :
          hooks[i] \in {"beforeStart", "started", "beforeStop", "servicesStopped", "stopped", "afterStop"}

(***************************************************************************)
(* What holds although calls fail, and which of them may fail for what.    *)
(***************************************************************************)
Only(S) == faults \subseteq S

(* Not so if the only group of a server fails to start, as a whole: it is  *)
(* stopped while its services stop, bIsRunning is set, and the next call of*)
(* SignalToStop has the services stop, and be counted, a second time.      *)
RanFirst == Called("stopped") => \E w \in Workers : ok[w]

(* Each counter of the server, its groups and its latches is the number of *)
(* workers, groups or services it claims to count; but a worker whose      *)
(* hooks answer false is taken off counters it was never added to.         *)
Ended(g) == \E w \in Members(g) : last[w] /\ pc[w] = "gone"

CountsExact ==
    /\ \A g \in Groups : runningWorkers[g] =
          Cardinality({w \in Members(g) : pc[w] \in Starting \cup Running})
    /\ totalRunning = Cardinality({w \in Workers :
          pc[w] \in (Starting \ {"started"}) \cup Running \cup {"stopped"}})
    /\ startup = Cardinality({w \in Workers : pc[w] \in BeforeCount \cup Starting})
    /\ shutdown = Cardinality({w \in Workers : pc[w] \notin Stopped})
    /\ RanFirst => servicesLeft = Cardinality({s \in Services : service[s] # "down"})
    /\ startup = 0 /\ shutdown > 0 => activeGroups = NumGroups
    /\ shutdown = 0 => activeGroups = Cardinality({g \in Groups : ~Ended(g)})

CountersInv ==
    /\ TypeOK
    /\ Only({"beforeStart", "threadInit", "acceptor", "serverStart", "beforeStop", "earlyStop"})
          => CountsExact

(* The startup latch: no worker is in its run loop or stops while another  *)
(* has not yet reported to its group and its server.                       *)
StartBarrier ==
    (\E w \in Workers : pc[w] \in (Running \ {"waitStart"}) \cup Stopping \cup Stopped) =>
        \A w \in Workers : pc[w] \notin BeforeCount \cup Starting

(* The groups are stopped only after the last service has stopped.         *)
ServicesFirst ==
    (\E g \in 1 .. started : ~groupRunning[g]) => \A s \in Services : service[s] = "down"

(* OnServerStopped is called at most once for a start, and when no worker  *)
(* has anything left to do but to report to its group.                     *)
StoppedAfterAll ==
    Called("stopped") =>
        /\ \A w \in Workers : pc[w] \in Stopped
        /\ \A i, j \in DOMAIN hooks : hooks[i] = "stopped" /\ hooks[j] = "stopped" => i = j

(* The sequence of hooks that the tests of the workers spell out for one   *)
(* worker, for any number of workers, groups and services: each comes      *)
(* after those before it, and only the two of SignalToStop come again.     *)
HookSequence == <<"beforeStart", "started", "beforeStop", "servicesStopped", "stopped", "afterStop">>

InSequence ==
    /\ \A i, j \in DOMAIN HookSequence, n \in DOMAIN hooks :
          i < j /\ hooks[n] = HookSequence[j] => \E m \in 1 .. n - 1 : hooks[m] = HookSequence[i]
    /\ \A m, n \in DOMAIN hooks :
          hooks[m] = hooks[n] /\ hooks[m] \notin {"beforeStop", "servicesStopped"} => m = n

(* Whatever fails: the startup latch separates starting from running, the  *)
(* services stop before the groups, and OnServerStopped comes last; and    *)
(* the hooks are in sequence, if all the groups start.                     *)
HookOrder ==
    /\ StartBarrier /\ StoppedAfterAll
    /\ RanFirst => ServicesFirst
    /\ RanFirst /\ Only({"beforeStart", "serverStart", "beforeStop"}) => InSequence

(* The assertion of Worker::RunImpl: a worker begins in a running group.   *)
BeginsInRunningGroup == \A w \in Workers : pc[w] = "spawned" => groupRunning[GroupOf[w]]

(* The server keeps the promises of ServerLifetime, although threads may   *)
(* fail to begin, stops be cancelled and stop handlers answer false; other *)
(* behaviours are not followed beyond the start.                           *)
Followed == Only({"beforeStart", "threadInit", "beforeStop", "stopHandler"})

Phase == IF ~Followed THEN "starting"
         ELSE IF Called("stopped") THEN "stopped"
         ELSE IF Called("beforeStop") THEN "stopping"
         ELSE IF Called("started") THEN "up" ELSE "starting"

Lifetime == INSTANCE ServerLifetime WITH
    phase  <- Phase,
    inside <- {w \in Workers : Followed /\ pc[w] = "run"},
    left   <- {w \in Workers : Followed /\ pc[w] \in {"decrement"} \cup Stopping \cup Stopped}
KeepsLifetime == Lifetime!Spec

(* A stop ends every worker and brings the main thread back from           *)
(* JoinAllGroups, also after failed starts: but not when it came too early *)
(* or was cancelled, nor past a stop handler that answers false, whose     *)
(* worker never comes to the latch at which the others wait.               *)
StopEndsAll ==
    Called("beforeStop") ~>
       \/ main = "final"
       \/ ~Only({"beforeStart", "threadInit", "workerStart", "startHandler", "serverStart"})

(***************************************************************************)
(* What the comments say and the code does not always do.                  *)
(***************************************************************************)
(* "Is the server instance running": not any more when it has stopped.     *)
IsRunningMeansRunning == Called("stopped") => ~running

(* "Number of running worker groups", "Total number of running workers".   *)
CountsAreNumbers == activeGroups >= 0 /\ totalRunning >= 0
=============================================================================
