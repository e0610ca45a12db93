---------------------------- MODULE TLSSyncTwice ----------------------------
(***************************************************************************)
(* A worker group that takes part in the server's TLSSyncSystem and has    *)
(* one of its own (bSupportsTLSSync and bHasWorkerGroupSpecificTLSSync):   *)
(* each round of the run loop ticks the first and then the second.  The    *)
(* two queues are two instances of TLSSync over one idx, because           *)
(* TLSSyncQueue::ThreadIndex is one static value per thread.               *)
(***************************************************************************)
EXTENDS Naturals

CONSTANTS Workers, ServerTasks, GroupTasks, Size, MaxOutstanding, Null

VARIABLES idx,   \* ThreadIndex of each worker's thread
          turn,  \* turn[w]: the system that worker w ticks now or next
          headS, itemsS, refsS, indexS, statusS, pcS, curS, runsS, finalsS,
          headG, itemsG, refsG, indexG, statusG, pcG, curG, runsG, finalsG

serverVars == <<headS, itemsS, refsS, indexS, statusS, pcS, curS, runsS, finalsS>>
groupVars  == <<headG, itemsG, refsG, indexG, statusG, pcG, curG, runsG, finalsG>>
vars == <<idx, turn, serverVars, groupVars>>

Server == INSTANCE TLSSync WITH Tasks <- ServerTasks,
    head <- headS, items <- itemsS, refs <- refsS, index <- indexS, status <- statusS,
    pc <- pcS, cur <- curS, runs <- runsS, finals <- finalsS
Group == INSTANCE TLSSync WITH Tasks <- GroupTasks,
    head <- headG, items <- itemsG, refs <- refsG, index <- indexG, status <- statusG,
    pc <- pcG, cur <- curG, runs <- runsG, finals <- finalsG

Init == Server!Init /\ Group!Init /\ turn = [w \in Workers |-> "server"]

SyncTLS ==
    \/ (\E t \in ServerTasks : Server!Issue(t)) /\ UNCHANGED <<turn, groupVars>>
    \/ (\E t \in GroupTasks : Group!Issue(t)) /\ UNCHANGED <<turn, serverVars>>

TickServer(w) ==
    /\ turn[w] = "server" /\ Server!Tick(w)
    /\ turn' = [turn EXCEPT ![w] = IF pcS'[w] = "loop" THEN "group" ELSE "server"]
    /\ UNCHANGED groupVars

TickGroup(w) ==
    /\ turn[w] = "group" /\ Group!Tick(w)
    /\ turn' = [turn EXCEPT ![w] = IF pcG'[w] = "loop" THEN "server" ELSE "group"]
    /\ UNCHANGED serverVars

Next ==
    \/ SyncTLS
    \/ \E w \in Workers : TickServer(w) \/ TickGroup(w)

Spec == Init /\ [][Next]_vars
-----------------------------------------------------------------------------
(* "Issue a new TLS sync task on all this group": no worker moves past a   *)
(* task of the group without running it.                                   *)
GroupTasksRunOnAll == Group!OncePerWorker
=============================================================================
