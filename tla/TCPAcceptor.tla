----------------------------- MODULE TCPAcceptor -----------------------------
(***************************************************************************)
(* TCPAcceptor (Port_Windows.cpp) on the run loops of AsyncIO: an accept   *)
(* request is outstanding in the system, its completion is handled by some *)
(* worker, whose handler hands the connection to the application and, with *)
(* the same task, asks for the next one.  Another thread may stop the      *)
(* acceptor at any time, and start it again.  CustomHandle, the address of *)
(* AcceptEx, is taken to be set; deferred tasks are left to AsyncIO.       *)
(***************************************************************************)
EXTENDS AsyncIO

CONSTANTS AcceptTasks,   \* the blocks for AsyncAcceptTask
          Sockets,       \* the handles for connections
          NoSocket, NoTask,
          MaxStarts,     \* bound: calls of StartAcceptingAsync
          Faults         \* system calls may fail

ASSUME TCPAcceptorAssumption ==
    /\ NoSocket \notin Sockets /\ NoTask \notin AcceptTasks
    /\ AcceptTasks \cap Tasks = {}
    /\ MaxStarts \in Nat /\ Faults \in BOOLEAN

VARIABLES
    accepting,     \* bIsRunning of the acceptor
    listen,        \* Socket: 0 or the number of the start that opened it
    open,          \* the listening sockets that the system has open
    refs,          \* refs[a]: the count of the accept task; 0: not allocated
    socketOf,      \* socketOf[a]: AcceptSocket, captured by its handler
    request,       \* request[a]: 0 or the listening socket a is outstanding at
    accepted,      \* accepted[a]: the completion brings a connection
    owner,         \* owner[s]: "nobody", "acceptor", "application"
    self,          \* self[t]: the accept task that t works with
    closing,       \* closing[t]: ExistingSocket
    next,          \* next[t]: what follows CloseSocket
    starts, rearmed, stopLost  \* history

sockVars   == <<accepting, listen, open>>
taskState  == <<refs, socketOf, request, accepted>>
localVars  == <<self, closing, next>>
historyVars == <<starts, rearmed, stopLost>>
acceptVars == <<sockVars, taskState, owner, localVars, historyVars>>
vars       == <<loopVars, acceptVars>>

Back(t) == IF t \in Workers THEN "release" ELSE "idle"

Init ==
    /\ LoopInit
    /\ accepting = FALSE /\ listen = 0 /\ open = {}
    /\ refs = [a \in AcceptTasks |-> 0]
    /\ socketOf = [a \in AcceptTasks |-> NoSocket]
    /\ request = [a \in AcceptTasks |-> 0]
    /\ accepted = [a \in AcceptTasks |-> FALSE]
    /\ owner = [s \in Sockets |-> "nobody"]
    /\ self = [t \in Threads |-> NoTask]
    /\ closing = [t \in Threads |-> 0]
    /\ next = [t \in Threads |-> "idle"]
    /\ starts = 0 /\ rearmed = TRUE /\ stopLost = FALSE
-----------------------------------------------------------------------------
(***************************************************************************)
(* CloseSocket and StopAcceptingAsync.                                     *)
(***************************************************************************)
CloseSocketThen(t, l) ==
    /\ Goto(t, "close")
    /\ next' = [next EXCEPT ![t] = l]

CloseSocket(t) ==
    /\ pc[t] = "close"
    /\ listen' = 0
    /\ closing' = [closing EXCEPT ![t] = listen]
    /\ Goto(t, IF listen = 0 THEN next[t] ELSE "closesocket")
    /\ UNCHANGED <<variant, running, portVars, taskVars>>
    /\ UNCHANGED <<accepting, open, taskState, owner, self, next, historyVars>>

(* closesocket; shutdown.                                                  *)
CloseHandle(t) ==
    /\ pc[t] = "closesocket"
    /\ open' = open \ {closing[t]}
    /\ closing' = [closing EXCEPT ![t] = 0]
    /\ Goto(t, next[t])
    /\ UNCHANGED <<variant, running, portVars, taskVars>>
    /\ UNCHANGED <<accepting, listen, taskState, owner, self, next, historyVars>>

(* Faulty: the acceptor only stops asking for more.                        *)
StopAcceptingKeepSocket(t) ==
    /\ pc[t] = "stop"
    /\ accepting' = FALSE
    /\ Goto(t, next[t])
    /\ stopLost' = (stopLost \/ (~accepting /\ pc[Starter] = "listening"))
    /\ UNCHANGED <<variant, running, portVars, taskVars>>
    /\ UNCHANGED <<listen, open, taskState, owner, localVars, starts, rearmed>>

(* A stop while a start has not set bIsRunning yet has no effect.          *)
StopAcceptingAsync(t) ==
    /\ pc[t] = "stop"
    /\ accepting' = FALSE
    /\ Goto(t, IF accepting THEN "close" ELSE next[t])
    /\ stopLost' = (stopLost \/ (~accepting /\ pc[Starter] = "listening"))
    /\ UNCHANGED <<variant, running, portVars, taskVars>>
    /\ UNCHANGED <<listen, open, taskState, owner, localVars, starts, rearmed>>

StopAcceptingThen(t, l) ==
    /\ Goto(t, "stop")
    /\ next' = [next EXCEPT ![t] = l]

(* The application stops the acceptor, or the whole group is stopped.      *)
StopAcceptor ==
    /\ pc[Main] = "idle" /\ running /\ starts > 0
    /\ StopAcceptingThen(Main, "idle")
    /\ UNCHANGED <<variant, running, portVars, taskVars>>
    /\ UNCHANGED <<sockVars, taskState, owner, self, closing, historyVars>>

StopGroup ==
    /\ SignalToStop("stop")
    /\ next' = [next EXCEPT ![Main] = "closePort"]
    /\ UNCHANGED <<sockVars, taskState, owner, self, closing, historyVars>>
-----------------------------------------------------------------------------
(***************************************************************************)
(* StartAcceptingAsync.                                                    *)
(***************************************************************************)
StartAcceptingAsync ==
    /\ pc[Starter] = "idle" /\ ~accepting /\ starts < MaxStarts
    /\ starts' = starts + 1 /\ rearmed' = TRUE
    /\ CloseSocketThen(Starter, "newSocket")
    /\ UNCHANGED <<variant, running, portVars, taskVars>>
    /\ UNCHANGED <<sockVars, taskState, owner, self, closing, stopLost>>

NewSocket ==
    /\ pc[Starter] = "newSocket"
    /\ \/ Faults /\ Goto(Starter, "idle") /\ UNCHANGED <<listen, open>>
       \/ /\ listen' = starts /\ open' = open \cup {starts}
          /\ Goto(Starter, "listening")
    /\ UNCHANGED <<variant, running, portVars, taskVars>>
    /\ UNCHANGED <<accepting, taskState, owner, localVars, historyVars>>

(* BindAndListen, AssociateToTheAPI and Win32_AcquireAcceptEx; whichever   *)
(* fails, the new socket is closed.                                        *)
BindAndListen ==
    /\ pc[Starter] = "listening"
    /\ \/ /\ Faults \/ listen \notin open \/ ~port
          /\ CloseSocketThen(Starter, "idle") /\ UNCHANGED accepting
       \/ /\ port
          /\ accepting' = TRUE
          /\ Goto(Starter, "begin") /\ UNCHANGED next
    /\ UNCHANGED <<variant, running, portVars, taskVars>>
    /\ UNCHANGED <<listen, open, taskState, owner, self, closing, historyVars>>

StartFailed ==
    /\ pc[Starter] = "failed"
    /\ accepting' = FALSE
    /\ Goto(Starter, "idle")
    /\ UNCHANGED <<variant, running, portVars, taskVars>>
    /\ UNCHANGED <<listen, open, taskState, owner, localVars, historyVars>>
-----------------------------------------------------------------------------
(***************************************************************************)
(* BeginAcceptAsync, with a new task or with the one that was handled.     *)
(***************************************************************************)
MakeTask ==
    /\ pc[Starter] = "begin"
    /\ \/ \E a \in AcceptTasks :
            /\ refs[a] = 0
            /\ refs' = [refs EXCEPT ![a] = 1]
            /\ self' = [self EXCEPT ![Starter] = a]
            /\ Goto(Starter, "newAccept") /\ UNCHANGED next
       \/ /\ Faults \/ \A a \in AcceptTasks : refs[a] > 0
          /\ CloseSocketThen(Starter, "failed") /\ UNCHANGED <<refs, self>>
    /\ UNCHANGED <<variant, running, portVars, taskVars>>
    /\ UNCHANGED <<sockVars, socketOf, request, accepted, owner, closing, historyVars>>

(* Faulty: the task is used again without a reference for its next use.    *)
ReuseTaskUncounted(w) ==
    /\ pc[w] = "accepted"
    /\ Goto(w, IF accepting THEN "guard" ELSE "release")
    /\ UNCHANGED <<variant, running, portVars, taskVars, acceptVars>>

(* IsAccepting(), then a second reference.                                 *)
ReuseTask(w) ==
    /\ pc[w] = "accepted"
    /\ \/ accepting /\ refs' = [refs EXCEPT ![self[w]] = @ + 1] /\ Goto(w, "guard")
       \/ ~accepting /\ Goto(w, "release") /\ UNCHANGED refs
    /\ UNCHANGED <<variant, running, portVars, taskVars>>
    /\ UNCHANGED <<sockVars, socketOf, request, accepted, owner, localVars, historyVars>>

(* AllocateNewIPv4TCPSocket, whose failure is noticed by AcceptEx, and     *)
(* SetCompletionHandler.                                                   *)
NewAcceptSocket(t) ==
    /\ pc[t] \in {"guard", "newAccept"}
    /\ \/ \E s \in Sockets :
            /\ owner[s] = "nobody"
            /\ owner' = [owner EXCEPT ![s] = "acceptor"]
            /\ socketOf' = [socketOf EXCEPT ![self[t]] = s]
       \/ /\ Faults \/ \A s \in Sockets : owner[s] # "nobody"
          /\ socketOf' = [socketOf EXCEPT ![self[t]] = NoSocket]
          /\ UNCHANGED owner
    /\ Goto(t, "acceptEx")
    /\ UNCHANGED <<variant, running, portVars, taskVars>>
    /\ UNCHANGED <<sockVars, refs, request, accepted, localVars, historyVars>>

Closed(s) == [x \in Sockets |-> IF x = s THEN "nobody" ELSE owner[x]]

AcceptExSucceeds(t) ==
    /\ pc[t] = "acceptEx"
    /\ listen \in open /\ socketOf[self[t]] # NoSocket
    /\ request' = [request EXCEPT ![self[t]] = listen]
    /\ Goto(t, Back(t))
    /\ UNCHANGED <<variant, running, portVars, taskVars>>
    /\ UNCHANGED <<sockVars, refs, socketOf, accepted, owner, localVars, historyVars>>

(* The handler only says that it failed: the acceptor remains "accepting". *)
AcceptExFails(t) ==
    /\ pc[t] = "acceptEx"
    /\ Faults \/ listen \notin open \/ socketOf[self[t]] = NoSocket
    /\ owner' = Closed(socketOf[self[t]])
    /\ refs' = [refs EXCEPT ![self[t]] = @ - 1]
    /\ \/ t \in Workers /\ rearmed' = FALSE /\ Goto(t, "release") /\ UNCHANGED next
       \/ t = Starter /\ CloseSocketThen(t, "failed") /\ UNCHANGED rearmed
    /\ UNCHANGED <<variant, running, portVars, taskVars>>
    /\ UNCHANGED <<sockVars, socketOf, request, accepted, self, closing>>
    /\ UNCHANGED <<starts, stopLost>>
-----------------------------------------------------------------------------
(***************************************************************************)
(* The completion handler, and HandleAsyncIOTask around it.                *)
(***************************************************************************)
(* The system: a connection arrives, or the listening socket was closed.   *)
Complete(a) ==
    /\ request[a] # 0 /\ port
    /\ accepted' = [accepted EXCEPT ![a] = request[a] \in open]
    /\ request' = [request EXCEPT ![a] = 0]
    /\ queue' = Append(queue, a)
    /\ UNCHANGED <<variant, running, port, batch, taskVars, pc>>
    /\ UNCHANGED <<sockVars, refs, socketOf, owner, localVars, historyVars>>

(* setsockopt with GetSocket(), AssociateToTheAPI, then OnAccept: or the   *)
(* new socket is closed and the acceptor stopped.                          *)
HandleAccept(w) ==
    LET a == Head(batch[w])
    IN  /\ pc[w] = "dispatch" /\ a \in AcceptTasks
        /\ self' = [self EXCEPT ![w] = a]
        /\ \/ /\ accepted[a] /\ listen \in open /\ port
              /\ owner' = [owner EXCEPT ![socketOf[a]] = "application"]
              /\ Goto(w, "accepted") /\ UNCHANGED next
           \/ /\ Faults \/ ~accepted[a] \/ listen \notin open \/ ~port
              /\ owner' = Closed(socketOf[a])
              /\ StopAcceptingThen(w, "release")
        /\ UNCHANGED <<variant, running, portVars, taskVars>>
        /\ UNCHANGED <<sockVars, taskState, closing, historyVars>>

Release(w) ==
    /\ pc[w] = "release"
    /\ refs' = [refs EXCEPT ![self[w]] = @ - 1]
    /\ self' = [self EXCEPT ![w] = NoTask]
    /\ Handled(w)
    /\ UNCHANGED <<variant, running, port, queue, taskVars>>
    /\ UNCHANGED <<sockVars, socketOf, request, accepted, owner, closing, next, historyVars>>

(* The application is done with a connection.                              *)
Disconnect(s) ==
    /\ owner[s] = "application"
    /\ owner' = Closed(s)
    /\ UNCHANGED <<loopVars, sockVars, taskState, localVars, historyVars>>
-----------------------------------------------------------------------------
AcceptStep(t) ==
    \/ CloseSocket(t) \/ CloseHandle(t) \/ StopAcceptingAsync(t)
    \/ NewAcceptSocket(t) \/ AcceptExSucceeds(t) \/ AcceptExFails(t)

WorkerLoop(w) ==
    \/ WorkerStep(w) /\ UNCHANGED acceptVars
    \/ HandleAccept(w) \/ ReuseTask(w) \/ Release(w) \/ AcceptStep(w)

StarterStep == NewSocket \/ BindAndListen \/ MakeTask \/ StartFailed \/ AcceptStep(Starter)
MainStep    == AcceptStep(Main) \/ (StopAsyncIO /\ UNCHANGED acceptVars)

Next ==
    \/ \E w \in Workers : WorkerLoop(w)
    \/ \E a \in AcceptTasks : Complete(a)
    \/ \E s \in Sockets : Disconnect(s)
    \/ StartAcceptingAsync \/ StarterStep
    \/ StopAcceptor \/ StopGroup \/ MainStep

Spec == Init /\ [][Next]_vars
-----------------------------------------------------------------------------
ItemsOf(q)  == {q[i] : i \in 1 .. Len(q)}
InAcceptor(t) == pc[t] \notin {"idle", "stopped", "loop", "left", "wait",
                               "dispatch", "general", "tick", "closePort"}

(* What is on its way: requested, in the port, or dequeued.                *)
Requested(a) == request[a] # 0
Completed(a) == a \in ItemsOf(queue) \/ \E w \in Workers : a \in ItemsOf(batch[w])
                                                          /\ ~(InAcceptor(w) /\ self[w] = a)
Preparing(a) == \E t \in Threads : self[t] = a /\ pc[t] \in {"newAccept", "guard", "acceptEx"}
Handling(a)  == {w \in Workers : self[w] = a}

(* A task has one reference while a request with it is made, outstanding   *)
(* or completed, and one for every worker that is in its handler; so it is *)
(* freed when the last is through.  A socket is the acceptor's while it is *)
(* in a request of this kind, and no two tasks have the same.              *)
AcceptorInv ==
    /\ pc \in [Threads -> {"idle", "stopped", "loop", "left", "wait", "dispatch", "general",
                           "tick", "closePort", "close", "closesocket", "stop", "newSocket",
                           "listening", "failed", "begin", "newAccept", "guard", "acceptEx",
                           "accepted", "release"}]
    /\ (port => \A a \in AcceptTasks :
         refs[a] = Cardinality(Handling(a))
                     + (IF Requested(a) \/ Completed(a) \/ Preparing(a) THEN 1 ELSE 0))
    /\ (port => \A s \in Sockets :
         owner[s] = "acceptor" <=>
           \E a \in AcceptTasks :
             /\ socketOf[a] = s
             /\ \/ Requested(a) \/ Completed(a)
                \/ \E t \in Threads : self[t] = a /\ pc[t] = "acceptEx")

(* While the acceptor says that it is accepting, there is a request that a *)
(* connection can complete, or one that leads to the next or to a stop:    *)
(* as long as no handler failed to ask for the next.                       *)
AcceptsWhileAccepting ==
    accepting /\ port /\ rearmed /\ (\A t \in Threads : ~InAcceptor(t))
        => \E a \in AcceptTasks : Requested(a) \/ Completed(a)

(* When the acceptor is not accepting and nobody is about to change that,  *)
(* no listening socket is open: unless a stop came while it was starting.  *)
NoListenerLeft ==
    /\ open \subseteq {listen} \cup {closing[t] : t \in Threads}
    /\ ~accepting /\ ~stopLost /\ (\A t \in Threads : ~InAcceptor(t)) => open = {}

(* IsAccepting() tells, when all is quiet, what the system does.           *)
AcceptingIsTrue == AcceptsWhileAccepting /\ NoListenerLeft
=============================================================================
