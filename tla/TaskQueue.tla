------------------------------ MODULE TaskQueue ------------------------------
(***************************************************************************)
(* The intrusive multi-producer single-consumer queue of                   *)
(* Task/TaskQueue.h (and, line for line the same algorithm, of             *)
(* AOD/AOD_Queue.h).  Every access to memory that another thread may also  *)
(* access is a step of its own:                                            *)
(*                                                                         *)
(*   producer  PushSwap       Prev = exchange(Head, InTask)                *)
(*             PushLink       Prev->Next = InTask                          *)
(*   consumer  PopBegin       read Tail->Next                              *)
(*             PopPastStub    read Next of the node behind the stub        *)
(*             PopLoadHead    load Head                                    *)
(*             PopClearStub   Stub.Next = nullptr                          *)
(*             PopSwapStub    Prev = exchange(Head, &Stub)                 *)
(*             PopLinkStub    Prev->Next = &Stub                           *)
(*             PopReread      read Tail->Next again                        *)
(*             Release        the caller is done with Pop's answer         *)
(*                                                                         *)
(* Next is volatile and Head a std::atomic, so on the x86-64 builds of     *)
(* the library the interleavings of these steps are all the executions.    *)
(* A task is freed by Release and its address may be allocated again at    *)
(* once: a node of Tasks is a memory address, not a task for ever.         *)
(***************************************************************************)
EXTENDS Integers, Sequences

CONSTANTS Producers,  \* the threads that push
          Tasks,      \* the addresses of task objects
          Stub,       \* the address of the queue's stub node
          Nil         \* the null pointer

ASSUME NodesAssumption ==
    Stub \notin Tasks /\ Nil \notin Tasks /\ Stub # Nil /\ Nil \notin Producers

VARIABLES
    head,    \* TaskQueue::Head, the node pushed last
    tail,    \* TaskQueue::Tail, the node the consumer is at
    next,    \* the Next field of every node
    item,    \* item[p]: the task producer p has swapped in and not linked
    prev,    \* prev[p]: the predecessor p still has to link, or stale
    cpc,     \* where the consumer is in Pop
    cprev,   \* the predecessor the consumer has to link the stub to
    ret,     \* what the last Pop answered, while the caller uses it
    \* History variables: no step of the program reads them.
    queue,   \* the tasks pushed and not popped, in the order of the exchanges
    stubAt,  \* the position of the stub in the list from tail to head, or 0
    excuse   \* a Pop from here on may miss a task: none is queued or one races

vars == <<head, tail, next, item, prev, cpc, cprev, ret, queue, stubAt, excuse>>
prodVars == <<item, prev>>

Nodes == Tasks \cup {Stub}

Queued(t) == \E i \in DOMAIN queue : queue[i] = t
Pushing   == \E p \in Producers : item[p] # Nil

(***************************************************************************)
(* The constructor: Head and Tail point at the stub.                       *)
(***************************************************************************)
Init ==
    /\ head = Stub /\ tail = Stub
    /\ next = [n \in Nodes |-> Nil]
    /\ item = [p \in Producers |-> Nil]
    /\ prev = [p \in Producers |-> Nil]
    /\ cpc = "idle" /\ cprev = Nil /\ ret = Nil
    /\ queue = <<>> /\ stubAt = 1 /\ excuse = TRUE

(***************************************************************************)
(* Producers.  The task is a new one (its Next is null, which Push         *)
(* asserts), at an address that no live task has.                          *)
(***************************************************************************)
PushSwap(p, t) ==
    /\ item[p] = Nil
    /\ ~Queued(t) /\ t # ret
    /\ next' = [next EXCEPT ![t] = Nil]
    /\ item' = [item EXCEPT ![p] = t]
    /\ prev' = [prev EXCEPT ![p] = head]
    /\ head' = t
    /\ queue' = Append(queue, t)
    /\ excuse' = TRUE
    /\ UNCHANGED <<tail, cpc, cprev, ret, stubAt>>

PushLink(p) ==
    /\ item[p] # Nil
    /\ next' = [next EXCEPT ![prev[p]] = item[p]]
    /\ item' = [item EXCEPT ![p] = Nil]
    /\ UNCHANGED <<head, tail, prev, cpc, cprev, ret, queue, stubAt, excuse>>

(***************************************************************************)
(* The consumer.  AnswerTask(n) is Pop returning n.  LocalTail always equals   *)
(* Tail until then and LocalNext is used in the step that reads it, so     *)
(* neither local is kept.                                                  *)
(***************************************************************************)
Rest(s) == IF s = <<>> THEN s ELSE Tail(s)

AnswerTask(n) ==
    /\ tail' = next[n]
    /\ ret' = n /\ cpc' = "done"
    /\ queue' = Rest(queue)
    /\ stubAt' = IF stubAt = 0 THEN 0 ELSE stubAt - 1

AnswerNull ==
    /\ ret' = Nil /\ cpc' = "done"
    /\ UNCHANGED <<tail, queue, stubAt>>

Goto(l) ==
    /\ cpc' = l
    /\ UNCHANGED <<tail, ret, queue, stubAt>>

PopBegin ==
    /\ cpc = "idle"
    /\ excuse' = (queue = <<>> \/ Pushing)
    /\ \/ tail = Stub /\ next[Stub] = Nil /\ AnswerNull
       \/ /\ tail = Stub /\ next[Stub] # Nil
          /\ tail' = next[Stub]
          /\ stubAt' = 0
          /\ cpc' = "pastStub"
          /\ UNCHANGED <<ret, queue>>
       \/ tail # Stub /\ next[tail] # Nil /\ AnswerTask(tail)
       \/ tail # Stub /\ next[tail] = Nil /\ Goto("loadHead")
    /\ UNCHANGED <<head, next, cprev, prodVars>>

(* Faulty: takes the task behind the stub though it may be the last one.   *)
PopPastStubUnchecked ==
    /\ cpc = "pastStub"
    /\ \/ next[tail] # Nil /\ AnswerTask(tail)
       \/ /\ next[tail] = Nil
          /\ tail' = Stub /\ ret' = tail /\ cpc' = "done"
          /\ queue' = Rest(queue) /\ stubAt' = 0
    /\ UNCHANGED <<head, next, cprev, prodVars, excuse>>

PopPastStub ==
    /\ cpc = "pastStub"
    /\ \/ next[tail] # Nil /\ AnswerTask(tail)
       \/ next[tail] = Nil /\ Goto("loadHead")
    /\ UNCHANGED <<head, next, cprev, prodVars, excuse>>

(* Faulty: never takes the last task, it has no successor.                 *)
PopLoadHeadGivesUp ==
    /\ cpc = "loadHead"
    /\ AnswerNull
    /\ UNCHANGED <<head, next, cprev, prodVars, excuse>>

PopLoadHead ==
    /\ cpc = "loadHead"
    /\ \/ tail # head /\ AnswerNull
       \/ tail = head /\ Goto("clearStub")
    /\ UNCHANGED <<head, next, cprev, prodVars, excuse>>

PopClearStub ==
    /\ cpc = "clearStub"
    /\ next' = [next EXCEPT ![Stub] = Nil]
    /\ Goto("swapStub")
    /\ UNCHANGED <<head, cprev, prodVars, excuse>>

PopSwapStub ==
    /\ cpc = "swapStub"
    /\ cprev' = head
    /\ head' = Stub
    /\ stubAt' = Len(queue) + 1
    /\ cpc' = "linkStub"
    /\ UNCHANGED <<tail, next, ret, queue, prodVars, excuse>>

PopLinkStub ==
    /\ cpc = "linkStub"
    /\ next' = [next EXCEPT ![cprev] = Stub]
    /\ cprev' = Nil
    /\ Goto("reread")
    /\ UNCHANGED <<head, prodVars, excuse>>

(* Faulty: takes the last task without looking at its Next again.          *)
PopRereadUnchecked ==
    /\ cpc = "reread"
    /\ AnswerTask(tail)
    /\ UNCHANGED <<head, next, cprev, prodVars, excuse>>

(* Faulty: leaves the last task for the following Pop.                     *)
PopRereadOmitted ==
    /\ cpc = "reread"
    /\ AnswerNull
    /\ UNCHANGED <<head, next, cprev, prodVars, excuse>>

PopReread ==
    /\ cpc = "reread"
    /\ \/ next[tail] # Nil /\ AnswerTask(tail)
       \/ next[tail] = Nil /\ AnswerNull
    /\ UNCHANGED <<head, next, cprev, prodVars, excuse>>

Release ==
    /\ cpc = "done"
    /\ cpc' = "idle" /\ ret' = Nil
    /\ UNCHANGED <<head, tail, next, cprev, prodVars, queue, stubAt, excuse>>

Consume == \/ PopBegin \/ PopPastStub \/ PopLoadHead \/ PopClearStub
           \/ PopSwapStub \/ PopLinkStub \/ PopReread \/ Release

Next == \/ \E p \in Producers, t \in Tasks : PushSwap(p, t)
        \/ \E p \in Producers : PushLink(p)
        \/ Consume

Spec == Init /\ [][Next]_vars

(***************************************************************************)
(* A thread between the two halves of Push runs on, and the owner of the   *)
(* queue keeps calling Pop (a worker on every tick, an object's consumer   *)
(* until its task counter reaches zero).  Nobody is obliged to push.       *)
(***************************************************************************)
Fairness == WF_vars(Consume) /\ \A p \in Producers : WF_vars(PushLink(p))

FairSpec == Spec /\ Fairness
-----------------------------------------------------------------------------
ConsumerPcs == {"idle", "pastStub", "loadHead", "clearStub", "swapStub",
                "linkStub", "reread", "done"}

TypeOK ==
    /\ head \in Nodes /\ tail \in Nodes
    /\ next \in [Nodes -> Nodes \cup {Nil}]
    /\ item \in [Producers -> Tasks \cup {Nil}]
    /\ prev \in [Producers -> Nodes \cup {Nil}]
    /\ cpc \in ConsumerPcs
    /\ cprev \in Nodes \cup {Nil}
    /\ ret \in Tasks \cup {Nil}
    /\ queue \in Seq(Tasks)
    /\ stubAt \in Nat
    /\ excuse \in BOOLEAN

(***************************************************************************)
(* The list from tail to head: the queued tasks with the stub among them.  *)
(***************************************************************************)
ChainLen == Len(queue) + (IF stubAt = 0 THEN 0 ELSE 1)
Chain(i) == IF stubAt = 0 \/ i < stubAt THEN queue[i]
            ELSE IF i = stubAt THEN Stub ELSE queue[i - 1]

(* A node somebody is about to write the Next field of is still in the     *)
(* list: no producer, and not the consumer either, writes into a task that *)
(* Pop handed out and its user has freed (TaskQueue.h, PrevNode->Next).    *)
InList(n) == Queued(n) \/ (n = Stub /\ stubAt # 0)

NoWriteToFreedTask ==
    /\ \A p \in Producers : item[p] # Nil => InList(prev[p])
    /\ cpc = "linkStub" => InList(cprev)

(* Two threads never hold the same predecessor: each Next field of the     *)
(* list has one writer, so no link is overwritten and no task lost.        *)
OneWriterPerLink ==
    /\ \A p, r \in Producers :
          p # r /\ item[p] # Nil /\ item[r] # Nil => prev[p] # prev[r]
    /\ cpc = "linkStub" =>
          \A p \in Producers : item[p] # Nil => prev[p] # cprev

(* Pop answers nullptr only if the queue was empty when it began or a      *)
(* push was under way at some moment of it.                                *)
NullOnlyIfEmptyOrRaced == cpc = "done" /\ ret = Nil => excuse

(***************************************************************************)
(* The shape of the list, which everything above rests on: from tail to    *)
(* head each node is either linked to the following one or its link is     *)
(* the next write of the one thread that swapped the following node in;    *)
(* the last node has no successor yet.                                     *)
(***************************************************************************)
Links(p, i) == item[p] = Chain(i + 1) /\ prev[p] = Chain(i)
StubLinks(i) == cpc = "linkStub" /\ cprev = Chain(i) /\ Chain(i + 1) = Stub

EndsInv ==
    /\ stubAt <= Len(queue) + 1
    /\ ChainLen >= 1
    /\ tail = Chain(1)
    /\ head = Chain(ChainLen)
    /\ next[head] = Nil

NoDuplicates ==
    /\ \A i, j \in 1 .. Len(queue) : queue[i] = queue[j] => i = j
    /\ \A i \in 1 .. Len(queue) : queue[i] # ret
    /\ \A p, r \in Producers : item[p] = item[r] /\ item[p] # Nil => p = r

LinkInv ==
    \A i \in 1 .. ChainLen - 1 :
        \/ next[Chain(i)] = Chain(i + 1)
        \/ next[Chain(i)] = Nil /\ (StubLinks(i) \/ \E p \in Producers : Links(p, i))

WriterInv ==
    /\ \A p \in Producers : item[p] # Nil =>
          \E i \in 1 .. ChainLen - 1 : Links(p, i) /\ next[prev[p]] = Nil
    /\ cpc = "linkStub" =>
          \E i \in 1 .. ChainLen - 1 : StubLinks(i) /\ next[cprev] = Nil

PcInv ==
    /\ cpc \in {"pastStub", "clearStub", "swapStub"} => stubAt = 0
    /\ cpc \in {"linkStub", "reread"} => stubAt >= 2
    /\ cpc = "loadHead" => tail # Stub
    /\ cpc = "swapStub" => next[Stub] = Nil
    /\ cpc # "done" => ret = Nil

ExcuseInv ==
    ~excuse => /\ cpc \notin {"idle", "done"} => ~Pushing /\ queue # <<>>
               /\ cpc = "loadHead" => tail = head
               /\ cpc = "done" => ret # Nil

(* The inductive invariant of the queue.                                   *)
ListInv == TypeOK /\ EndsInv /\ NoDuplicates /\ LinkInv /\ WriterInv /\ PcInv /\ ExcuseInv

(* The queue is a first-in first-out queue: Pop hands out the tasks in the *)
(* order of the exchanges in Push, each once.                              *)
Abs == INSTANCE FifoQueue WITH taken <- ret
Fifo == Abs!Spec

(* Every task pushed is popped, however the pushes of others interleave.   *)
EveryTaskPopped == \A t \in Tasks : Queued(t) ~> (ret = t)
=============================================================================
