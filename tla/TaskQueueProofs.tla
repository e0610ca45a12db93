--------------------------- MODULE TaskQueueProofs ---------------------------
(***************************************************************************)
(* Proofs about TaskQueue for every set of producers and of task           *)
(* addresses: ListInv is inductive, the safety properties follow from it,  *)
(* and the queue implements FifoQueue.                                     *)
(***************************************************************************)
EXTENDS TaskQueue, TLAPS

USE NodesAssumption

-----------------------------------------------------------------------------
(* What the list from tail to head contains, in any state of ListInv.      *)
LEMMA ChainFacts ==
    ASSUME TypeOK, EndsInv, NoDuplicates
    PROVE  /\ ChainLen \in Nat
           /\ \A i \in 1 .. ChainLen : Chain(i) \in Nodes
           /\ \A i, j \in 1 .. ChainLen : Chain(i) = Chain(j) => i = j
           /\ \A t \in Tasks : Queued(t) <=> \E i \in 1 .. ChainLen : Chain(i) = t
           /\ (\E i \in 1 .. ChainLen : Chain(i) = Stub) <=> stubAt # 0
<1>1. ChainLen \in Nat
  BY DEF TypeOK, ChainLen
<1>2. \A i \in 1 .. ChainLen : Chain(i) \in Nodes
  BY DEF TypeOK, ChainLen, Chain, EndsInv, Nodes
<1>3. \A i, j \in 1 .. ChainLen : Chain(i) = Chain(j) => i = j
  BY DEF TypeOK, ChainLen, Chain, EndsInv, NoDuplicates
<1>4. ASSUME NEW t \in Tasks
      PROVE  Queued(t) <=> \E i \in 1 .. ChainLen : Chain(i) = t
  <2>1. ASSUME Queued(t)
        PROVE  \E i \in 1 .. ChainLen : Chain(i) = t
    <3>1. PICK k \in 1 .. Len(queue) : queue[k] = t
      BY <2>1 DEF Queued, TypeOK
    <3>2. CASE stubAt = 0 \/ k < stubAt
      <4>1. k \in 1 .. ChainLen /\ Chain(k) = t
        BY <3>1, <3>2 DEF ChainLen, Chain, TypeOK
      <4>2. QED
        BY <4>1
    <3>3. CASE stubAt # 0 /\ k >= stubAt
      <4>1. k + 1 \in 1 .. ChainLen /\ Chain(k + 1) = t
        BY <3>1, <3>3 DEF ChainLen, Chain, TypeOK
      <4>2. QED
        BY <4>1
    <3>4. QED
      BY <3>1, <3>2, <3>3 DEF TypeOK
  <2>2. ASSUME NEW i \in 1 .. ChainLen, Chain(i) = t
        PROVE  Queued(t)
    BY <2>2 DEF ChainLen, Chain, TypeOK, EndsInv, Queued
  <2>3. QED
    BY <2>1, <2>2
<1>5. (\E i \in 1 .. ChainLen : Chain(i) = Stub) <=> stubAt # 0
  <2>1. ASSUME stubAt # 0
        PROVE  \E i \in 1 .. ChainLen : Chain(i) = Stub
    <3>1. stubAt \in 1 .. ChainLen /\ Chain(stubAt) = Stub
      BY <2>1 DEF ChainLen, Chain, TypeOK, EndsInv
    <3>2. QED
      BY <3>1
  <2>2. ASSUME NEW i \in 1 .. ChainLen, Chain(i) = Stub
        PROVE  stubAt # 0
    BY <2>2 DEF ChainLen, Chain, TypeOK, EndsInv
  <2>3. QED
    BY <2>1, <2>2
<1>6. QED
  BY <1>1, <1>2, <1>3, <1>4, <1>5

(* Appending a task extends the list at its head end.                      *)
LEMMA ChainAppend ==
    ASSUME TypeOK, EndsInv, NEW t \in Tasks,
           queue' = Append(queue, t), stubAt' = stubAt
    PROVE  /\ ChainLen' = ChainLen + 1
           /\ \A i \in 1 .. ChainLen : Chain(i)' = Chain(i)
           /\ \A n \in {ChainLen + 1} : Chain(n)' = t
<1>1. /\ Len(queue') = Len(queue) + 1
      /\ \A i \in 1 .. Len(queue) : queue'[i] = queue[i]
      /\ queue'[Len(queue) + 1] = t
  BY DEF TypeOK
<1>2. ChainLen' = ChainLen + 1
  BY <1>1 DEF TypeOK, ChainLen
<1>3. ASSUME NEW i \in 1 .. ChainLen
      PROVE  Chain(i)' = Chain(i)
  BY <1>1 DEF TypeOK, EndsInv, ChainLen, Chain
<1>4. ASSUME NEW n \in {ChainLen + 1}
      PROVE  Chain(n)' = t
  BY <1>1 DEF TypeOK, EndsInv, ChainLen, Chain
<1>5. QED
  BY <1>2, <1>3, <1>4

(* So does swapping the stub in.                                           *)
LEMMA ChainStub ==
    ASSUME TypeOK, EndsInv, stubAt = 0,
           queue' = queue, stubAt' = Len(queue) + 1
    PROVE  /\ ChainLen' = ChainLen + 1
           /\ \A i \in 1 .. ChainLen : Chain(i)' = Chain(i)
           /\ \A n \in {ChainLen + 1} : Chain(n)' = Stub
BY DEF TypeOK, EndsInv, ChainLen, Chain

(* Taking the first task, or passing the stub, drops the tail end.         *)
LEMMA ChainTail ==
    ASSUME TypeOK, EndsInv, queue # <<>>, stubAt # 1,
           queue' = Rest(queue),
           stubAt' = IF stubAt = 0 THEN 0 ELSE stubAt - 1
    PROVE  /\ ChainLen' = ChainLen - 1
           /\ \A i \in 1 .. ChainLen - 1 : Chain(i)' = Chain(i + 1)
BY DEF TypeOK, EndsInv, ChainLen, Chain, Rest

LEMMA ChainPastStub ==
    ASSUME TypeOK, EndsInv, stubAt = 1, queue' = queue, stubAt' = 0
    PROVE  /\ ChainLen' = ChainLen - 1
           /\ \A i \in 1 .. ChainLen - 1 : Chain(i)' = Chain(i + 1)
BY DEF TypeOK, EndsInv, ChainLen, Chain

LEMMA ChainSame ==
    ASSUME queue' = queue, stubAt' = stubAt
    PROVE  ChainLen' = ChainLen /\ \A i \in Int : Chain(i)' = Chain(i)
BY DEF ChainLen, Chain

(* If nothing is being linked and the first node has no successor, it is   *)
(* the only node.                                                          *)
LEMMA QuietEnd ==
    ASSUME ListInv, ~Pushing, cpc # "linkStub", next[tail] = Nil
    PROVE  ChainLen = 1 /\ tail = head
<1>1. ChainLen \in Nat /\ ChainLen >= 1 /\ tail = Chain(1) /\ head = Chain(ChainLen)
  BY ChainFacts DEF ListInv, EndsInv
<1>2. ASSUME ChainLen > 1
      PROVE  FALSE
  <2>1. 1 \in 1 .. ChainLen - 1 /\ 2 \in 1 .. ChainLen
    BY <1>1, <1>2
  <2>2. Chain(2) \in Nodes
    BY <2>1, ChainFacts DEF ListInv
  <2>3. Chain(2) # Nil
    BY <2>2 DEF Nodes
  <2>4. \E p \in Producers : Links(p, 1)
    BY <1>1, <2>1, <2>3 DEF ListInv, LinkInv, StubLinks
  <2>5. QED
    BY <2>3, <2>4 DEF Links, Pushing
<1>3. QED
  BY <1>1, <1>2

-----------------------------------------------------------------------------
LEMMA InitList == Init => ListInv
<1> SUFFICES ASSUME Init PROVE ListInv
  OBVIOUS
<1>1. ChainLen = 1 /\ Chain(1) = Stub
  BY DEF Init, ChainLen, Chain
<1>2. TypeOK
  BY DEF Init, TypeOK, Nodes, ConsumerPcs
<1>3. EndsInv
  BY <1>1 DEF Init, EndsInv, Nodes
<1>4. NoDuplicates /\ LinkInv /\ WriterInv /\ PcInv /\ ExcuseInv
  BY <1>1 DEF Init, NoDuplicates, LinkInv, WriterInv, PcInv, ExcuseInv
<1>5. QED
  BY <1>2, <1>3, <1>4 DEF ListInv

LEMMA PushSwapList ==
    ASSUME ListInv, NEW p \in Producers, NEW t \in Tasks, PushSwap(p, t)
    PROVE  ListInv'
<1> USE DEF ListInv, PushSwap
<1>1. /\ ChainLen \in Nat /\ ChainLen >= 1
      /\ \A i \in 1 .. ChainLen : Chain(i) \in Nodes /\ Chain(i) # t /\ Chain(i) # Nil
      /\ tail = Chain(1) /\ head = Chain(ChainLen) /\ next[head] = Nil
  BY ChainFacts DEF EndsInv, Nodes
<1>2. /\ ChainLen' = ChainLen + 1
      /\ \A i \in 1 .. ChainLen : Chain(i)' = Chain(i)
      /\ \A n \in {ChainLen + 1} : Chain(n)' = t
  BY ChainAppend
<1>3. /\ next' \in [Nodes -> Nodes \cup {Nil}] /\ next'[t] = Nil
      /\ \A n \in Nodes : n # t => next'[n] = next[n]
  BY DEF TypeOK, Nodes
<1>4. /\ item' \in [Producers -> Tasks \cup {Nil}] /\ item'[p] = t
      /\ prev' \in [Producers -> Nodes \cup {Nil}] /\ prev'[p] = head
      /\ \A r \in Producers : r # p => item'[r] = item[r] /\ prev'[r] = prev[r]
  BY DEF TypeOK, Nodes
<1>5. \A r \in Producers : item[r] # t
  BY <1>1 DEF WriterInv, Links
<1>6. TypeOK'
  BY <1>3, <1>4 DEF TypeOK, Nodes
<1>7. EndsInv'
  <2>1. stubAt' <= Len(queue') + 1
    BY DEF EndsInv, TypeOK
  <2>2. Chain(1)' = Chain(1)
    BY <1>1, <1>2
  <2>3. Chain(ChainLen)' = t
    BY <1>2
  <2>4. QED
    BY <1>1, <1>2, <1>3, <2>1, <2>2, <2>3 DEF EndsInv
<1>8. NoDuplicates'
  <2>1. /\ Len(queue') = Len(queue) + 1
        /\ \A i \in 1 .. Len(queue) : queue'[i] = queue[i] /\ queue[i] # t
        /\ queue'[Len(queue) + 1] = t
    BY DEF TypeOK, Queued
  <2>2. \A i, j \in 1 .. Len(queue') : queue'[i] = queue'[j] => i = j
    BY <2>1 DEF NoDuplicates, TypeOK
  <2>3. \A i \in 1 .. Len(queue') : queue'[i] # ret'
    BY <2>1 DEF NoDuplicates, TypeOK
  <2>4. QED
    BY <1>4, <1>5, <2>2, <2>3 DEF NoDuplicates
<1>9. LinkInv'
  <2> SUFFICES ASSUME NEW i \in 1 .. ChainLen
               PROVE  \/ next'[Chain(i)'] = Chain(i + 1)'
                      \/ /\ next'[Chain(i)'] = Nil
                         /\ StubLinks(i)' \/ \E r \in Producers : Links(r, i)'
    BY <1>1, <1>2 DEF LinkInv
  <2>1. CASE i = ChainLen
    <3>1. Links(p, i)'
      BY <1>1, <1>2, <1>4, <2>1 DEF Links
    <3>2. next'[Chain(i)'] = Nil
      BY <1>1, <1>2, <1>3, <2>1
    <3>3. QED
      BY <3>1, <3>2
  <2>2. CASE i < ChainLen
    <3>1. i \in 1 .. ChainLen - 1 /\ i + 1 \in 1 .. ChainLen
      BY <1>1, <2>2
    <3>2. Chain(i)' = Chain(i) /\ Chain(i + 1)' = Chain(i + 1)
      BY <1>2, <3>1
    <3>3. next'[Chain(i)'] = next[Chain(i)]
      BY <1>1, <1>3, <3>1, <3>2
    <3>4. StubLinks(i) => StubLinks(i)'
      BY <3>2 DEF StubLinks
    <3>5. \A r \in Producers : Links(r, i) => Links(r, i)'
      BY <1>1, <1>4, <3>1, <3>2 DEF Links
    <3>6. QED
      BY <3>1, <3>2, <3>3, <3>4, <3>5 DEF LinkInv
  <2>3. QED
    BY <1>1, <2>1, <2>2
<1>10. WriterInv'
  <2>1. ASSUME NEW r \in Producers, item'[r] # Nil, r # p
        PROVE  \E i \in 1 .. ChainLen' - 1 : Links(r, i)' /\ next'[prev'[r]] = Nil
    <3>1. PICK i \in 1 .. ChainLen - 1 : Links(r, i) /\ next[prev[r]] = Nil
      BY <1>4, <2>1 DEF WriterInv
    <3>2. i \in 1 .. ChainLen' - 1 /\ i \in 1 .. ChainLen /\ i + 1 \in 1 .. ChainLen
      BY <1>1, <1>2
    <3>3. Links(r, i)' /\ next'[prev'[r]] = Nil
      BY <1>1, <1>2, <1>3, <1>4, <2>1, <3>1, <3>2 DEF Links
    <3>4. QED
      BY <3>2, <3>3
  <2>2. \E i \in 1 .. ChainLen' - 1 : Links(p, i)' /\ next'[prev'[p]] = Nil
    <3>1. ChainLen \in 1 .. ChainLen' - 1
      BY <1>1, <1>2
    <3>2. ASSUME NEW n \in {ChainLen}
          PROVE  Links(p, n)' /\ next'[prev'[p]] = Nil
      BY <1>1, <1>2, <1>3, <1>4 DEF Links
    <3>3. QED
      BY <3>1, <3>2
  <2>3. ASSUME cpc' = "linkStub"
        PROVE  \E i \in 1 .. ChainLen' - 1 : StubLinks(i)' /\ next'[cprev'] = Nil
    <3>1. PICK i \in 1 .. ChainLen - 1 : StubLinks(i) /\ next[cprev] = Nil
      BY <2>3 DEF WriterInv
    <3>2. i \in 1 .. ChainLen' - 1 /\ i \in 1 .. ChainLen /\ i + 1 \in 1 .. ChainLen
      BY <1>1, <1>2
    <3>3. StubLinks(i)' /\ next'[cprev'] = Nil
      BY <1>1, <1>2, <1>3, <3>1, <3>2 DEF StubLinks
    <3>4. QED
      BY <3>2, <3>3
  <2>4. QED
    BY <2>1, <2>2, <2>3 DEF WriterInv
<1>11. PcInv'
  BY <1>3 DEF PcInv, Nodes
<1>12. ExcuseInv'
  BY DEF ExcuseInv
<1>13. QED
  BY <1>6, <1>7, <1>8, <1>9, <1>10, <1>11, <1>12

LEMMA PushLinkList ==
    ASSUME ListInv, NEW p \in Producers, PushLink(p)
    PROVE  ListInv'
<1> USE DEF ListInv, PushLink
<1>1. /\ ChainLen \in Nat /\ ChainLen >= 1
      /\ \A i \in 1 .. ChainLen : Chain(i) \in Nodes /\ Chain(i) # Nil
      /\ \A i, j \in 1 .. ChainLen : Chain(i) = Chain(j) => i = j
      /\ tail = Chain(1) /\ head = Chain(ChainLen) /\ next[head] = Nil
  BY ChainFacts DEF EndsInv, Nodes
<1>2. ChainLen' = ChainLen /\ \A i \in Int : Chain(i)' = Chain(i)
  BY ChainSame
<1>3. PICK k \in 1 .. ChainLen - 1 : Links(p, k) /\ next[prev[p]] = Nil
  BY DEF WriterInv
<1>4. /\ k \in 1 .. ChainLen /\ k + 1 \in 1 .. ChainLen
      /\ prev[p] = Chain(k) /\ item[p] = Chain(k + 1) /\ item[p] \in Tasks
  BY <1>1, <1>3 DEF Links, TypeOK
<1>5. /\ next' \in [Nodes -> Nodes \cup {Nil}] /\ next'[Chain(k)] = Chain(k + 1)
      /\ \A n \in Nodes : n # Chain(k) => next'[n] = next[n]
  BY <1>1, <1>4 DEF TypeOK, Nodes
<1>6. /\ item' \in [Producers -> Tasks \cup {Nil}] /\ item'[p] = Nil
      /\ \A r \in Producers : r # p => item'[r] = item[r]
  BY DEF TypeOK
<1>7. TypeOK'
  BY <1>5, <1>6 DEF TypeOK
<1>8. EndsInv'
  BY <1>1, <1>2, <1>4, <1>5 DEF EndsInv
<1>9. NoDuplicates'
  BY <1>6 DEF NoDuplicates
<1>10. LinkInv'
  <2> SUFFICES ASSUME NEW i \in 1 .. ChainLen - 1, i # k
               PROVE  \/ next'[Chain(i)] = Chain(i + 1)
                      \/ /\ next'[Chain(i)] = Nil
                         /\ StubLinks(i)' \/ \E r \in Producers : Links(r, i)'
    BY <1>2, <1>5 DEF LinkInv
  <2>1. i \in 1 .. ChainLen /\ Chain(i) # Chain(k)
    BY <1>1, <1>4
  <2>2. next'[Chain(i)] = next[Chain(i)]
    BY <1>1, <1>5, <2>1
  <2>3. StubLinks(i) => StubLinks(i)'
    BY <1>2 DEF StubLinks
  <2>4. \A r \in Producers : Links(r, i) => Links(r, i)'
    BY <1>2, <1>4, <1>6, <2>1 DEF Links
  <2>5. QED
    BY <2>2, <2>3, <2>4 DEF LinkInv
<1>11. WriterInv'
  <2>1. ASSUME NEW r \in Producers, item'[r] # Nil
        PROVE  \E i \in 1 .. ChainLen' - 1 : Links(r, i)' /\ next'[prev'[r]] = Nil
    <3>1. r # p /\ item[r] # Nil /\ item[r] # item[p]
      BY <1>6, <2>1 DEF NoDuplicates
    <3>2. PICK i \in 1 .. ChainLen - 1 : Links(r, i) /\ next[prev[r]] = Nil
      BY <3>1 DEF WriterInv
    <3>3. i \in 1 .. ChainLen /\ i # k
      BY <1>1, <1>4, <3>1, <3>2 DEF Links
    <3>4. Links(r, i)' /\ next'[prev'[r]] = Nil
      BY <1>1, <1>2, <1>4, <1>5, <1>6, <3>1, <3>2, <3>3 DEF Links
    <3>5. QED
      BY <1>2, <3>4
  <2>2. ASSUME cpc' = "linkStub"
        PROVE  \E i \in 1 .. ChainLen' - 1 : StubLinks(i)' /\ next'[cprev'] = Nil
    <3>1. PICK i \in 1 .. ChainLen - 1 : StubLinks(i) /\ next[cprev] = Nil
      BY <2>2 DEF WriterInv
    <3>2. i \in 1 .. ChainLen /\ i # k
      BY <1>1, <1>4, <3>1 DEF StubLinks
    <3>3. StubLinks(i)' /\ next'[cprev'] = Nil
      BY <1>1, <1>2, <1>4, <1>5, <3>1, <3>2 DEF StubLinks
    <3>4. QED
      BY <1>2, <3>3
  <2>3. QED
    BY <2>1, <2>2 DEF WriterInv
<1>12. PcInv'
  <2>1. cpc = "swapStub" => Chain(k) # Stub
    BY <1>4, ChainFacts DEF PcInv
  <2>2. QED
    BY <1>5, <2>1 DEF PcInv, Nodes
<1>13. ExcuseInv'
  BY <1>6 DEF ExcuseInv, Pushing
<1>14. QED
  BY <1>7, <1>8, <1>9, <1>10, <1>11, <1>12, <1>13

(***************************************************************************)
(* The consumer's steps.  First the three ways of going on that they       *)
(* share: everything but the excuse survives an answer of the first task.  *)
(***************************************************************************)
LEMMA AnswerTaskList ==
    ASSUME ListInv, cpc # "linkStub", tail # Stub, next[tail] # Nil,
           AnswerTask(tail), UNCHANGED <<head, next, cprev, prodVars>>,
           excuse' \in BOOLEAN
    PROVE  ListInv'
<1> USE DEF ListInv, AnswerTask, prodVars
<1>1. /\ ChainLen \in Nat /\ ChainLen >= 1
      /\ \A i \in 1 .. ChainLen : Chain(i) \in Nodes /\ Chain(i) # Nil
      /\ \A i, j \in 1 .. ChainLen : Chain(i) = Chain(j) => i = j
      /\ tail = Chain(1) /\ head = Chain(ChainLen) /\ next[head] = Nil
  BY ChainFacts DEF EndsInv, Nodes
<1>2. ChainLen >= 2 /\ 1 \in 1 .. ChainLen - 1
  BY <1>1
<1>3. stubAt # 1 /\ queue # <<>> /\ tail = queue[1] /\ Len(queue) >= 1
  BY <1>1, <1>2 DEF Chain, ChainLen, TypeOK
<1>4. /\ ChainLen' = ChainLen - 1
      /\ \A i \in 1 .. ChainLen - 1 : Chain(i)' = Chain(i + 1)
  BY <1>3, ChainTail
<1>5. next[tail] = Chain(2)
  BY <1>1, <1>2 DEF LinkInv
<1>6. /\ Len(queue') = Len(queue) - 1 /\ queue' \in Seq(Tasks)
      /\ \A i \in 1 .. Len(queue) - 1 : queue'[i] = queue[i + 1]
  BY <1>3 DEF TypeOK, Rest
<1>7. tail \in Tasks
  BY <1>3 DEF TypeOK
<1>8. TypeOK'
  BY <1>3, <1>5, <1>6, <1>7 DEF TypeOK, ConsumerPcs, Nodes
<1>9. EndsInv'
  <2>1. stubAt' <= Len(queue') + 1
    BY <1>3, <1>6 DEF EndsInv, TypeOK
  <2>2. ChainLen' >= 1 /\ tail' = Chain(1)'
    BY <1>2, <1>4, <1>5
  <2>3. ASSUME NEW n \in {ChainLen - 1}
        PROVE  Chain(n)' = head
    BY <1>1, <1>2, <1>4
  <2>4. Chain(ChainLen)' = head
    BY <1>4, <2>3
  <2>5. QED
    BY <1>1, <2>1, <2>2, <2>4 DEF EndsInv
<1>10. NoDuplicates'
  <2>1. \A i, j \in 1 .. Len(queue') : queue'[i] = queue'[j] => i = j
    BY <1>3, <1>6 DEF NoDuplicates, TypeOK
  <2>2. \A i \in 1 .. Len(queue') : queue'[i] # queue[1]
    BY <1>3, <1>6 DEF NoDuplicates, TypeOK
  <2>3. QED
    BY <1>3, <2>1, <2>2 DEF NoDuplicates
<1>11. LinkInv'
  <2> SUFFICES ASSUME NEW i \in 1 .. ChainLen' - 1
               PROVE  \/ next[Chain(i)'] = Chain(i + 1)'
                      \/ /\ next[Chain(i)'] = Nil
                         /\ \E r \in Producers : Links(r, i)'
    BY DEF LinkInv
  <2>1. i + 1 \in 1 .. ChainLen - 1 /\ i \in 1 .. ChainLen - 1
    BY <1>1, <1>4
  <2>2. Chain(i)' = Chain(i + 1) /\ Chain(i + 1)' = Chain((i + 1) + 1)
    BY <1>4, <2>1
  <2>3. \A r \in Producers : Links(r, i + 1) => Links(r, i)'
    BY <2>2 DEF Links
  <2>4. ~StubLinks(i + 1)
    BY DEF StubLinks
  <2>5. QED
    BY <2>1, <2>2, <2>3, <2>4 DEF LinkInv
<1>12. WriterInv'
  <2> SUFFICES ASSUME NEW r \in Producers, item[r] # Nil
               PROVE  \E i \in 1 .. ChainLen' - 1 : Links(r, i)' /\ next[prev[r]] = Nil
    BY DEF WriterInv
  <2>1. PICK i \in 1 .. ChainLen - 1 : Links(r, i) /\ next[prev[r]] = Nil
    BY DEF WriterInv
  <2>2. i # 1
    BY <1>1, <2>1 DEF Links
  <2>3. i - 1 \in 1 .. ChainLen' - 1 /\ (i - 1) + 1 = i /\ i \in 1 .. ChainLen - 1
    BY <1>1, <1>4, <2>2
  <2>4. ASSUME NEW j \in {i - 1}
        PROVE  Links(r, j)'
    BY <1>1, <1>4, <2>1, <2>3 DEF Links
  <2>5. QED
    BY <2>1, <2>3, <2>4
<1>13. PcInv' /\ ExcuseInv'
  BY <1>7 DEF PcInv, ExcuseInv
<1>14. QED
  BY <1>8, <1>9, <1>10, <1>11, <1>12, <1>13

LEMMA AnswerNullList ==
    ASSUME ListInv, cpc \notin {"linkStub", "done"}, AnswerNull, excuse' = TRUE,
           UNCHANGED <<head, next, cprev, prodVars>>
    PROVE  ListInv'
<1> USE DEF ListInv, AnswerNull, prodVars
<1>1. ChainLen' = ChainLen /\ \A i \in Int : Chain(i)' = Chain(i)
  BY ChainSame
<1>2. ret = Nil
  BY DEF PcInv
<1>3. TypeOK' /\ EndsInv' /\ NoDuplicates'
  <2>1. TypeOK'
    BY DEF TypeOK, ConsumerPcs
  <2>2. EndsInv'
    BY <1>1, ChainFacts DEF EndsInv
  <2>3. NoDuplicates'
    BY <1>2 DEF NoDuplicates
  <2>4. QED
    BY <2>1, <2>2, <2>3
<1>4. LinkInv'
  BY <1>1 DEF LinkInv, Links, StubLinks
<1>5. WriterInv'
  BY <1>1 DEF WriterInv, Links
<1>6. PcInv' /\ ExcuseInv'
  BY DEF PcInv, ExcuseInv
<1>7. QED
  BY <1>3, <1>4, <1>5, <1>6

LEMMA GotoLoadHeadList ==
    ASSUME ListInv, cpc \in {"idle", "pastStub"}, tail # Stub, next[tail] = Nil,
           Goto("loadHead"), UNCHANGED <<head, next, cprev, prodVars>>,
           excuse' \in BOOLEAN, ~excuse' => ~Pushing /\ queue # <<>>
    PROVE  ListInv'
<1> USE DEF ListInv, Goto, prodVars
<1>1. ChainLen' = ChainLen /\ \A i \in Int : Chain(i)' = Chain(i)
  BY ChainSame
<1>2. TypeOK'
  BY DEF TypeOK, ConsumerPcs
<1>3. EndsInv'
  BY <1>1, ChainFacts DEF EndsInv
<1>4. NoDuplicates'
  BY DEF NoDuplicates
<1>5. LinkInv' /\ WriterInv'
  BY <1>1 DEF LinkInv, WriterInv, Links, StubLinks
<1>6. PcInv'
  BY DEF PcInv
<1>7. ExcuseInv'
  BY QuietEnd DEF ExcuseInv, Pushing
<1>8. QED
  BY <1>2, <1>3, <1>4, <1>5, <1>6, <1>7

LEMMA PopBeginList ==
    ASSUME ListInv, PopBegin
    PROVE  ListInv'
<1>1. /\ cpc = "idle" /\ excuse' = (queue = <<>> \/ Pushing)
      /\ UNCHANGED <<head, next, cprev, prodVars>>
  BY DEF PopBegin
<1>2. CASE tail = Stub /\ next[Stub] = Nil /\ AnswerNull
  <2>1. ASSUME ~Pushing
        PROVE  queue = <<>>
    <3>1. ChainLen = 1 /\ Chain(1) = Stub
      BY <1>1, <1>2, <2>1, QuietEnd DEF ListInv, EndsInv
    <3>2. QED
      BY <3>1, ChainFacts DEF ListInv, TypeOK, ChainLen
  <2>2. excuse' = TRUE
    BY <1>1, <2>1
  <2>3. QED
    BY <1>1, <1>2, <2>2, AnswerNullList
<1>3. CASE /\ tail = Stub /\ next[Stub] # Nil
           /\ tail' = next[Stub] /\ stubAt' = 0 /\ cpc' = "pastStub"
           /\ UNCHANGED <<ret, queue>>
  <2> USE DEF ListInv, prodVars
  <2>1. /\ ChainLen \in Nat /\ ChainLen >= 1
        /\ \A i \in 1 .. ChainLen : Chain(i) \in Nodes /\ Chain(i) # Nil
        /\ \A i, j \in 1 .. ChainLen : Chain(i) = Chain(j) => i = j
        /\ tail = Chain(1) /\ head = Chain(ChainLen) /\ next[head] = Nil
    BY ChainFacts DEF EndsInv, Nodes
  <2>2. ChainLen >= 2 /\ 1 \in 1 .. ChainLen - 1
    BY <1>3, <2>1
  <2>3. stubAt = 1
    BY <1>3, <2>1 DEF Chain, ChainLen, TypeOK
  <2>4. /\ ChainLen' = ChainLen - 1
        /\ \A i \in 1 .. ChainLen - 1 : Chain(i)' = Chain(i + 1)
    BY <1>3, <2>3, ChainPastStub
  <2>5. next[tail] = Chain(2)
    BY <1>1, <1>3, <2>1, <2>2 DEF LinkInv
  <2>6. TypeOK'
    BY <1>1, <1>3, <2>1, <2>2, <2>5 DEF TypeOK, ConsumerPcs
  <2>7. EndsInv'
    <3>1. stubAt' <= Len(queue') + 1
      BY <1>3 DEF TypeOK
    <3>2. ChainLen' >= 1 /\ tail' = Chain(1)'
      BY <1>3, <2>2, <2>4, <2>5
    <3>3. ASSUME NEW n \in {ChainLen - 1}
          PROVE  Chain(n)' = head
      BY <2>1, <2>2, <2>4
    <3>4. Chain(ChainLen)' = head
      BY <2>4, <3>3
    <3>5. QED
      BY <1>1, <2>1, <3>1, <3>2, <3>4 DEF EndsInv
  <2>8. NoDuplicates'
    BY <1>1, <1>3 DEF NoDuplicates
  <2>9. LinkInv'
    <3> SUFFICES ASSUME NEW i \in 1 .. ChainLen' - 1
                 PROVE  \/ next[Chain(i)'] = Chain(i + 1)'
                        \/ /\ next[Chain(i)'] = Nil
                           /\ \E r \in Producers : Links(r, i)'
      BY <1>1 DEF LinkInv
    <3>1. i + 1 \in 1 .. ChainLen - 1 /\ i \in 1 .. ChainLen - 1
      BY <2>1, <2>4
    <3>2. Chain(i)' = Chain(i + 1) /\ Chain(i + 1)' = Chain((i + 1) + 1)
      BY <2>4, <3>1
    <3>3. \A r \in Producers : Links(r, i + 1) => Links(r, i)'
      BY <1>1, <3>2 DEF Links
    <3>4. ~StubLinks(i + 1)
      BY <1>1 DEF StubLinks
    <3>5. QED
      BY <3>1, <3>2, <3>3, <3>4 DEF LinkInv
  <2>10. WriterInv'
    <3> SUFFICES ASSUME NEW r \in Producers, item[r] # Nil
                 PROVE  \E i \in 1 .. ChainLen' - 1 : Links(r, i)' /\ next[prev[r]] = Nil
      BY <1>1, <1>3 DEF WriterInv
    <3>1. PICK i \in 1 .. ChainLen - 1 : Links(r, i) /\ next[prev[r]] = Nil
      BY DEF WriterInv
    <3>2. i # 1
      BY <1>3, <2>1, <3>1 DEF Links
    <3>3. i - 1 \in 1 .. ChainLen' - 1 /\ (i - 1) + 1 = i /\ i \in 1 .. ChainLen - 1
      BY <2>1, <2>4, <3>2
    <3>4. ASSUME NEW j \in {i - 1}
          PROVE  Links(r, j)'
      BY <1>1, <2>1, <2>4, <3>1, <3>3 DEF Links
    <3>5. QED
      BY <3>1, <3>3, <3>4
  <2>11. PcInv'
    BY <1>1, <1>3 DEF PcInv
  <2>12. ExcuseInv'
    BY <1>1, <1>3 DEF ExcuseInv, Pushing
  <2>13. QED
    BY <2>6, <2>7, <2>8, <2>9, <2>10, <2>11, <2>12
<1>4. CASE tail # Stub /\ next[tail] # Nil /\ AnswerTask(tail)
  BY <1>1, <1>4, AnswerTaskList
<1>5. CASE tail # Stub /\ next[tail] = Nil /\ Goto("loadHead")
  BY <1>1, <1>5, GotoLoadHeadList
<1>6. QED
  BY <1>2, <1>3, <1>4, <1>5 DEF PopBegin

LEMMA PopPastStubList ==
    ASSUME ListInv, PopPastStub
    PROVE  ListInv'
<1>1. /\ cpc = "pastStub" /\ excuse' = excuse /\ excuse' \in BOOLEAN
      /\ UNCHANGED <<head, next, cprev, prodVars>>
  BY DEF PopPastStub, ListInv, TypeOK
<1>2. tail # Stub
  BY <1>1, ChainFacts DEF ListInv, EndsInv, PcInv
<1>3. CASE next[tail] # Nil /\ AnswerTask(tail)
  BY <1>1, <1>2, <1>3, AnswerTaskList
<1>4. CASE next[tail] = Nil /\ Goto("loadHead")
  <2>1. ~excuse' => ~Pushing /\ queue # <<>>
    BY <1>1 DEF ListInv, ExcuseInv
  <2>2. QED
    BY <1>1, <1>2, <1>4, <2>1, GotoLoadHeadList
<1>5. QED
  BY <1>3, <1>4 DEF PopPastStub

LEMMA PopLoadHeadList ==
    ASSUME ListInv, PopLoadHead
    PROVE  ListInv'
<1>1. /\ cpc = "loadHead" /\ excuse' = excuse /\ tail # Stub
      /\ UNCHANGED <<head, next, cprev, prodVars>>
  BY DEF PopLoadHead, ListInv, PcInv
<1>2. CASE tail # head /\ AnswerNull
  <2>1. excuse' = TRUE
    BY <1>1, <1>2 DEF ListInv, ExcuseInv, TypeOK
  <2>2. QED
    BY <1>1, <1>2, <2>1, AnswerNullList
<1>3. CASE tail = head /\ Goto("clearStub")
  <2> USE DEF ListInv, Goto, prodVars
  <2>1. ChainLen' = ChainLen /\ \A i \in Int : Chain(i)' = Chain(i)
    BY <1>3, ChainSame
  <2>2. ChainLen = 1 /\ Chain(1) # Stub
    <3>1. ChainLen \in Nat /\ ChainLen >= 1 /\ Chain(1) = Chain(ChainLen)
      BY <1>3, ChainFacts DEF EndsInv
    <3>2. QED
      BY <1>1, <3>1, ChainFacts DEF EndsInv
  <2>3. stubAt = 0
    BY <2>2, ChainFacts
  <2>4. TypeOK'
    BY <1>1, <1>3 DEF TypeOK, ConsumerPcs
  <2>5. EndsInv'
    BY <1>1, <1>3, <2>1, ChainFacts DEF EndsInv
  <2>6. NoDuplicates'
    BY <1>1, <1>3 DEF NoDuplicates
  <2>7. LinkInv' /\ WriterInv'
    BY <1>1, <1>3, <2>1 DEF LinkInv, WriterInv, Links, StubLinks
  <2>8. PcInv' /\ ExcuseInv'
    BY <1>1, <1>3, <2>3 DEF PcInv, ExcuseInv, Pushing
  <2>9. QED
    BY <2>4, <2>5, <2>6, <2>7, <2>8
<1>4. QED
  BY <1>2, <1>3 DEF PopLoadHead

LEMMA PopClearStubList ==
    ASSUME ListInv, PopClearStub
    PROVE  ListInv'
<1> USE DEF ListInv, PopClearStub, Goto, prodVars
<1>1. ChainLen' = ChainLen /\ \A i \in Int : Chain(i)' = Chain(i)
  BY ChainSame
<1>2. /\ ChainLen \in Nat /\ ChainLen >= 1
      /\ \A i \in 1 .. ChainLen : Chain(i) \in Nodes /\ Chain(i) # Stub
      /\ tail = Chain(1) /\ head = Chain(ChainLen) /\ next[head] = Nil
  BY ChainFacts DEF EndsInv, PcInv
<1>3. /\ next' \in [Nodes -> Nodes \cup {Nil}] /\ next'[Stub] = Nil
      /\ \A i \in 1 .. ChainLen : next'[Chain(i)] = next[Chain(i)]
  BY <1>2 DEF TypeOK, Nodes
<1>4. TypeOK'
  BY <1>3 DEF TypeOK, ConsumerPcs
<1>5. EndsInv'
  BY <1>1, <1>2, <1>3 DEF EndsInv
<1>6. NoDuplicates'
  BY DEF NoDuplicates
<1>7. LinkInv'
  <2> SUFFICES ASSUME NEW i \in 1 .. ChainLen - 1
               PROVE  \/ next'[Chain(i)] = Chain(i + 1)
                      \/ /\ next'[Chain(i)] = Nil
                         /\ \E r \in Producers : Links(r, i)'
    BY <1>1 DEF LinkInv
  <2>1. next'[Chain(i)] = next[Chain(i)]
    BY <1>2, <1>3
  <2>2. \A r \in Producers : Links(r, i) => Links(r, i)'
    BY <1>1 DEF Links
  <2>3. QED
    BY <2>1, <2>2 DEF LinkInv, StubLinks
<1>8. WriterInv'
  <2> SUFFICES ASSUME NEW r \in Producers, item[r] # Nil
               PROVE  \E i \in 1 .. ChainLen' - 1 : Links(r, i)' /\ next'[prev[r]] = Nil
    BY DEF WriterInv
  <2>1. PICK i \in 1 .. ChainLen - 1 : Links(r, i) /\ next[prev[r]] = Nil
    BY DEF WriterInv
  <2>2. i \in 1 .. ChainLen /\ Links(r, i)' /\ prev[r] = Chain(i)
    BY <1>1, <1>2, <2>1 DEF Links
  <2>3. QED
    BY <1>1, <1>3, <2>1, <2>2
<1>9. PcInv' /\ ExcuseInv'
  BY <1>3 DEF PcInv, ExcuseInv, Pushing
<1>10. QED
  BY <1>4, <1>5, <1>6, <1>7, <1>8, <1>9

LEMMA PopSwapStubList ==
    ASSUME ListInv, PopSwapStub
    PROVE  ListInv'
<1> USE DEF ListInv, PopSwapStub, prodVars
<1>1. /\ ChainLen \in Nat /\ ChainLen >= 1
      /\ \A i \in 1 .. ChainLen : Chain(i) \in Nodes /\ Chain(i) # Stub
      /\ tail = Chain(1) /\ head = Chain(ChainLen) /\ next[head] = Nil
      /\ stubAt = 0 /\ next[Stub] = Nil
  BY ChainFacts DEF EndsInv, PcInv
<1>2. /\ ChainLen' = ChainLen + 1
      /\ \A i \in 1 .. ChainLen : Chain(i)' = Chain(i)
      /\ \A n \in {ChainLen + 1} : Chain(n)' = Stub
  BY <1>1, ChainStub
<1>3. Len(queue) >= 1
  BY <1>1 DEF ChainLen, TypeOK
<1>4. TypeOK'
  BY DEF TypeOK, ConsumerPcs, Nodes
<1>5. EndsInv'
  <2>1. Chain(1)' = Chain(1) /\ Chain(ChainLen)' = Stub
    BY <1>1, <1>2
  <2>2. QED
    BY <1>1, <1>2, <2>1 DEF EndsInv, TypeOK
<1>6. NoDuplicates'
  BY DEF NoDuplicates
<1>7. LinkInv'
  <2> SUFFICES ASSUME NEW i \in 1 .. ChainLen
               PROVE  \/ next[Chain(i)'] = Chain(i + 1)'
                      \/ /\ next[Chain(i)'] = Nil
                         /\ StubLinks(i)' \/ \E r \in Producers : Links(r, i)'
    BY <1>1, <1>2 DEF LinkInv
  <2>1. CASE i = ChainLen
    <3>1. StubLinks(i)'
      BY <1>1, <1>2, <2>1 DEF StubLinks
    <3>2. next[Chain(i)'] = Nil
      BY <1>1, <1>2, <2>1
    <3>3. QED
      BY <3>1, <3>2
  <2>2. CASE i < ChainLen
    <3>1. i \in 1 .. ChainLen - 1 /\ i + 1 \in 1 .. ChainLen
      BY <1>1, <2>2
    <3>2. Chain(i)' = Chain(i) /\ Chain(i + 1)' = Chain(i + 1)
      BY <1>2, <3>1
    <3>3. \A r \in Producers : Links(r, i) => Links(r, i)'
      BY <3>2 DEF Links
    <3>4. QED
      BY <3>1, <3>2, <3>3 DEF LinkInv, StubLinks
  <2>3. QED
    BY <1>1, <2>1, <2>2
<1>8. WriterInv'
  <2>1. ASSUME NEW r \in Producers, item[r] # Nil
        PROVE  \E i \in 1 .. ChainLen' - 1 : Links(r, i)' /\ next[prev[r]] = Nil
    <3>1. PICK i \in 1 .. ChainLen - 1 : Links(r, i) /\ next[prev[r]] = Nil
      BY <2>1 DEF WriterInv
    <3>2. i \in 1 .. ChainLen' - 1 /\ i \in 1 .. ChainLen /\ i + 1 \in 1 .. ChainLen
      BY <1>1, <1>2
    <3>3. Links(r, i)'
      BY <1>2, <3>1, <3>2 DEF Links
    <3>4. QED
      BY <3>1, <3>2, <3>3
  <2>2. \E i \in 1 .. ChainLen' - 1 : StubLinks(i)' /\ next[cprev'] = Nil
    <3>1. ChainLen \in 1 .. ChainLen' - 1
      BY <1>1, <1>2
    <3>2. ASSUME NEW n \in {ChainLen}
          PROVE  StubLinks(n)' /\ next[cprev'] = Nil
      BY <1>1, <1>2 DEF StubLinks
    <3>3. QED
      BY <3>1, <3>2
  <2>3. QED
    BY <2>1, <2>2 DEF WriterInv
<1>9. PcInv' /\ ExcuseInv'
  BY <1>3 DEF PcInv, ExcuseInv, TypeOK, Pushing
<1>10. QED
  BY <1>4, <1>5, <1>6, <1>7, <1>8, <1>9

LEMMA PopLinkStubList ==
    ASSUME ListInv, PopLinkStub
    PROVE  ListInv'
<1> USE DEF ListInv, PopLinkStub, Goto, prodVars
<1>1. /\ ChainLen \in Nat /\ ChainLen >= 1
      /\ \A i \in 1 .. ChainLen : Chain(i) \in Nodes /\ Chain(i) # Nil
      /\ \A i, j \in 1 .. ChainLen : Chain(i) = Chain(j) => i = j
      /\ tail = Chain(1) /\ head = Chain(ChainLen) /\ next[head] = Nil
  BY ChainFacts DEF EndsInv, Nodes
<1>2. ChainLen' = ChainLen /\ \A i \in Int : Chain(i)' = Chain(i)
  BY ChainSame
<1>3. PICK k \in 1 .. ChainLen - 1 : StubLinks(k) /\ next[cprev] = Nil
  BY DEF WriterInv
<1>4. /\ k \in 1 .. ChainLen /\ k + 1 \in 1 .. ChainLen
      /\ cprev = Chain(k) /\ Chain(k + 1) = Stub
  BY <1>1, <1>3 DEF StubLinks
<1>5. /\ next' \in [Nodes -> Nodes \cup {Nil}] /\ next'[Chain(k)] = Stub
      /\ \A n \in Nodes : n # Chain(k) => next'[n] = next[n]
  BY <1>1, <1>4 DEF TypeOK, Nodes
<1>6. TypeOK'
  BY <1>5 DEF TypeOK, ConsumerPcs
<1>7. EndsInv'
  BY <1>1, <1>2, <1>4, <1>5 DEF EndsInv
<1>8. NoDuplicates'
  BY DEF NoDuplicates
<1>9. LinkInv'
  <2> SUFFICES ASSUME NEW i \in 1 .. ChainLen - 1, i # k
               PROVE  \/ next'[Chain(i)] = Chain(i + 1)
                      \/ /\ next'[Chain(i)] = Nil
                         /\ \E r \in Producers : Links(r, i)'
    BY <1>2, <1>4, <1>5 DEF LinkInv
  <2>1. i \in 1 .. ChainLen /\ Chain(i) # Chain(k)
    BY <1>1, <1>4
  <2>2. next'[Chain(i)] = next[Chain(i)] /\ ~StubLinks(i)
    BY <1>1, <1>4, <1>5, <2>1 DEF StubLinks
  <2>3. \A r \in Producers : Links(r, i) => Links(r, i)'
    BY <1>2 DEF Links
  <2>4. QED
    BY <2>2, <2>3 DEF LinkInv
<1>10. WriterInv'
  <2> SUFFICES ASSUME NEW r \in Producers, item[r] # Nil
               PROVE  \E i \in 1 .. ChainLen' - 1 : Links(r, i)' /\ next'[prev[r]] = Nil
    BY DEF WriterInv
  <2>1. PICK i \in 1 .. ChainLen - 1 : Links(r, i) /\ next[prev[r]] = Nil
    BY DEF WriterInv
  <2>2. i \in 1 .. ChainLen /\ item[r] \in Tasks
    BY <1>1 DEF TypeOK
  <2>3. i # k
    BY <1>4, <2>1, <2>2 DEF Links
  <2>4. Links(r, i)' /\ next'[prev[r]] = Nil
    BY <1>1, <1>2, <1>4, <1>5, <2>1, <2>2, <2>3 DEF Links
  <2>5. QED
    BY <1>2, <2>4
<1>11. PcInv' /\ ExcuseInv'
  BY DEF PcInv, ExcuseInv, Pushing
<1>12. QED
  BY <1>6, <1>7, <1>8, <1>9, <1>10, <1>11

LEMMA PopRereadList ==
    ASSUME ListInv, PopReread
    PROVE  ListInv'
<1>1. /\ cpc = "reread" /\ excuse' = excuse /\ excuse' \in BOOLEAN
      /\ UNCHANGED <<head, next, cprev, prodVars>>
  BY DEF PopReread, ListInv, TypeOK
<1>2. stubAt >= 2 /\ Len(queue) >= 1 /\ ChainLen >= 2
  BY <1>1 DEF ListInv, PcInv, EndsInv, TypeOK, ChainLen
<1>3. tail # Stub
  BY <1>2 DEF ListInv, EndsInv, Chain, TypeOK
<1>4. CASE next[tail] # Nil /\ AnswerTask(tail)
  BY <1>1, <1>3, <1>4, AnswerTaskList
<1>5. CASE next[tail] = Nil /\ AnswerNull
  <2>1. Pushing
    BY <1>1, <1>2, <1>5, QuietEnd
  <2>2. excuse' = TRUE
    BY <1>1, <2>1 DEF ListInv, ExcuseInv, TypeOK
  <2>3. QED
    BY <1>1, <1>5, <2>2, AnswerNullList
<1>6. QED
  BY <1>4, <1>5 DEF PopReread

LEMMA ReleaseList ==
    ASSUME ListInv, Release
    PROVE  ListInv'
<1> USE DEF ListInv, Release, prodVars
<1>1. ChainLen' = ChainLen /\ \A i \in Int : Chain(i)' = Chain(i)
  BY ChainSame
<1>2. TypeOK'
  BY DEF TypeOK, ConsumerPcs
<1>3. EndsInv'
  BY <1>1, ChainFacts DEF EndsInv
<1>4. NoDuplicates'
  BY DEF NoDuplicates, TypeOK
<1>5. LinkInv' /\ WriterInv'
  BY <1>1 DEF LinkInv, WriterInv, Links, StubLinks
<1>6. PcInv' /\ ExcuseInv'
  BY DEF PcInv, ExcuseInv
<1>7. QED
  BY <1>2, <1>3, <1>4, <1>5, <1>6

LEMMA StutterList == ListInv /\ UNCHANGED vars => ListInv'
<1> SUFFICES ASSUME ListInv, UNCHANGED vars PROVE ListInv'
  OBVIOUS
<1> USE DEF ListInv, vars
<1>1. ChainLen' = ChainLen /\ \A i \in Int : Chain(i)' = Chain(i)
  BY ChainSame
<1>2. TypeOK' /\ NoDuplicates' /\ PcInv' /\ ExcuseInv'
  BY DEF TypeOK, NoDuplicates, PcInv, ExcuseInv, Pushing
<1>3. EndsInv'
  BY <1>1, ChainFacts DEF EndsInv
<1>4. LinkInv' /\ WriterInv'
  BY <1>1 DEF LinkInv, WriterInv, Links, StubLinks
<1>5. QED
  BY <1>2, <1>3, <1>4

(* The list is well formed in every reachable state, for any number of     *)
(* producers and of task addresses (Push and Pop of TaskQueue.h).          *)
THEOREM ListInvariant == Spec => []ListInv
<1>1. ListInv /\ [Next]_vars => ListInv'
  BY PushSwapList, PushLinkList, PopBeginList, PopPastStubList, PopLoadHeadList,
     PopClearStubList, PopSwapStubList, PopLinkStubList, PopRereadList,
     ReleaseList, StutterList DEF Next, Consume
<1>2. QED
  BY InitList, <1>1, PTL DEF Spec

-----------------------------------------------------------------------------
(* No producer, and not the consumer, ever writes the Next field of a task *)
(* that Pop has handed out, though its memory may already be reused        *)
(* (PrevNode->Next = InTask in Push).                                      *)
THEOREM NoWriteAfterFree == Spec => []NoWriteToFreedTask
<1>1. ListInv => NoWriteToFreedTask
  <2> SUFFICES ASSUME ListInv PROVE NoWriteToFreedTask
    OBVIOUS
  <2> USE DEF ListInv
  <2>1. ASSUME NEW i \in 1 .. ChainLen - 1
        PROVE  InList(Chain(i))
    <3>1. i \in 1 .. ChainLen /\ Chain(i) \in Nodes
      BY ChainFacts
    <3>2. QED
      BY <3>1, ChainFacts DEF InList, Nodes
  <2>2. QED
    BY <2>1 DEF NoWriteToFreedTask, WriterInv, Links, StubLinks
<1>2. QED
  BY <1>1, ListInvariant, PTL

(* Each link of the list has one thread that will write it.                *)
THEOREM SingleWriter == Spec => []OneWriterPerLink
<1>1. ListInv => OneWriterPerLink
  <2> SUFFICES ASSUME ListInv PROVE OneWriterPerLink
    OBVIOUS
  <2> USE DEF ListInv
  <2>0. ChainLen \in Nat
    BY ChainFacts
  <2>1. ASSUME NEW p \in Producers, NEW r \in Producers, item[p] # Nil,
               item[r] # Nil, prev[p] = prev[r]
        PROVE  p = r
    <3>1. PICK i \in 1 .. ChainLen - 1 : Links(p, i)
      BY <2>1 DEF WriterInv
    <3>2. PICK j \in 1 .. ChainLen - 1 : Links(r, j)
      BY <2>1 DEF WriterInv
    <3>3. i \in 1 .. ChainLen /\ j \in 1 .. ChainLen /\ Chain(i) = Chain(j)
      <4>1. i \in 1 .. ChainLen /\ j \in 1 .. ChainLen
        BY <2>0
      <4>2. prev[p] = Chain(i)
        BY <3>1 DEF Links
      <4>3. prev[r] = Chain(j)
        BY <3>2 DEF Links
      <4>4. QED
        BY <2>1, <4>1, <4>2, <4>3
    <3>4. i = j
      BY <3>3, ChainFacts
    <3>5. QED
      BY <2>1, <3>1, <3>2, <3>4 DEF Links, NoDuplicates
  <2>2. ASSUME NEW p \in Producers, item[p] # Nil, cpc = "linkStub", prev[p] = cprev
        PROVE  FALSE
    <3>1. PICK i \in 1 .. ChainLen - 1 : Links(p, i)
      BY <2>2 DEF WriterInv
    <3>2. PICK j \in 1 .. ChainLen - 1 : StubLinks(j)
      BY <2>2 DEF WriterInv
    <3>3. i \in 1 .. ChainLen /\ j \in 1 .. ChainLen /\ Chain(i) = Chain(j)
      <4>1. i \in 1 .. ChainLen /\ j \in 1 .. ChainLen
        BY <2>0
      <4>2. prev[p] = Chain(i) /\ cprev = Chain(j)
        BY <3>1, <3>2 DEF Links, StubLinks
      <4>3. QED
        BY <2>2, <4>1, <4>2
    <3>4. item[p] = Stub
      BY <3>1, <3>2, <3>3, ChainFacts DEF Links, StubLinks
    <3>5. QED
      BY <2>2, <3>4 DEF TypeOK
  <2>3. QED
    BY <2>1, <2>2 DEF OneWriterPerLink
<1>2. QED
  BY <1>1, ListInvariant, PTL

(* A null answer of Pop has a reason: empty at the start, or a racing push.*)
THEOREM NullAnswer == Spec => []NullOnlyIfEmptyOrRaced
<1>1. ListInv => NullOnlyIfEmptyOrRaced
  BY DEF ListInv, ExcuseInv, NullOnlyIfEmptyOrRaced
<1>2. QED
  BY <1>1, ListInvariant, PTL

(* An answer of a task is the abstract queue's Pop.                        *)
LEMMA AnswerIsPop ==
    ASSUME ListInv, cpc # "done", tail # Stub, AnswerTask(tail)
    PROVE  Abs!Pop
<1>1. ChainLen \in Nat /\ ChainLen >= 1 /\ tail = Chain(1)
  BY ChainFacts DEF ListInv, EndsInv
<1>2. tail = queue[1] /\ queue # <<>> /\ queue \in Seq(Tasks)
  <2>1. queue \in Seq(Tasks) /\ stubAt \in Nat /\ stubAt <= Len(queue) + 1
    BY DEF ListInv, TypeOK, EndsInv
  <2>2. stubAt # 1
    BY <1>1 DEF Chain
  <2>3. Len(queue) >= 1
    BY <1>1, <2>1, <2>2 DEF ChainLen
  <2>4. QED
    BY <1>1, <2>1, <2>2, <2>3 DEF Chain
<1>3. ret = Nil
  BY DEF ListInv, PcInv
<1>4. QED
  BY <1>2, <1>3 DEF AnswerTask, Rest, Abs!Pop

(* The queue of TaskQueue.h implements the first-in first-out queue, the   *)
(* exchange in Push being the moment a task is queued and the step that    *)
(* returns it the moment it is taken.                                      *)
THEOREM ImplementsFifo == Spec => Fifo
<1> USE DEF Abs!vars
<1>1. Init => Abs!Init
  BY DEF Init, Abs!Init
<1>2. ASSUME ListInv, [Next]_vars
      PROVE  [Abs!Next]_(Abs!vars)
  <2> USE DEF Abs!Next
  <2>1. ASSUME NEW p \in Producers, NEW t \in Tasks, PushSwap(p, t)
        PROVE  Abs!Push(t)
    BY <2>1 DEF PushSwap, Queued, Abs!Push, Abs!InQueue
  <2>2. ASSUME NEW p \in Producers, PushLink(p)
        PROVE  UNCHANGED Abs!vars
    BY <2>2 DEF PushLink
  <2>3. CASE PopBegin
    <3>1. cpc = "idle" /\ ret = Nil
      BY <1>2, <2>3 DEF PopBegin, ListInv, PcInv
    <3>2. QED
      BY <1>2, <2>3, <3>1, AnswerIsPop DEF PopBegin, AnswerNull, Goto
  <2>4. CASE PopPastStub
    <3>1. cpc = "pastStub" /\ ret = Nil /\ tail # Stub
      BY <1>2, <2>4, ChainFacts DEF PopPastStub, ListInv, PcInv, EndsInv
    <3>2. QED
      BY <1>2, <2>4, <3>1, AnswerIsPop DEF PopPastStub, Goto
  <2>5. CASE PopLoadHead
    <3>1. ret = Nil
      BY <1>2, <2>5 DEF PopLoadHead, ListInv, PcInv
    <3>2. QED
      BY <2>5, <3>1 DEF PopLoadHead, AnswerNull, Goto
  <2>6. CASE PopReread
    <3>1. cpc = "reread" /\ ret = Nil /\ stubAt >= 2
      BY <1>2, <2>6 DEF PopReread, ListInv, PcInv
    <3>2. tail # Stub
      BY <1>2, <3>1 DEF ListInv, EndsInv, Chain, TypeOK
    <3>3. QED
      BY <1>2, <2>6, <3>1, <3>2, AnswerIsPop DEF PopReread, AnswerNull
  <2>7. CASE PopClearStub \/ PopSwapStub \/ PopLinkStub
    BY <2>7 DEF PopClearStub, PopSwapStub, PopLinkStub, Goto
  <2>8. CASE Release
    BY <2>8 DEF Release, Abs!Release
  <2>9. CASE UNCHANGED vars
    BY <2>9 DEF vars
  <2>10. QED
    BY <1>2, <2>1, <2>2, <2>3, <2>4, <2>5, <2>6, <2>7, <2>8, <2>9 DEF Next, Consume
<1>3. QED
  BY <1>1, <1>2, ListInvariant, PTL DEF Spec, Fifo, Abs!Spec
=============================================================================
