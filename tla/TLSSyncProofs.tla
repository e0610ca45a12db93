---------------------------- MODULE TLSSyncProofs ----------------------------
(***************************************************************************)
(* For any number of workers and tasks and any size of the ring: while     *)
(* callers leave one slot of the ring empty, every worker runs every task  *)
(* once, nobody touches a freed task, and the last worker frees it.        *)
(*                                                                         *)
(* The workers go round the ring at different times, with indexes of their *)
(* own, and a slot says nothing of the index it was filled for.  That a    *)
(* worker never takes an old or a later task for its next one follows from *)
(* a window: a task that somebody has yet to release is followed only by   *)
(* such tasks, so all of them are outstanding and they are fewer than the  *)
(* slots.                                                                  *)
(***************************************************************************)
EXTENDS TLSSync, Integers, FiniteSetTheorems, SequenceTheorems, TLAPS

(***************************************************************************)
(* Slots of the ring.                                                      *)
(***************************************************************************)
LEMMA Quotient ==
    \A n \in Nat \ {0}, i \in Nat : \E q \in Nat : i = n * q + (i % n) /\ i % n \in 0 .. n - 1
  <1> SUFFICES ASSUME NEW n \in Nat \ {0}, NEW i \in Nat
               PROVE  \E q \in Nat : i = n * q + (i % n) /\ i % n \in 0 .. n - 1
      OBVIOUS
  <1>1. i = n * (i \div n) + (i % n) /\ i % n \in 0 .. n - 1 /\ i \div n \in Nat
      OBVIOUS
  <1> QED BY <1>1

LEMMA SlotInSlots == \A i \in Nat : Slot(i) \in Slots
  <1> QED BY Quotient, SizeAssumption DEF Slot, Slots

(* Indexes less than Size apart have different slots.                      *)
LEMMA SlotsApart ==
    ASSUME NEW i \in Nat, NEW j \in Nat, i < j, j < i + Size
    PROVE  Slot(i) # Slot(j)
  <1> SUFFICES ASSUME i % Size = j % Size PROVE FALSE
      BY DEF Slot
  <1>a. PICK a \in Nat : i = Size * a + (i % Size) /\ i % Size \in 0 .. Size - 1
      BY Quotient, SizeAssumption
  <1>b. PICK b \in Nat : j = Size * b + (j % Size)
      BY Quotient, SizeAssumption
  <1>1. Size \in Nat /\ Size * a \in Nat /\ Size * b \in Nat
      BY SizeAssumption
  <1>2. CASE a < b
    <2>1. Size * (b - a - 1) >= 0
        BY <1>2, SizeAssumption
    <2>2. Size * b >= Size * a + Size
        BY <2>1, SizeAssumption
    <2> QED BY <1>a, <1>b, <1>1, <2>2
  <1>3. CASE b <= a
    <2>1. Size * (a - b) >= 0
        BY <1>3, SizeAssumption
    <2>2. Size * a >= Size * b
        BY <2>1, SizeAssumption
    <2> QED BY <1>a, <1>b, <1>1, <2>2
  <1> QED BY <1>2, <1>3

(***************************************************************************)
(* The invariant while the workers run.                                    *)
(***************************************************************************)
Final == {"finalize", "pop", "free"}

Issued == {t \in Tasks : status[t] # "new"}

Released(w, t) ==
    \/ idx[w] > index[t]
    \/ idx[w] = index[t] /\ pc[w] \in Final \cup {"next"}

Unreleased(t) == {w \in Workers : ~ Released(w, t)}

Running == \A w \in Workers : pc[w] # "gone"

(* The indexes of the tasks are 0, 1, ... up to the head.                  *)
Order ==
    /\ \A t \in Issued : index[t] < head
    /\ \A t, u \in Issued : index[t] = index[u] => t = u
    /\ \A i \in Nat : i < head => \E t \in Issued : index[t] = i

FewOutstanding == IsFiniteSet(Outstanding) /\ Cardinality(Outstanding) <= MaxOutstanding

(* The references of a task are those of the workers that have not released*)
(* it; a task without references is about to be popped, by its finalizer.  *)
RefsExact ==
    /\ \A t \in Issued : refs[t] = Cardinality(Unreleased(t))
    /\ \A t \in Issued \ Outstanding : refs[t] = 0
    /\ \A t \in Outstanding : refs[t] = 0 =>
          \E w \in Workers : pc[w] \in {"finalize", "pop"} /\ cur[w] = t

(* A task that is stored is in its slot and no slot holds anything else.   *)
Ring ==
    /\ \A s \in Slots : items[s] # Null => status[items[s]] = "stored" /\ Slot(index[items[s]]) = s
    /\ \A t \in Tasks : status[t] = "stored" => items[Slot(index[t])] = t
    /\ \A t \in Tasks : status[t] = "claimed" => items[Slot(index[t])] = Null

(* What a worker in its tick has: the task of its index, and one worker    *)
(* finalizes a task.                                                       *)
Ticks ==
    \A w \in Workers :
        /\ idx[w] <= head
        /\ pc[w] \in Busy => cur[w] \in Issued /\ index[cur[w]] = idx[w]
        /\ pc[w] \in {"dispatch", "release", "finalize", "pop"} => status[cur[w]] = "stored"
        /\ pc[w] = "free" => status[cur[w]] = "popped"
        /\ pc[w] \in Final => /\ refs[cur[w]] = 0
                              /\ \A v \in Workers : pc[v] \in Final /\ cur[v] = cur[w] => v = w

Finals ==
    /\ \A t \in Tasks : finals[t] \in {0, 1}
    /\ \A t \in Tasks : finals[t] = 1 => t \in Issued /\ refs[t] = 0
    /\ \A w \in Workers : pc[w] = "finalize" => finals[cur[w]] = 0

Live ==
    /\ TypeOK /\ Running /\ Order /\ FewOutstanding /\ RefsExact
    /\ Ring /\ Ticks /\ OncePerWorker /\ Finals

(* After Clear nothing happens any more.                                   *)
Over == \A w \in Workers : pc[w] = "gone"

IInv == Live \/ (Over /\ RingInv /\ FreedLast)

LEMMA WorkersFinite ==
    ASSUME NEW S \in SUBSET Workers
    PROVE  /\ IsFiniteSet(S) /\ Cardinality(S) \in Nat
           /\ Cardinality(S) = 0 <=> S = {}
           /\ Cardinality(S) <= Cardinality(Workers)
  <1>1. IsFiniteSet(S) /\ Cardinality(S) <= Cardinality(Workers)
      BY SizeAssumption, FS_Subset
  <1> QED BY <1>1, FS_CardinalityType, FS_EmptySet

LEMMA InitLive == Init => Live
  <1> SUFFICES ASSUME Init PROVE Live
      OBVIOUS
  <1>1. TypeOK
    <2>1. 0 \in 0 .. Cardinality(Workers)
        BY WorkersFinite
    <2> QED BY <2>1 DEF Init, TypeOK, Busy
  <1>2. Outstanding = {} /\ Issued = {}
      BY DEF Init, Outstanding, Issued
  <1>3. FewOutstanding
      BY <1>2, FS_EmptySet, SizeAssumption DEF FewOutstanding
  <1>4. Running /\ Order /\ RefsExact
      BY <1>2 DEF Init, Running, Order, RefsExact
  <1>5. Ring
      BY DEF Init, Ring, Slots
  <1>6. Ticks /\ OncePerWorker /\ Finals
      BY DEF Init, Ticks, OncePerWorker, Finals, Busy, Final
  <1> QED BY <1>1, <1>3, <1>4, <1>5, <1>6 DEF Live

(***************************************************************************)
(* The window.                                                             *)
(***************************************************************************)
LEMMA NotReleased ==
    ASSUME Live, NEW w \in Workers, NEW t \in Issued, ~ Released(w, t)
    PROVE  t \in Outstanding /\ refs[t] # 0
  <1>1. Unreleased(t) \in SUBSET Workers /\ w \in Unreleased(t)
      BY DEF Unreleased
  <1>2. refs[t] # 0
      BY <1>1, WorkersFinite DEF Live, RefsExact
  <1> QED BY <1>2 DEF Live, RefsExact

(* Tasks from index b on, all outstanding, are no more than there may be.  *)
LEMMA Window ==
    ASSUME Live, NEW b \in Nat, b <= head, \A t \in Issued : index[t] >= b => t \in Outstanding
    PROVE  head <= b + Cardinality(Outstanding)
  <1> DEFINE f == [i \in b .. head - 1 |-> CHOOSE t \in Issued : index[t] = i]
  <1>0. head \in Nat
      BY DEF Live, TypeOK
  <1>1. \A i \in b .. head - 1 : f[i] \in Issued /\ index[f[i]] = i
    <2> TAKE i \in b .. head - 1
    <2>1. \E t \in Issued : index[t] = i
        BY <1>0 DEF Live, Order
    <2> QED BY <2>1
  <1>2. \A i \in b .. head - 1 : f[i] \in Outstanding
      BY <1>0, <1>1
  <1> HIDE DEF f
  <1>3. f \in Injection(b .. head - 1, Outstanding)
    <2>1. f \in [b .. head - 1 -> Outstanding]
        BY <1>2 DEF f
    <2>2. \A i, j \in b .. head - 1 : f[i] = f[j] => i = j
        BY <1>1
    <2> QED BY <2>1, <2>2 DEF Injection, IsInjective
  <1>4. Cardinality(b .. head - 1) <= Cardinality(Outstanding)
      BY <1>3, FS_Injection DEF Live, FewOutstanding
  <1>5. Cardinality(b .. head - 1) = head - b
      BY <1>0, FS_Interval
  <1>6. Cardinality(Outstanding) \in Nat
      BY FS_CardinalityType DEF Live, FewOutstanding
  <1> QED BY <1>0, <1>4, <1>5, <1>6

(* From an outstanding task on, all are.                                   *)
LEMMA WindowOf ==
    ASSUME Live, NEW t \in Outstanding
    PROVE  head <= index[t] + Cardinality(Outstanding)
  <1>0. t \in Issued /\ Outstanding \subseteq Issued /\ index \in [Tasks -> Nat] /\ idx \in [Workers -> Nat]
      BY DEF Outstanding, Issued, Live, TypeOK
  <1>1. PICK w \in Workers : \A u \in Issued : index[u] > index[t] => ~ Released(w, u)
    <2>1. CASE refs[t] = 0
      <3>1. PICK w \in Workers : pc[w] \in {"finalize", "pop"} /\ cur[w] = t
          BY <2>1 DEF Live, RefsExact
      <3>2. idx[w] = index[t]
          BY <3>1 DEF Live, Ticks, Busy
      <3> QED BY <1>0, <3>2 DEF Released, Issued
    <2>2. CASE refs[t] # 0
      <3>1. PICK w \in Workers : ~ Released(w, t)
        <4>1. Unreleased(t) \in SUBSET Workers
            BY DEF Unreleased
        <4>2. Unreleased(t) # {}
            BY <1>0, <2>2, <4>1, WorkersFinite DEF Live, RefsExact
        <4> QED BY <4>2 DEF Unreleased
      <3>2. idx[w] <= index[t]
          BY <1>0, <3>1 DEF Released, Issued
      <3> QED BY <1>0, <3>2 DEF Released, Issued
    <2> QED BY <2>1, <2>2
  <1>2. \A u \in Issued : index[u] >= index[t] => u \in Outstanding
    <2> SUFFICES ASSUME NEW u \in Issued, index[u] >= index[t] PROVE u \in Outstanding
        OBVIOUS
    <2>1. CASE index[u] = index[t]
        BY <1>0, <2>1 DEF Live, Order
    <2>2. CASE index[u] > index[t]
        BY <1>1, <2>2, NotReleased
    <2> QED BY <1>0, <2>1, <2>2 DEF Issued
  <1>3. index[t] \in Nat /\ index[t] <= head
      BY <1>0 DEF Live, TypeOK, Order, Issued
  <1> QED BY <1>2, <1>3, Window

(* Two outstanding tasks, or one and the next to come, have two slots.     *)
LEMMA OwnSlots ==
    ASSUME Live, MaxOutstanding < Size, NEW t \in Outstanding
    PROVE  /\ \A u \in Outstanding : u # t => Slot(index[u]) # Slot(index[t])
           /\ \A i \in Nat : index[t] < i /\ i <= head => Slot(i) # Slot(index[t])
  <1>0. /\ Outstanding \subseteq Issued /\ Outstanding \subseteq Tasks
        /\ index \in [Tasks -> Nat] /\ head \in Nat
      BY DEF Outstanding, Issued, Live, TypeOK
  <1>1. Size \in Nat /\ MaxOutstanding \in Nat /\ Cardinality(Outstanding) \in Nat
        /\ Cardinality(Outstanding) < Size
      BY SizeAssumption, FS_CardinalityType DEF Live, FewOutstanding
  <1>2. ASSUME NEW v \in Outstanding, NEW i \in Nat, index[v] < i, i <= head
        PROVE  Slot(i) # Slot(index[v])
    <2>1. i < index[v] + Size
        BY <1>0, <1>1, <1>2, WindowOf
    <2> QED BY <1>0, <1>2, <2>1, SlotsApart
  <1>3. ASSUME NEW u \in Outstanding, u # t PROVE Slot(index[u]) # Slot(index[t])
    <2>1. /\ index[u] # index[t] /\ index[u] < head /\ index[t] < head
          /\ index[u] \in Nat /\ index[t] \in Nat
        BY <1>0, <1>3 DEF Live, Order
    <2>2. CASE index[t] < index[u]
        BY <1>0, <1>2, <2>1, <2>2
    <2>3. CASE index[u] < index[t]
        BY <1>0, <1>2, <2>1, <2>3
    <2> QED BY <2>1, <2>2, <2>3
  <1> QED BY <1>2, <1>3

(* A worker finds in the slot of its next index the task of this index.    *)
LEMMA Loaded ==
    ASSUME Live, MaxOutstanding < Size, NEW w \in Workers, NEW i \in Nat,
           \/ pc[w] = "loop" /\ i = idx[w]
           \/ pc[w] = "next" /\ i = idx[w] + 1,
           items[Slot(i)] # Null
    PROVE  /\ items[Slot(i)] \in Issued /\ status[items[Slot(i)]] = "stored"
           /\ index[items[Slot(i)]] = i
  <1> DEFINE t == items[Slot(i)]
  <1>0. /\ index \in [Tasks -> Nat] /\ idx \in [Workers -> Nat] /\ head \in Nat
        /\ Issued \subseteq Tasks /\ Slot(i) \in Slots
      BY SlotInSlots DEF Live, TypeOK, Issued
  <1>1. status[t] = "stored" /\ Slot(index[t]) = Slot(i)
      BY <1>0 DEF Live, Ring
  <1>2. t \in Outstanding /\ t \in Issued
      BY <1>0, <1>1 DEF Live, TypeOK, Outstanding, Issued
  <1>3. i <= head
    <2>1. CASE pc[w] = "loop" /\ i = idx[w]
        BY <2>1 DEF Live, Ticks
    <2>2. CASE pc[w] = "next" /\ i = idx[w] + 1
      <3>1. cur[w] \in Issued /\ index[cur[w]] = idx[w]
          BY <2>2 DEF Live, Ticks, Busy
      <3> QED BY <1>0, <2>2, <3>1 DEF Live, Order
    <2> QED BY <2>1, <2>2
  <1>4. \A u \in Issued : index[u] >= i => u \in Outstanding
    <2> SUFFICES ASSUME NEW u \in Issued, index[u] >= i PROVE ~ Released(w, u)
        BY NotReleased
    <2> QED BY <1>0 DEF Released, Final
  <1>5. Size \in Nat /\ Cardinality(Outstanding) \in Nat /\ Cardinality(Outstanding) < Size
      BY SizeAssumption, FS_CardinalityType DEF Live, FewOutstanding
  <1> HIDE DEF t
  <1>6. ~ (index[t] < i)
      BY <1>1, <1>2, <1>3, OwnSlots
  <1>7. ~ (i < index[t])
    <2> SUFFICES ASSUME i < index[t] PROVE FALSE
        OBVIOUS
    <2>1. head <= i + Cardinality(Outstanding)
        BY <1>3, <1>4, Window
    <2>2. index[t] < i + Size /\ index[t] \in Nat
        BY <1>0, <1>2, <1>5, <2>1 DEF Live, Order
    <2> QED BY <1>1, <2>2, SlotsApart
  <1>8. index[t] = i
      BY <1>0, <1>2, <1>6, <1>7
  <1> QED BY <1>1, <1>2, <1>8 DEF t

(***************************************************************************)
(* The steps while the workers run, one lemma for each part.               *)
(***************************************************************************)
LEMMA TypedStep ==
    ASSUME Live, MaxOutstanding < Size, [Next]_vars, ~ Clear
    PROVE  TypeOK'
  <1>0. TypeOK /\ Ticks
      BY DEF Live
  <1>c. Cardinality(Workers) \in Nat
      BY WorkersFinite
  <1> USE <1>0 DEF TypeOK
  <1>1. ASSUME NEW t \in Tasks, Claim(t) PROVE TypeOK'
      BY <1>1, <1>c DEF Claim, workerVars, history
  <1>2. ASSUME NEW t \in Tasks, Store(t) PROVE TypeOK'
      BY <1>2 DEF Store, taskVars, workerVars, history
  <1>3. ASSUME NEW w \in Workers, NEW i \in Nat, Load(w, i),
               UNCHANGED <<taskVars, items, refs, status, history>>, idx' \in [Workers -> Nat]
        PROVE  TypeOK'
    <2>1. Slot(i) \in Slots
        BY SlotInSlots
    <2>2. cur' \in [Workers -> Tasks \cup {Null}]
        BY <1>3, <2>1 DEF Load
    <2>3. pc' \in [Workers -> Busy \cup {"loop", "stopped", "gone"}]
        BY <1>3 DEF Load, Busy
    <2>4. \A v \in Workers : pc'[v] \in Busy => cur'[v] \in Tasks
        BY <1>3, <2>1 DEF Load, Busy
    <2> QED BY <1>3, <2>2, <2>3, <2>4 DEF taskVars, history
  <1>4. ASSUME NEW w \in Workers, Front(w) PROVE TypeOK'
      BY <1>3, <1>4 DEF Front
  <1>5. ASSUME NEW w \in Workers, TLSNext(w) PROVE TypeOK'
    <2>1. idx[w] + 1 \in Nat /\ idx' \in [Workers -> Nat]
        BY <1>5 DEF TLSNext
    <2> QED BY <1>3, <1>5, <2>1 DEF TLSNext
  <1>6. ASSUME NEW w \in Workers, Dispatch(w) PROVE TypeOK'
      BY <1>6 DEF Dispatch, Goto, taskVars, Busy
  <1>7. ASSUME NEW w \in Workers, Release(w) PROVE TypeOK'
    <2>1. cur[w] \in Issued /\ ~ Released(w, cur[w])
        BY <1>7 DEF Release, Ticks, Busy, Released, Final, Issued
    <2>2. refs[cur[w]] # 0
        BY <2>1, NotReleased
    <2>3. refs' \in [Tasks -> 0 .. Cardinality(Workers)]
      <3>1. refs[cur[w]] - 1 \in 0 .. Cardinality(Workers)
        <4>1. refs[cur[w]] \in 0 .. Cardinality(Workers)
            BY <2>1 DEF Issued
        <4>2. \A c \in Nat : \A r \in 0 .. c : r # 0 => r - 1 \in 0 .. c
            OBVIOUS
        <4> QED BY <1>c, <2>2, <4>1, <4>2
      <3> QED BY <1>7, <3>1 DEF Release
    <2> QED BY <1>7, <2>3 DEF Release, Goto, taskVars, history, Busy
  <1>8. ASSUME NEW w \in Workers, Finalize(w) PROVE TypeOK'
      BY <1>8 DEF Finalize, Goto, taskVars, Busy
  <1>9. ASSUME NEW w \in Workers, TLSPop(w) PROVE TypeOK'
      BY <1>9 DEF TLSPop, Goto, taskVars, history, Busy
  <1>10. ASSUME NEW w \in Workers, Free(w) PROVE TypeOK'
      BY <1>10 DEF Free, Goto, taskVars, history, Busy
  <1>11. ASSUME NEW w \in Workers, Stop(w) PROVE TypeOK'
      BY <1>11 DEF Stop, Goto, taskVars, history, Busy
  <1>12. CASE UNCHANGED vars
      BY <1>12 DEF vars
  <1> QED BY <1>1, <1>2, <1>4, <1>5, <1>6, <1>7, <1>8, <1>9, <1>10, <1>11, <1>12 DEF Next, Issue, Tick

LEMMA PassedBy == \A i, j \in Nat : i + 1 > j <=> i > j \/ i = j
  <1> QED OBVIOUS

(* A new task comes after all and nobody has released it; only Release     *)
(* releases one.                                                           *)
LEMMA ReleasedStep ==
    ASSUME Live, MaxOutstanding < Size, [Next]_vars, ~ Clear,
           NEW v \in Workers, NEW t \in Issued', ~ \E w \in Workers : Release(w)
    PROVE  Released(v, t)' <=> t \in Issued /\ Released(v, t)
  <1>0. TypeOK /\ Ticks /\ Order
      BY DEF Live
  <1> USE <1>0 DEF TypeOK, Released, Issued
  <1>1. ASSUME NEW u \in Tasks, Claim(u) PROVE Released(v, t)' <=> t \in Issued /\ Released(v, t)
      BY <1>1 DEF Claim, workerVars, Ticks, Order, Busy, Final
  <1>2. ASSUME NEW u \in Tasks, Store(u) PROVE Released(v, t)' <=> t \in Issued /\ Released(v, t)
      BY <1>2 DEF Store, workerVars, taskVars
  <1>3. ASSUME NEW w \in Workers, Front(w) PROVE Released(v, t)' <=> t \in Issued /\ Released(v, t)
      BY <1>3 DEF Front, Load, taskVars, Final
  <1>4. ASSUME NEW w \in Workers, TLSNext(w) PROVE Released(v, t)' <=> t \in Issued /\ Released(v, t)
    <2>1. index' = index /\ status' = status /\ index[t] \in Nat /\ idx[w] \in Nat
        BY <1>4 DEF TLSNext, taskVars
    <2>2. CASE v = w
      <3>1. idx'[v] = idx[w] + 1 /\ pc[v] = "next" /\ pc'[v] \notin Final \cup {"next"}
          BY <1>4, <2>2 DEF TLSNext, Load, Final
      <3>2. Released(v, t)' <=> idx[w] + 1 > index[t]
          BY <2>1, <2>2, <3>1
      <3>3. Released(v, t) <=> idx[w] > index[t] \/ idx[w] = index[t]
        <4>1. pc[v] \in Final \cup {"next"} /\ idx[v] = idx[w]
            BY <2>2, <3>1
        <4> QED BY <4>1, Zenon
      <3>4. t \in Issued
          BY <2>1
      <3> QED BY <2>1, <3>2, <3>3, <3>4, PassedBy
    <2>3. CASE v # w
        BY <1>4, <2>1, <2>3 DEF TLSNext, Load
    <2> QED BY <2>2, <2>3
  <1>5. ASSUME NEW w \in Workers, Dispatch(w) \/ Finalize(w) \/ Stop(w)
        PROVE  Released(v, t)' <=> t \in Issued /\ Released(v, t)
      BY <1>5 DEF Dispatch, Finalize, Stop, Goto, taskVars, Final
  <1>6. ASSUME NEW w \in Workers, TLSPop(w) \/ Free(w)
        PROVE  Released(v, t)' <=> t \in Issued /\ Released(v, t)
      BY <1>6 DEF TLSPop, Free, Goto, taskVars, Final, Ticks, Busy
  <1>7. CASE UNCHANGED vars
      BY <1>7 DEF vars
  <1> QED BY <1>1, <1>2, <1>3, <1>4, <1>5, <1>6, <1>7 DEF Next, Issue, Tick

LEMMA OrderStep ==
    ASSUME Live, MaxOutstanding < Size, [Next]_vars, ~ Clear
    PROVE  Order'
  <1>0. TypeOK /\ Order /\ Ticks
      BY DEF Live
  <1>1. ASSUME NEW t \in Tasks, Claim(t) PROVE Order'
    <2>1. /\ t \notin Issued /\ Issued' = Issued \cup {t} /\ head' = head + 1
          /\ index'[t] = head /\ \A u \in Issued : index'[u] = index[u]
        BY <1>0, <1>1 DEF Claim, Issued, TypeOK
    <2>2. \A u \in Issued : index[u] \in Nat /\ index[u] < head
        BY <1>0 DEF Order, TypeOK, Issued
    <2>3. \A u \in Issued' : index'[u] < head'
        BY <1>0, <2>1, <2>2 DEF TypeOK
    <2>4. \A u, v \in Issued' : index'[u] = index'[v] => u = v
        BY <1>0, <2>1, <2>2 DEF TypeOK, Order
    <2>5. \A i \in Nat : i < head' => \E u \in Issued' : index'[u] = i
      <3> SUFFICES ASSUME NEW i \in Nat, i < head' PROVE \E u \in Issued' : index'[u] = i
          OBVIOUS
      <3>1. CASE i = head
          BY <2>1, <3>1
      <3>2. CASE i < head
          BY <1>0, <2>1, <3>2 DEF Order
      <3> QED BY <1>0, <2>1, <3>1, <3>2 DEF TypeOK
    <2> QED BY <2>3, <2>4, <2>5 DEF Order
  <1>2. ASSUME Issued' = Issued, index' = index, head' = head PROVE Order'
      BY <1>0, <1>2 DEF Order
  <1>3. ASSUME NEW t \in Tasks, Store(t) PROVE Order'
    <2>1. Issued' = Issued
        BY <1>0, <1>3 DEF Store, Issued, TypeOK
    <2> QED BY <1>2, <1>3, <2>1 DEF Store, taskVars
  <1>4. ASSUME NEW w \in Workers, TLSPop(w) \/ Free(w) PROVE Order'
    <2>1. Issued' = Issued
        BY <1>0, <1>4 DEF TLSPop, Free, Issued, TypeOK, Ticks, Busy
    <2> QED BY <1>2, <1>4, <2>1 DEF TLSPop, Free, taskVars
  <1>5. ASSUME UNCHANGED <<taskVars, status>> PROVE Order'
      BY <1>2, <1>5 DEF Issued, taskVars
  <1>6. ASSUME NEW w \in Workers,
               Front(w) \/ TLSNext(w) \/ Dispatch(w) \/ Release(w) \/ Finalize(w) \/ Stop(w)
        PROVE  Order'
      BY <1>5, <1>6 DEF Front, TLSNext, Dispatch, Release, Finalize, Stop
  <1>7. CASE UNCHANGED vars
      BY <1>5, <1>7 DEF vars, taskVars
  <1> QED BY <1>1, <1>3, <1>4, <1>6, <1>7 DEF Next, Issue, Tick

LEMMA FewOutstandingStep ==
    ASSUME Live, MaxOutstanding < Size, [Next]_vars, ~ Clear
    PROVE  FewOutstanding'
  <1>0. TypeOK /\ FewOutstanding /\ Ticks /\ MaxOutstanding \in Nat /\ Cardinality(Outstanding) \in Nat
      BY SizeAssumption, FS_CardinalityType DEF Live, FewOutstanding
  <1>1. ASSUME NEW t \in Tasks, Claim(t) PROVE FewOutstanding'
    <2>1. Outstanding' = Outstanding \cup {t} /\ t \notin Outstanding /\ Cardinality(Outstanding) < MaxOutstanding
        BY <1>0, <1>1 DEF Claim, Outstanding, TypeOK
    <2> QED BY <1>0, <2>1, FS_AddElement DEF FewOutstanding
  <1>2. ASSUME NEW t \in Tasks, Store(t) PROVE FewOutstanding'
    <2>1. Outstanding' = Outstanding
        BY <1>0, <1>2 DEF Store, Outstanding, TypeOK
    <2> QED BY <1>0, <2>1 DEF FewOutstanding
  <1>3. ASSUME NEW w \in Workers, TLSPop(w) PROVE FewOutstanding'
    <2>1. Outstanding' = Outstanding \ {cur[w]} /\ cur[w] \in Outstanding
        BY <1>0, <1>3 DEF TLSPop, Outstanding, TypeOK, Ticks, Busy, Issued
    <2>2. /\ IsFiniteSet(Outstanding \ {cur[w]})
          /\ Cardinality(Outstanding \ {cur[w]}) = Cardinality(Outstanding) - 1
        BY <1>0, <2>1, FS_RemoveElement DEF FewOutstanding
    <2> QED BY <1>0, <2>1, <2>2 DEF FewOutstanding
  <1>4. ASSUME NEW w \in Workers, Free(w) PROVE FewOutstanding'
    <2>1. Outstanding' = Outstanding
        BY <1>0, <1>4 DEF Free, Outstanding, TypeOK, Ticks, Busy, Issued
    <2> QED BY <1>0, <2>1 DEF FewOutstanding
  <1>5. ASSUME UNCHANGED status PROVE FewOutstanding'
      BY <1>0, <1>5 DEF FewOutstanding, Outstanding
  <1>6. ASSUME NEW w \in Workers,
               Front(w) \/ TLSNext(w) \/ Dispatch(w) \/ Release(w) \/ Finalize(w) \/ Stop(w)
        PROVE  FewOutstanding'
      BY <1>5, <1>6 DEF Front, TLSNext, Dispatch, Release, Finalize, Stop
  <1>7. CASE UNCHANGED vars
      BY <1>5, <1>7 DEF vars
  <1> QED BY <1>1, <1>2, <1>3, <1>4, <1>6, <1>7 DEF Next, Issue, Tick

LEMMA RefsExactStep ==
    ASSUME Live, MaxOutstanding < Size, [Next]_vars, ~ Clear
    PROVE  RefsExact'
  <1>0. TypeOK /\ Ticks /\ RefsExact /\ Outstanding \subseteq Issued /\ Issued \subseteq Tasks
      BY DEF Live, Outstanding, Issued
  <1>1. ASSUME Issued' = Issued, ~ \E w \in Workers : Release(w)
        PROVE  \A t \in Issued : Unreleased(t)' = Unreleased(t)
      BY <1>1, ReleasedStep DEF Unreleased
  <1>2. ASSUME NEW t \in Tasks, Claim(t) PROVE RefsExact'
    <2>1. /\ Issued' = Issued \cup {t} /\ t \notin Issued /\ Outstanding' = Outstanding \cup {t}
          /\ refs'[t] = Cardinality(Workers) /\ \A u \in Issued : refs'[u] = refs[u]
          /\ pc' = pc /\ cur' = cur
        BY <1>0, <1>2 DEF Claim, Issued, Outstanding, TypeOK, workerVars
    <2>2. ~ \E w \in Workers : Release(w)
      <3>1. ASSUME NEW w \in Workers, Release(w) PROVE FALSE
        <4>1. pc'[w] # pc[w]
            BY <1>0, <3>1 DEF Release, Goto, TypeOK
        <4> QED BY <2>1, <4>1
      <3> QED BY <3>1
    <2>3. Unreleased(t)' = Workers
        BY <2>1, <2>2, ReleasedStep DEF Unreleased
    <2>4. \A u \in Issued : Unreleased(u)' = Unreleased(u)
        BY <2>1, <2>2, ReleasedStep DEF Unreleased
    <2>5. Cardinality(Workers) # 0
        BY SizeAssumption, WorkersFinite
    <2>6. \A u \in Issued' : refs'[u] = Cardinality(Unreleased(u)')
        BY <1>0, <2>1, <2>3, <2>4 DEF RefsExact
    <2>7. \A u \in Issued' \ Outstanding' : refs'[u] = 0
        BY <1>0, <2>1 DEF RefsExact
    <2>8. \A u \in Outstanding' : refs'[u] = 0 =>
              \E w \in Workers : pc'[w] \in {"finalize", "pop"} /\ cur'[w] = u
        BY <1>0, <2>1, <2>5 DEF RefsExact
    <2> QED BY <2>6, <2>7, <2>8 DEF RefsExact
  <1>3. ASSUME NEW w \in Workers, Release(w) PROVE RefsExact'
    <2>0. PICK t \in Tasks : t = cur[w]
        BY <1>0, <1>3 DEF Release, Ticks, Busy
    <2>1. /\ t \in Issued /\ t \in Outstanding /\ t \in Tasks /\ ~ Released(w, t) /\ idx[w] = index[t]
      <3>1. pc[w] = "release" /\ t \in Issued /\ idx[w] = index[t] /\ status[t] = "stored"
          BY <1>0, <1>3, <2>0 DEF Release, Ticks, Busy
      <3>2. ~ (idx[w] > index[t]) /\ pc[w] \notin Final \cup {"next"}
          BY <1>0, <3>1 DEF TypeOK, Final
      <3> QED BY <3>1, <3>2 DEF Released, Outstanding, Issued
    <2>2. /\ Issued' = Issued /\ Outstanding' = Outstanding /\ refs'[t] = refs[t] - 1
          /\ \A u \in Issued : u # t => refs'[u] = refs[u]
          /\ idx' = idx /\ index' = index /\ cur' = cur
          /\ pc' = [pc EXCEPT ![w] = IF refs[t] = 1 THEN "finalize" ELSE "next"]
        BY <1>0, <1>3, <2>0, <2>1 DEF Release, Goto, Issued, Outstanding, TypeOK, taskVars
    <2>3. Unreleased(t)' = Unreleased(t) \ {w} /\ w \in Unreleased(t)
        BY <1>0, <2>1, <2>2 DEF Unreleased, Released, Final, TypeOK
    <2>4. \A u \in Issued : u # t => Unreleased(u)' = Unreleased(u)
      <3> SUFFICES ASSUME NEW u \in Issued, u # t, NEW v \in Workers
                   PROVE  Released(v, u)' <=> Released(v, u)
          BY DEF Unreleased
      <3>1. index[u] # index[t]
          BY <2>1 DEF Live, Order
      <3> QED BY <1>0, <2>1, <2>2, <3>1 DEF Released, TypeOK
    <2>5. Cardinality(Unreleased(t) \ {w}) = Cardinality(Unreleased(t)) - 1
      <3>1. Unreleased(t) \in SUBSET Workers
          BY DEF Unreleased
      <3> QED BY <2>3, <3>1, WorkersFinite, FS_RemoveElement
    <2>6. \A u \in Issued' : refs'[u] = Cardinality(Unreleased(u)')
      <3> SUFFICES ASSUME NEW u \in Issued PROVE refs'[u] = Cardinality(Unreleased(u)')
          BY <2>2
      <3>1. CASE u = t
        <4>1. refs[t] = Cardinality(Unreleased(t))
            BY <1>0, <2>1 DEF RefsExact
        <4>2. Cardinality(Unreleased(t)') = Cardinality(Unreleased(t)) - 1
            BY <2>3, <2>5
        <4>3. refs'[t] = Cardinality(Unreleased(t)')
            BY <2>2, <4>1, <4>2
        <4> QED BY <3>1, <4>3
      <3>2. CASE u # t
          BY <1>0, <2>2, <2>4, <3>2 DEF RefsExact
      <3> QED BY <3>1, <3>2
    <2>7. \A u \in Issued' \ Outstanding' : refs'[u] = 0
        BY <1>0, <2>1, <2>2 DEF RefsExact
    <2>8. \A u \in Outstanding' : refs'[u] = 0 =>
              \E v \in Workers : pc'[v] \in {"finalize", "pop"} /\ cur'[v] = u
      <3> SUFFICES ASSUME NEW u \in Outstanding, refs'[u] = 0
                   PROVE  \E v \in Workers : pc'[v] \in {"finalize", "pop"} /\ cur'[v] = u
          BY <2>2
      <3>1. CASE u = t
        <4>1. refs[t] = 1
            BY <1>0, <2>1, <2>2, <3>1 DEF TypeOK
        <4>2. pc'[w] = "finalize" /\ cur'[w] = t
            BY <1>0, <2>0, <2>2, <4>1 DEF TypeOK
        <4> QED BY <3>1, <4>2
      <3>2. CASE u # t
        <4>1. PICK v \in Workers : pc[v] \in {"finalize", "pop"} /\ cur[v] = u
            BY <1>0, <2>2, <3>2 DEF RefsExact
        <4>2. v # w
            BY <2>0, <3>2, <4>1
        <4> QED BY <1>0, <2>2, <4>1, <4>2 DEF TypeOK
      <3> QED BY <3>1, <3>2
    <2> QED BY <2>6, <2>7, <2>8 DEF RefsExact
  <1>4. ASSUME Issued' = Issued, ~ \E w \in Workers : Release(w), refs' = refs,
               \A t \in Issued \ Outstanding' : refs[t] = 0,
               \A t \in Outstanding' : t \in Outstanding /\
                   \A v \in Workers : pc[v] \in {"finalize", "pop"} /\ cur[v] = t =>
                                      pc'[v] \in {"finalize", "pop"} /\ cur'[v] = t
        PROVE  RefsExact'
    <2>1. \A t \in Issued' : refs'[t] = Cardinality(Unreleased(t)')
        BY <1>0, <1>1, <1>4 DEF RefsExact
    <2>2. \A t \in Issued' \ Outstanding' : refs'[t] = 0
        BY <1>4
    <2>3. \A t \in Outstanding' : refs'[t] = 0 =>
              \E w \in Workers : pc'[w] \in {"finalize", "pop"} /\ cur'[w] = t
        BY <1>0, <1>4 DEF RefsExact
    <2> QED BY <2>1, <2>2, <2>3 DEF RefsExact
  <1>5. ASSUME NEW t \in Tasks, Store(t), ~ \E w \in Workers : Release(w) PROVE RefsExact'
    <2>1. Issued' = Issued /\ Outstanding' = Outstanding
        BY <1>0, <1>5 DEF Store, Issued, Outstanding, TypeOK
    <2> QED BY <1>0, <1>4, <1>5, <2>1 DEF Store, workerVars, RefsExact
  <1>6. ASSUME UNCHANGED <<refs, status>>, ~ \E w \in Workers : Release(w),
               \A v \in Workers : pc[v] \in {"finalize", "pop"} =>
                                  pc'[v] \in {"finalize", "pop"} /\ cur'[v] = cur[v]
        PROVE  RefsExact'
    <2>1. Issued' = Issued /\ Outstanding' = Outstanding
        BY <1>6 DEF Issued, Outstanding
    <2> QED BY <1>0, <1>4, <1>6, <2>1 DEF RefsExact
  <1>7. ASSUME NEW w \in Workers, Front(w) \/ TLSNext(w) \/ Dispatch(w) \/ Finalize(w) \/ Stop(w),
               ~ \E v \in Workers : Release(v)
        PROVE  RefsExact'
    <2>1. \A v \in Workers : pc[v] \in {"finalize", "pop"} =>
                             pc'[v] \in {"finalize", "pop"} /\ cur'[v] = cur[v]
        BY <1>0, <1>7 DEF Front, TLSNext, Dispatch, Finalize, Stop, Load, Goto, TypeOK
    <2>2. UNCHANGED <<refs, status>>
        BY <1>7 DEF Front, TLSNext, Dispatch, Finalize, Stop
    <2> QED BY <1>6, <1>7, <2>1, <2>2
  <1>8. ASSUME NEW w \in Workers, TLSPop(w), ~ \E v \in Workers : Release(v) PROVE RefsExact'
    <2>1. /\ Issued' = Issued /\ Outstanding' = Outstanding \ {cur[w]} /\ refs[cur[w]] = 0
          /\ \A v \in Workers : v # w => pc'[v] = pc[v]
        BY <1>0, <1>8 DEF TLSPop, Goto, Issued, Outstanding, TypeOK, Ticks, Busy, Final
    <2>2. refs' = refs /\ cur' = cur
        BY <1>8 DEF TLSPop
    <2>3. \A t \in Issued \ Outstanding' : refs[t] = 0
        BY <1>0, <2>1 DEF RefsExact
    <2> QED BY <1>4, <1>8, <2>1, <2>2, <2>3
  <1>9. ASSUME NEW w \in Workers, Free(w), ~ \E v \in Workers : Release(v) PROVE RefsExact'
    <2>1. /\ Issued' = Issued /\ Outstanding' = Outstanding
          /\ \A v \in Workers : pc[v] \in {"finalize", "pop"} => pc'[v] = pc[v]
        BY <1>0, <1>9 DEF Free, Goto, Issued, Outstanding, TypeOK, Ticks, Busy
    <2>2. refs' = refs /\ cur' = cur
        BY <1>9 DEF Free
    <2> QED BY <1>0, <1>4, <1>9, <2>1, <2>2 DEF RefsExact
  <1>10. CASE UNCHANGED vars
    <2>1. ~ \E w \in Workers : Release(w)
      <3>1. ASSUME NEW w \in Workers, Release(w) PROVE FALSE
        <4>1. pc'[w] # pc[w]
            BY <1>0, <3>1 DEF Release, Goto, TypeOK
        <4> QED BY <1>10, <4>1 DEF vars
      <3> QED BY <3>1
    <2> QED BY <1>6, <1>10, <2>1 DEF vars
  <1> QED BY <1>2, <1>3, <1>5, <1>7, <1>8, <1>9, <1>10 DEF Next, Issue, Tick

LEMMA RingStep ==
    ASSUME Live, MaxOutstanding < Size, [Next]_vars, ~ Clear
    PROVE  Ring'
  <1>0. TypeOK /\ Ticks /\ Ring /\ Null \notin Tasks
      BY SizeAssumption DEF Live
  <1>1. ASSUME NEW t \in Tasks, Claim(t) PROVE Ring'
    <2>1. /\ items' = items /\ status[t] = "new" /\ status' = [status EXCEPT ![t] = "claimed"]
          /\ index' = [index EXCEPT ![t] = head] /\ head \in Nat
        BY <1>0, <1>1 DEF Claim, TypeOK
    <2>2. items[Slot(head)] = Null
      <3> SUFFICES ASSUME items[Slot(head)] # Null PROVE FALSE
          OBVIOUS
      <3>1. PICK u \in Tasks : u = items[Slot(head)]
          BY <1>0, <2>1, SlotInSlots DEF TypeOK
      <3>2. status[u] = "stored" /\ Slot(index[u]) = Slot(head)
          BY <1>0, <2>1, <3>1, SlotInSlots DEF Ring
      <3>3. u \in Outstanding /\ index[u] < head
          BY <3>2 DEF Outstanding, Issued, Live, Order
      <3> QED BY <1>0, <2>1, <3>2, <3>3, OwnSlots
    <2>3. \A s \in Slots : items'[s] # Null => status'[items'[s]] = "stored" /\ Slot(index'[items'[s]]) = s
        BY <1>0, <2>1 DEF Ring, TypeOK
    <2>4. \A u \in Tasks : status'[u] = "stored" => items'[Slot(index'[u])] = u
        BY <1>0, <2>1 DEF Ring, TypeOK
    <2>5. \A u \in Tasks : status'[u] = "claimed" => items'[Slot(index'[u])] = Null
        BY <1>0, <2>1, <2>2 DEF Ring, TypeOK
    <2> QED BY <2>3, <2>4, <2>5 DEF Ring
  <1>2. ASSUME NEW t \in Tasks, Store(t) PROVE Ring'
    <2>1. /\ status[t] = "claimed" /\ status' = [status EXCEPT ![t] = "stored"]
          /\ items' = [items EXCEPT ![Slot(index[t])] = t] /\ index' = index /\ index[t] \in Nat
        BY <1>0, <1>2 DEF Store, taskVars, TypeOK
    <2>2. Slot(index[t]) \in Slots /\ items[Slot(index[t])] = Null /\ \A u \in Tasks : Slot(index[u]) \in Slots
        BY <1>0, <2>1, SlotInSlots DEF Ring, TypeOK
    <2>3. \A u \in Outstanding : u # t => Slot(index[u]) # Slot(index[t])
        BY <2>1, OwnSlots DEF Outstanding
    <2>4. \A s \in Slots : items'[s] # Null => status'[items'[s]] = "stored" /\ Slot(index'[items'[s]]) = s
      <3> SUFFICES ASSUME NEW s \in Slots, items'[s] # Null
                   PROVE  status'[items'[s]] = "stored" /\ Slot(index[items'[s]]) = s
          BY <2>1
      <3>1. CASE s = Slot(index[t])
          BY <1>0, <2>1, <3>1 DEF TypeOK
      <3>2. CASE s # Slot(index[t])
          BY <1>0, <2>1, <3>2 DEF Ring, TypeOK
      <3> QED BY <3>1, <3>2
    <2>5. \A u \in Tasks : status'[u] = "stored" => items'[Slot(index'[u])] = u
      <3> SUFFICES ASSUME NEW u \in Tasks, status'[u] = "stored" PROVE items'[Slot(index[u])] = u
          BY <2>1
      <3>1. CASE u = t
          BY <1>0, <2>1, <2>2, <3>1 DEF TypeOK
      <3>2. CASE u # t
        <4>1. status[u] = "stored" /\ items[Slot(index[u])] = u
            BY <1>0, <2>1, <3>2 DEF Ring, TypeOK
        <4>2. Slot(index[u]) # Slot(index[t])
            BY <2>3, <3>2, <4>1 DEF Outstanding
        <4> QED BY <1>0, <2>1, <2>2, <4>1, <4>2 DEF TypeOK
      <3> QED BY <3>1, <3>2
    <2>6. \A u \in Tasks : status'[u] = "claimed" => items'[Slot(index'[u])] = Null
      <3> SUFFICES ASSUME NEW u \in Tasks, status'[u] = "claimed" PROVE items'[Slot(index[u])] = Null
          BY <2>1
      <3>1. u # t /\ status[u] = "claimed" /\ items[Slot(index[u])] = Null
          BY <1>0, <2>1 DEF Ring, TypeOK
      <3>2. Slot(index[u]) # Slot(index[t])
          BY <2>3, <3>1 DEF Outstanding
      <3> QED BY <1>0, <2>1, <2>2, <3>1, <3>2 DEF TypeOK
    <2> QED BY <2>4, <2>5, <2>6 DEF Ring
  <1>3. ASSUME NEW w \in Workers, TLSPop(w) PROVE Ring'
    <2>0. PICK t \in Tasks : t = cur[w]
        BY <1>0, <1>3 DEF TLSPop, TypeOK, Busy
    <2>1. /\ status[t] = "stored" /\ status' = [status EXCEPT ![t] = "popped"]
          /\ items' = [items EXCEPT ![Slot(index[t])] = Null] /\ index' = index /\ index[t] \in Nat
        BY <1>0, <1>3, <2>0 DEF TLSPop, taskVars, TypeOK, Ticks, Busy
    <2>2. items[Slot(index[t])] = t /\ \A u \in Tasks : Slot(index[u]) \in Slots
        BY <1>0, <2>1, SlotInSlots DEF Ring, TypeOK
    <2>3. \A s \in Slots : items'[s] # Null => s # Slot(index[t]) /\ items'[s] = items[s] /\ items[s] # t
        BY <1>0, <2>1, <2>2 DEF Ring, TypeOK
    <2>4. \A s \in Slots : items'[s] # Null => status'[items'[s]] = "stored" /\ Slot(index'[items'[s]]) = s
        BY <1>0, <2>1, <2>3 DEF Ring, TypeOK
    <2>5. \A u \in Tasks : status'[u] = "stored" => items'[Slot(index'[u])] = u
      <3> SUFFICES ASSUME NEW u \in Tasks, status'[u] = "stored" PROVE items'[Slot(index[u])] = u
          BY <2>1
      <3>1. u # t /\ items[Slot(index[u])] = u
          BY <1>0, <2>1 DEF Ring, TypeOK
      <3>2. Slot(index[u]) # Slot(index[t])
          BY <2>2, <3>1
      <3> QED BY <1>0, <2>1, <2>2, <3>1, <3>2 DEF TypeOK
    <2>6. \A u \in Tasks : status'[u] = "claimed" => items'[Slot(index'[u])] = Null
        BY <1>0, <2>1, <2>2 DEF Ring, TypeOK
    <2> QED BY <2>4, <2>5, <2>6 DEF Ring
  <1>4. ASSUME NEW w \in Workers, Free(w) PROVE Ring'
    <2>0. PICK t \in Tasks : t = cur[w]
        BY <1>0, <1>4 DEF Free, TypeOK, Busy
    <2>1. status[t] = "popped" /\ status' = [status EXCEPT ![t] = "freed"] /\ items' = items /\ index' = index
        BY <1>0, <1>4, <2>0 DEF Free, taskVars, Ticks
    <2> QED BY <1>0, <2>1 DEF Ring, TypeOK
  <1>5. ASSUME UNCHANGED <<taskVars, items, status>> PROVE Ring'
      BY <1>0, <1>5 DEF Ring, taskVars
  <1>6. ASSUME NEW w \in Workers,
               Front(w) \/ TLSNext(w) \/ Dispatch(w) \/ Release(w) \/ Finalize(w) \/ Stop(w)
        PROVE  Ring'
      BY <1>5, <1>6 DEF Front, TLSNext, Dispatch, Release, Finalize, Stop
  <1>7. CASE UNCHANGED vars
      BY <1>5, <1>7 DEF vars, taskVars
  <1> QED BY <1>1, <1>2, <1>3, <1>4, <1>6, <1>7 DEF Next, Issue, Tick

(* What a worker has when it has taken what is at index i of the ring.     *)
LEMMA LoadStep ==
    ASSUME Live, MaxOutstanding < Size, NEW w \in Workers, NEW i \in Nat, Load(w, i),
           \/ pc[w] = "loop" /\ i = idx[w]
           \/ pc[w] = "next" /\ i = idx[w] + 1
    PROVE  /\ pc'[w] \in {"loop", "dispatch"}
           /\ pc'[w] = "dispatch" => /\ cur'[w] \in Issued /\ index[cur'[w]] = i
                                     /\ status[cur'[w]] = "stored"
           /\ \A v \in Workers : v # w => pc'[v] = pc[v] /\ cur'[v] = cur[v]
  <1>1. TypeOK
      BY DEF Live
  <1>2. CASE items[Slot(i)] = Null
      BY <1>1, <1>2 DEF Load, TypeOK
  <1>3. CASE items[Slot(i)] # Null
      BY <1>1, <1>3, Loaded DEF Load, TypeOK
  <1> QED BY <1>2, <1>3

LEMMA OncePerWorkerStep ==
    ASSUME Live, MaxOutstanding < Size, [Next]_vars, ~ Clear
    PROVE  OncePerWorker'
  <1>0. TypeOK /\ Ticks /\ Order /\ OncePerWorker
      BY DEF Live
  <1>1. ASSUME NEW t \in Tasks, Claim(t) PROVE OncePerWorker'
    <2>1. \A w \in Workers : ~ Past(w, t)'
      <3> SUFFICES ASSUME NEW w \in Workers PROVE ~ Past(w, t)'
          OBVIOUS
      <3>1. index'[t] = head /\ idx' = idx /\ pc' = pc
          BY <1>0, <1>1 DEF Claim, workerVars, TypeOK
      <3>2. idx[w] <= head /\ (pc[w] \in Busy => idx[w] < head) /\ idx[w] \in Nat /\ head \in Nat
          BY <1>0 DEF Ticks, Order, TypeOK
      <3> QED BY <3>1, <3>2 DEF Past
    <2>2. \A u \in Tasks, w \in Workers : u # t => (Past(w, u)' <=> Past(w, u))
        BY <1>0, <1>1 DEF Claim, workerVars, TypeOK, Past
    <2>3. /\ status[t] = "new" /\ status' = [status EXCEPT ![t] = "claimed"] /\ runs' = runs
        BY <1>1 DEF Claim, history
    <2> QED BY <1>0, <2>1, <2>2, <2>3 DEF OncePerWorker, TypeOK
  <1>2. ASSUME NEW w \in Workers, Dispatch(w) PROVE OncePerWorker'
    <2>0. PICK t \in Tasks : t = cur[w]
        BY <1>0, <1>2 DEF Dispatch, TypeOK, Busy
    <2>1. /\ pc[w] = "dispatch" /\ pc' = [pc EXCEPT ![w] = "release"] /\ idx' = idx /\ index' = index
          /\ status' = status /\ t \in Issued /\ index[t] = idx[w]
          /\ runs' = [runs EXCEPT ![t][w] = runs[t][w] + 1]
        BY <1>0, <1>2, <2>0 DEF Dispatch, Goto, taskVars, Ticks, Busy
    <2>2. ~ Past(w, t) /\ Past(w, t)'
        BY <1>0, <2>1 DEF Past, Busy, TypeOK
    <2>3. \A u \in Issued, v \in Workers : u # t \/ v # w => (Past(v, u)' <=> Past(v, u))
      <3> SUFFICES ASSUME NEW u \in Issued, NEW v \in Workers, u # t \/ v # w
                   PROVE  Past(v, u)' <=> Past(v, u)
          OBVIOUS
      <3>1. CASE v # w
          BY <1>0, <2>1, <3>1 DEF Past, TypeOK
      <3>2. CASE u # t
        <4>1. index[u] # index[t]
            BY <1>0, <2>1, <3>2 DEF Order
        <4> QED BY <1>0, <2>1, <3>1, <4>1 DEF Past, TypeOK
      <3> QED BY <3>1, <3>2
    <2>4. runs'[t][w] = 1
        BY <1>0, <2>1, <2>2 DEF OncePerWorker, TypeOK, Issued
    <2>5. \A u \in Tasks, v \in Workers : u # t \/ v # w => runs'[u][v] = runs[u][v]
        BY <1>0, <2>1 DEF TypeOK
    <2> QED BY <1>0, <2>1, <2>2, <2>3, <2>4, <2>5 DEF OncePerWorker, Issued
  <1>3. ASSUME runs' = runs, Issued' = Issued,
               \A t \in Issued, w \in Workers : Past(w, t)' <=> Past(w, t)
        PROVE  OncePerWorker'
    <2>1. \A t \in Tasks : status'[t] # "new" <=> status[t] # "new"
        BY <1>3 DEF Issued
    <2> QED BY <1>0, <1>3, <2>1 DEF OncePerWorker, Issued
  <1>4. ASSUME NEW t \in Tasks, Store(t) PROVE OncePerWorker'
    <2>1. Issued' = Issued /\ runs' = runs
        BY <1>0, <1>4 DEF Store, Issued, TypeOK, history
    <2>2. \A u \in Issued, w \in Workers : Past(w, u)' <=> Past(w, u)
        BY <1>4 DEF Store, Past, workerVars, taskVars
    <2> QED BY <1>3, <2>1, <2>2
  <1>5. ASSUME NEW w \in Workers, Front(w) PROVE OncePerWorker'
    <2>1. Issued' = Issued /\ runs' = runs
        BY <1>5 DEF Front, Issued, history
    <2>2. \A u \in Issued, v \in Workers : Past(v, u)' <=> Past(v, u)
        BY <1>0, <1>5 DEF Front, Load, Past, taskVars, Busy, TypeOK
    <2> QED BY <1>3, <2>1, <2>2
  <1>6. ASSUME NEW w \in Workers, TLSNext(w) PROVE OncePerWorker'
    <2>1. Issued' = Issued /\ runs' = runs
        BY <1>6 DEF TLSNext, Issued, history
    <2>2. \A u \in Issued, v \in Workers : Past(v, u)' <=> Past(v, u)
      <3> SUFFICES ASSUME NEW u \in Issued, NEW v \in Workers PROVE Past(v, u)' <=> Past(v, u)
          OBVIOUS
      <3>1. /\ index' = index /\ index[u] \in Nat /\ idx[v] \in Nat /\ pc[w] = "next"
            /\ idx'[w] = idx[w] + 1 /\ pc'[w] \in {"loop", "dispatch"}
            /\ v # w => idx'[v] = idx[v] /\ pc'[v] = pc[v]
          BY <1>0, <1>6 DEF TLSNext, Load, taskVars, TypeOK, Issued
      <3>2. CASE v = w
        <4>1. Past(v, u) <=> idx[v] > index[u] \/ idx[v] = index[u]
            BY <3>1, <3>2 DEF Past, Busy
        <4>2. Past(v, u)' <=> idx[v] + 1 > index[u]
            BY <3>1, <3>2 DEF Past, Busy
        <4> QED BY <3>1, <4>1, <4>2, PassedBy
      <3>3. CASE v # w
          BY <3>1, <3>3 DEF Past
      <3> QED BY <3>2, <3>3
    <2> QED BY <1>3, <2>1, <2>2
  <1>7. ASSUME NEW w \in Workers, Release(w) \/ Finalize(w) \/ TLSPop(w) \/ Free(w) PROVE OncePerWorker'
    <2>1. Issued' = Issued /\ runs' = runs
        BY <1>0, <1>7 DEF Release, Finalize, TLSPop, Free, Issued, history, TypeOK, Ticks, Busy
    <2>2. \A u \in Issued, v \in Workers : Past(v, u)' <=> Past(v, u)
        BY <1>0, <1>7 DEF Release, Finalize, TLSPop, Free, Goto, Past, taskVars, Busy, TypeOK
    <2> QED BY <1>3, <2>1, <2>2
  <1>8. ASSUME NEW w \in Workers, Stop(w) PROVE OncePerWorker'
    <2>1. Issued' = Issued /\ runs' = runs
        BY <1>8 DEF Stop, Issued, history
    <2>2. \A u \in Issued, v \in Workers : Past(v, u)' <=> Past(v, u)
        BY <1>0, <1>8 DEF Stop, Goto, Past, taskVars, Busy, TypeOK
    <2> QED BY <1>3, <2>1, <2>2
  <1>9. CASE UNCHANGED vars
      BY <1>3, <1>9 DEF vars, Issued, Past
  <1> QED BY <1>1, <1>2, <1>4, <1>5, <1>6, <1>7, <1>8, <1>9 DEF Next, Issue, Tick

(* What Ticks says of one worker.                                          *)
TickOf(w) ==
    /\ idx[w] <= head
    /\ pc[w] \in Busy => cur[w] \in Issued /\ index[cur[w]] = idx[w]
    /\ pc[w] \in {"dispatch", "release", "finalize", "pop"} => status[cur[w]] = "stored"
    /\ pc[w] = "free" => status[cur[w]] = "popped"
    /\ pc[w] \in Final => refs[cur[w]] = 0

OneFinalizer ==
    \A v, w \in Workers : pc[v] \in Final /\ pc[w] \in Final /\ cur[v] = cur[w] => v = w

LEMMA TicksParts == Ticks <=> OneFinalizer /\ \A w \in Workers : TickOf(w)
  <1> QED BY DEF Ticks, TickOf, OneFinalizer

LEMMA OneFinalizerStep ==
    ASSUME Live, MaxOutstanding < Size, [Next]_vars, ~ Clear
    PROVE  OneFinalizer'
  <1>0. TypeOK /\ OneFinalizer /\ \A w \in Workers : TickOf(w)
      BY TicksParts DEF Live
  <1>1. ASSUME NEW w \in Workers, Release(w) PROVE OneFinalizer'
    <2>1. CASE refs[cur[w]] = 1
      <3>1. \A v \in Workers : pc[v] \in Final => cur[v] # cur[w]
          BY <1>0, <2>1 DEF TickOf
      <3>2. cur' = cur /\ \A v \in Workers : v # w => pc'[v] = pc[v]
          BY <1>0, <1>1 DEF Release, Goto, TypeOK
      <3> QED BY <1>0, <3>1, <3>2 DEF OneFinalizer
    <2>2. CASE refs[cur[w]] # 1
        BY <1>0, <1>1, <2>2 DEF Release, Goto, TypeOK, OneFinalizer, Final
    <2> QED BY <2>1, <2>2
  <1>2. ASSUME \A v \in Workers : pc'[v] \in Final => pc[v] \in Final /\ cur'[v] = cur[v]
        PROVE  OneFinalizer'
      BY <1>0, <1>2 DEF OneFinalizer
  <1>3. ASSUME NEW t \in Tasks, Claim(t) \/ Store(t) PROVE OneFinalizer'
      BY <1>2, <1>3 DEF Claim, Store, workerVars
  <1>4. ASSUME NEW w \in Workers, Front(w) \/ TLSNext(w) PROVE OneFinalizer'
      BY <1>0, <1>2, <1>4 DEF Front, TLSNext, Load, Final, TypeOK
  <1>5. ASSUME NEW w \in Workers, Dispatch(w) \/ Finalize(w) \/ TLSPop(w) \/ Free(w) \/ Stop(w)
        PROVE  OneFinalizer'
      BY <1>0, <1>2, <1>5 DEF Dispatch, Finalize, TLSPop, Free, Stop, Goto, Final, TypeOK
  <1>6. CASE UNCHANGED vars
      BY <1>2, <1>6 DEF vars
  <1> QED BY <1>1, <1>3, <1>4, <1>5, <1>6 DEF Next, Issue, Tick

LEMMA TicksStep ==
    ASSUME Live, MaxOutstanding < Size, [Next]_vars, ~ Clear
    PROVE  Ticks'
  <1>0. TypeOK /\ Order /\ OneFinalizer /\ \A w \in Workers : TickOf(w)
      BY TicksParts DEF Live
  <1> SUFFICES ASSUME NEW v \in Workers PROVE TickOf(v)'
      BY OneFinalizerStep, TicksParts DEF Ticks, TickOf, OneFinalizer
  <1>1. ASSUME NEW t \in Tasks, Claim(t) PROVE TickOf(v)'
      BY <1>0, <1>1 DEF Claim, workerVars, TickOf, Issued, TypeOK, Busy, Final
  <1>2. ASSUME NEW t \in Tasks, Store(t) PROVE TickOf(v)'
      BY <1>0, <1>2 DEF Store, workerVars, taskVars, TickOf, Issued, TypeOK, Busy, Final
  <1>3. ASSUME NEW w \in Workers, Front(w) PROVE TickOf(v)'
    <2>1. /\ pc'[w] \in {"loop", "dispatch"}
          /\ pc'[w] = "dispatch" => /\ cur'[w] \in Issued /\ index[cur'[w]] = idx[w]
                                    /\ status[cur'[w]] = "stored"
          /\ \A u \in Workers : u # w => pc'[u] = pc[u] /\ cur'[u] = cur[u]
        BY <1>0, <1>3, LoadStep DEF Front, TypeOK
    <2>2. UNCHANGED <<head, index, refs, status, idx>> /\ Issued' = Issued
        BY <1>3 DEF Front, taskVars, Issued
    <2> QED BY <1>0, <2>1, <2>2 DEF TickOf, Busy, Final
  <1>4. ASSUME NEW w \in Workers, TLSNext(w) PROVE TickOf(v)'
    <2>1. /\ pc'[w] \in {"loop", "dispatch"}
          /\ pc'[w] = "dispatch" => /\ cur'[w] \in Issued /\ index[cur'[w]] = idx[w] + 1
                                    /\ status[cur'[w]] = "stored"
          /\ \A u \in Workers : u # w => pc'[u] = pc[u] /\ cur'[u] = cur[u]
      <3>1. pc[w] = "next" /\ idx[w] + 1 \in Nat /\ Load(w, idx[w] + 1)
          BY <1>0, <1>4 DEF TLSNext, TypeOK
      <3> QED BY <3>1, LoadStep
    <2>2. UNCHANGED <<head, index, refs, status>> /\ Issued' = Issued
          /\ idx'[w] = idx[w] + 1 /\ \A u \in Workers : u # w => idx'[u] = idx[u]
        BY <1>0, <1>4 DEF TLSNext, taskVars, Issued, TypeOK
    <2>3. idx'[w] <= head'
      <3>1. cur[w] \in Issued /\ index[cur[w]] = idx[w]
          BY <1>0, <1>4 DEF TickOf, TLSNext, Busy
      <3>2. idx[w] < head /\ idx[w] \in Nat /\ head \in Nat
          BY <1>0, <3>1 DEF Order, TypeOK
      <3> QED BY <2>2, <3>2
    <2>4. CASE v = w
        BY <2>1, <2>2, <2>3, <2>4 DEF TickOf, Busy, Final
    <2>5. CASE v # w
        BY <1>0, <2>1, <2>2, <2>5 DEF TickOf
    <2> QED BY <2>4, <2>5
  <1>5. ASSUME NEW w \in Workers, Dispatch(w) \/ Finalize(w) \/ Stop(w) PROVE TickOf(v)'
      BY <1>0, <1>5 DEF Dispatch, Finalize, Stop, Goto, taskVars, TickOf, Issued, TypeOK, Busy, Final
  <1>6. ASSUME NEW w \in Workers, Release(w) PROVE TickOf(v)'
    <2>0. PICK t \in Tasks : t = cur[w]
        BY <1>0, <1>6 DEF Release, TypeOK, Busy
    <2>1. /\ UNCHANGED <<head, index, status, idx, cur>> /\ Issued' = Issued
          /\ pc[w] = "release" /\ t \in Issued /\ index[t] = idx[w] /\ status[t] = "stored"
          /\ pc' = [pc EXCEPT ![w] = IF refs[t] = 1 THEN "finalize" ELSE "next"]
          /\ refs' = [refs EXCEPT ![t] = refs[t] - 1]
        BY <1>0, <1>6, <2>0 DEF Release, Goto, taskVars, TickOf, Issued, Busy
    <2>2. CASE v = w
      <3>1. CASE refs[t] = 1
        <4>1. pc'[v] = "finalize" /\ refs'[t] = 0
            BY <1>0, <2>1, <2>2, <3>1 DEF TypeOK
        <4> QED BY <1>0, <2>0, <2>1, <2>2, <4>1 DEF TickOf, Busy, Final
      <3>2. CASE refs[t] # 1
        <4>1. pc'[v] = "next"
            BY <1>0, <2>1, <2>2, <3>2 DEF TypeOK
        <4> QED BY <1>0, <2>0, <2>1, <2>2, <4>1 DEF TickOf, Busy, Final
      <3> QED BY <3>1, <3>2
    <2>3. CASE v # w
      <3>1. pc'[v] = pc[v]
          BY <1>0, <2>1, <2>3 DEF TypeOK
      <3>2. pc[v] \in Final => cur[v] # t
        <4>1. ~ Released(w, t)
            BY <1>0, <2>1 DEF Released, Final, TypeOK
        <4>2. refs[t] # 0
            BY <2>1, <4>1, NotReleased
        <4> QED BY <1>0, <4>2 DEF TickOf
      <3>3. pc[v] \in Final => refs'[cur[v]] = refs[cur[v]]
          BY <1>0, <2>1, <3>2 DEF TypeOK
      <3> QED BY <1>0, <2>1, <3>1, <3>3 DEF TickOf
    <2> QED BY <2>2, <2>3
  <1>7. ASSUME NEW w \in Workers, TLSPop(w) \/ Free(w) PROVE TickOf(v)'
    <2>0. PICK t \in Tasks : t = cur[w]
        BY <1>0, <1>7 DEF TLSPop, Free, TypeOK, Busy
    <2>1. /\ UNCHANGED <<head, index, refs, idx, cur>> /\ pc[w] \in Final /\ refs[t] = 0
          /\ t \in Issued /\ index[t] = idx[w] /\ \A u \in Tasks : u # t => status'[u] = status[u]
          /\ \A u \in Workers : u # w => pc'[u] = pc[u]
        BY <1>0, <1>7, <2>0 DEF TLSPop, Free, Goto, taskVars, TickOf, Busy, Final, TypeOK
    <2>2. Issued' = Issued
        BY <1>0, <1>7, <2>0, <2>1 DEF TLSPop, Free, Issued, TypeOK
    <2>3. CASE v = w
        BY <1>0, <1>7, <2>0, <2>1, <2>2, <2>3 DEF TLSPop, Free, Goto, TickOf, Busy, Final, TypeOK
    <2>4. CASE v # w
      <3>1. pc[v] \in {"dispatch", "release"} => cur[v] # t
        <4> SUFFICES ASSUME pc[v] \in {"dispatch", "release"}, cur[v] = t PROVE FALSE
            OBVIOUS
        <4>1. ~ Released(v, t)
            BY <1>0, <2>1 DEF TickOf, Released, Final, Busy, TypeOK
        <4> QED BY <2>1, <4>1, NotReleased
      <3>2. pc[v] \in Final => cur[v] # t
          BY <1>0, <2>0, <2>1, <2>4 DEF OneFinalizer
      <3>3. pc[v] \in Busy \ {"next"} => status'[cur[v]] = status[cur[v]]
          BY <1>0, <2>1, <3>1, <3>2 DEF Busy, Final, TypeOK
      <3> QED BY <1>0, <2>1, <2>2, <2>4, <3>3 DEF TickOf, Busy, Final
    <2> QED BY <2>3, <2>4
  <1>8. CASE UNCHANGED vars
      BY <1>0, <1>8 DEF vars, TickOf, Issued
  <1> QED BY <1>1, <1>2, <1>3, <1>4, <1>5, <1>6, <1>7, <1>8 DEF Next, Issue, Tick

LEMMA FinalsStep ==
    ASSUME Live, MaxOutstanding < Size, [Next]_vars, ~ Clear
    PROVE  Finals'
  <1>0. TypeOK /\ Finals /\ OneFinalizer /\ \A w \in Workers : TickOf(w)
      BY TicksParts DEF Live
  <1>1. ASSUME NEW t \in Tasks, Claim(t) PROVE Finals'
      BY <1>0, <1>1 DEF Claim, workerVars, history, Finals, Issued, TypeOK, TickOf, Busy
  <1>2. ASSUME NEW w \in Workers, Release(w) PROVE Finals'
    <2>0. PICK t \in Tasks : t = cur[w]
        BY <1>0, <1>2 DEF Release, TypeOK, Busy
    <2>1. refs[t] # 0 /\ finals[t] = 0
      <3>1. t \in Issued /\ ~ Released(w, t)
          BY <1>0, <1>2, <2>0 DEF Release, TickOf, Released, Final, Busy, TypeOK
      <3> QED BY <1>0, <3>1, NotReleased DEF Finals
    <2>2. /\ finals' = finals /\ status' = status /\ cur' = cur
          /\ refs' = [refs EXCEPT ![t] = refs[t] - 1]
          /\ \A v \in Workers : v # w => pc'[v] = pc[v]
        BY <1>0, <1>2, <2>0 DEF Release, Goto, history, TypeOK
    <2>3. \A u \in Tasks : finals'[u] = 1 => u \in Issued' /\ refs'[u] = 0
        BY <1>0, <2>1, <2>2 DEF Finals, Issued, TypeOK
    <2>4. \A v \in Workers : pc'[v] = "finalize" => finals'[cur'[v]] = 0
        BY <1>0, <2>0, <2>1, <2>2 DEF Finals
    <2> QED BY <1>0, <2>2, <2>3, <2>4 DEF Finals
  <1>3. ASSUME NEW w \in Workers, Finalize(w) PROVE Finals'
    <2>0. PICK t \in Tasks : t = cur[w]
        BY <1>0, <1>3 DEF Finalize, TypeOK, Busy
    <2>1. /\ finals' = [finals EXCEPT ![t] = finals[t] + 1] /\ finals[t] = 0 /\ refs[t] = 0
          /\ t \in Issued /\ pc[w] = "finalize" /\ pc' = [pc EXCEPT ![w] = "pop"]
          /\ refs' = refs /\ status' = status /\ cur' = cur
        BY <1>0, <1>3, <2>0 DEF Finalize, Goto, Finals, TickOf, Busy, Final
    <2>2. \A u \in Tasks : finals'[u] \in {0, 1} /\ (finals'[u] = 1 => u \in Issued' /\ refs'[u] = 0)
        BY <1>0, <2>1 DEF Finals, TypeOK, Issued
    <2>3. \A v \in Workers : pc'[v] = "finalize" => cur[v] # t /\ pc[v] = "finalize"
        BY <1>0, <2>0, <2>1 DEF OneFinalizer, Final, TypeOK
    <2>4. \A v \in Workers : pc'[v] = "finalize" => finals'[cur'[v]] = 0
        BY <1>0, <2>1, <2>3 DEF Finals, TypeOK
    <2> QED BY <2>2, <2>4 DEF Finals
  <1>4. ASSUME finals' = finals, refs' = refs, Issued \subseteq Issued',
               \A v \in Workers : pc'[v] = "finalize" => pc[v] = "finalize" /\ cur'[v] = cur[v]
        PROVE  Finals'
      BY <1>0, <1>4 DEF Finals
  <1>5. ASSUME NEW t \in Tasks, Store(t) PROVE Finals'
      BY <1>0, <1>4, <1>5 DEF Store, history, workerVars, Issued, TypeOK
  <1>6. ASSUME NEW w \in Workers, Front(w) \/ TLSNext(w) PROVE Finals'
    <2>1. \A v \in Workers : pc'[v] = "finalize" => pc[v] = "finalize" /\ cur'[v] = cur[v]
        BY <1>0, <1>6 DEF Front, TLSNext, Load, TypeOK
    <2> QED BY <1>4, <1>6, <2>1 DEF Front, TLSNext, history, Issued
  <1>7. ASSUME NEW w \in Workers, Dispatch(w) \/ TLSPop(w) \/ Free(w) \/ Stop(w) PROVE Finals'
    <2>1. \A v \in Workers : pc'[v] = "finalize" => pc[v] = "finalize" /\ cur'[v] = cur[v]
        BY <1>0, <1>7 DEF Dispatch, TLSPop, Free, Stop, Goto, TypeOK
    <2>2. Issued \subseteq Issued' /\ finals' = finals /\ refs' = refs
        BY <1>0, <1>7 DEF Dispatch, TLSPop, Free, Stop, history, Issued, TypeOK
    <2> QED BY <1>4, <2>1, <2>2
  <1>8. CASE UNCHANGED vars
      BY <1>4, <1>8 DEF vars, Issued
  <1> QED BY <1>1, <1>2, <1>3, <1>5, <1>6, <1>7, <1>8 DEF Next, Issue, Tick

LEMMA RunningStep ==
    ASSUME Live, MaxOutstanding < Size, [Next]_vars, ~ Clear
    PROVE  Running'
  <1>0. TypeOK /\ Running
      BY DEF Live
  <1>1. ASSUME NEW w \in Workers, Tick(w) \/ Stop(w) PROVE Running'
      BY <1>0, <1>1 DEF Tick, Front, Dispatch, Release, Finalize, TLSPop, Free, TLSNext, Stop,
                        Goto, Load, Running, TypeOK
  <1>2. ASSUME pc' = pc PROVE Running'
      BY <1>0, <1>2 DEF Running
  <1> QED BY <1>1, <1>2 DEF Next, Issue, Claim, Store, workerVars, vars

(***************************************************************************)
(* The end, and what the invariant says.                                   *)
(***************************************************************************)
LEMMA LiveIsSafe == Live => RingInv /\ FreedLast
  <1> SUFFICES ASSUME Live PROVE RingInv /\ FreedLast
      OBVIOUS
  <1>0. TypeOK /\ Ring /\ OncePerWorker /\ Finals /\ RefsExact /\ \A w \in Workers : TickOf(w)
      BY TicksParts DEF Live
  <1>1. SlotsFit
    <2>1. ASSUME NEW w \in Workers, pc[w] = "pop" PROVE items[Slot(idx[w])] = cur[w]
      <3>1. cur[w] \in Tasks /\ status[cur[w]] = "stored" /\ index[cur[w]] = idx[w]
          BY <1>0, <2>1 DEF TickOf, TypeOK, Busy
      <3>2. items[Slot(index[cur[w]])] = cur[w]
          BY <1>0, <3>1 DEF Ring
      <3> QED BY <3>1, <3>2
    <2> QED BY <1>0, <2>1 DEF SlotsFit, Ring
  <1>2. FinalizedLast
    <2> SUFFICES ASSUME NEW t \in Tasks
                 PROVE  finals[t] <= 1 /\ (finals[t] = 1 => \A w \in Workers : runs[t][w] = 1)
        BY DEF FinalizedLast
    <2>1. finals[t] <= 1
        BY <1>0 DEF Finals
    <2>2. ASSUME finals[t] = 1, NEW w \in Workers PROVE runs[t][w] = 1
      <3>1. t \in Issued /\ refs[t] = 0
          BY <1>0, <2>2 DEF Finals
      <3>2. Released(w, t)
          BY <3>1, NotReleased
      <3>3. Past(w, t)
          BY <3>2 DEF Released, Past, Busy, Final
      <3> QED BY <1>0, <3>1, <3>3 DEF OncePerWorker, Issued
    <2> QED BY <2>1, <2>2
  <1>3. NoUseAfterFree
      BY <1>0 DEF NoUseAfterFree, Ring, TickOf, Busy
  <1> QED BY <1>0, <1>1, <1>2, <1>3 DEF RingInv, FreedLast

LEMMA ClearStep ==
    ASSUME Live, Clear
    PROVE  Over' /\ RingInv' /\ FreedLast'
  <1>0. /\ TypeOK /\ Ring /\ OncePerWorker /\ FinalizedLast /\ RefsExact
        /\ Cardinality(Workers) \in Nat /\ Null \notin Tasks
      BY LiveIsSafe, WorkersFinite, SizeAssumption DEF Live, FreedLast
  <1> DEFINE left == {t \in Tasks : \E s \in Slots : items[s] = t}
  <1>1. /\ pc' = [w \in Workers |-> "gone"] /\ items' = [s \in Slots |-> Null]
        /\ refs' = [t \in Tasks |-> IF t \in left THEN refs[t] - 1 ELSE refs[t]]
        /\ status' = [t \in Tasks |->
              IF t \notin left THEN status[t] ELSE IF refs[t] = 1 THEN "freed" ELSE "popped"]
        /\ UNCHANGED <<head, index, idx, cur, runs, finals>>
        /\ \A w \in Workers : pc[w] = "stopped"
        /\ \A t \in Tasks : status[t] # "claimed"
      BY DEF Clear, taskVars, history
  <1>2. \A t \in left : status[t] = "stored" /\ refs[t] \in 1 .. Cardinality(Workers)
    <2> SUFFICES ASSUME NEW t \in Tasks, t \in left
                 PROVE  status[t] = "stored" /\ refs[t] \in 1 .. Cardinality(Workers)
        OBVIOUS
    <2>1. status[t] = "stored"
        BY <1>0 DEF Ring
    <2>2. refs[t] # 0
        BY <1>0, <1>1, <2>1 DEF RefsExact, Outstanding
    <2>3. refs[t] \in 0 .. Cardinality(Workers)
        BY <1>0 DEF TypeOK
    <2> QED BY <1>0, <2>1, <2>2, <2>3
  <1> HIDE DEF left
  <1>3. TypeOK'
    <2>1. \A c \in Nat : \A r \in 1 .. c : r - 1 \in 0 .. c
        OBVIOUS
    <2>2. refs' \in [Tasks -> 0 .. Cardinality(Workers)]
        BY <1>0, <1>1, <1>2, <2>1 DEF TypeOK
    <2>3. status' \in [Tasks -> {"new", "claimed", "stored", "popped", "freed"}]
        BY <1>0, <1>1 DEF TypeOK
    <2> QED BY <1>0, <1>1, <2>2, <2>3 DEF TypeOK, Busy
  <1>4. SlotsFit'
      BY <1>0, <1>1, <1>2 DEF SlotsFit, TypeOK
  <1>5. OncePerWorker'
    <2>1. \A t \in Tasks : status'[t] # "new" <=> status[t] # "new"
        BY <1>1, <1>2
    <2>2. \A t \in Tasks, w \in Workers : Past(w, t)' <=> Past(w, t)
        BY <1>1 DEF Past, Busy
    <2> QED BY <1>0, <1>1, <2>1, <2>2 DEF OncePerWorker
  <1>6. FinalizedLast'
      BY <1>0, <1>1 DEF FinalizedLast
  <1>7. NoUseAfterFree'
      BY <1>1 DEF NoUseAfterFree, Busy
  <1>8. Over'
      BY <1>1 DEF Over
  <1> QED BY <1>3, <1>4, <1>5, <1>6, <1>7, <1>8 DEF RingInv, FreedLast

LEMMA OverStutters == ASSUME TypeOK, Over, [Next]_vars PROVE vars' = vars
  <1>1. pc = [w \in Workers |-> "gone"]
      BY DEF Over, TypeOK
  <1>2. \A w \in Workers : ~ Tick(w) /\ ~ Stop(w)
      BY <1>1 DEF Tick, Front, Dispatch, Release, Finalize, TLSPop, Free, TLSNext, Stop
  <1>3. ~ Clear
      BY <1>1, SizeAssumption DEF Clear
  <1> QED BY <1>1, <1>2, <1>3 DEF Next, Issue

LEMMA Inductive == MaxOutstanding < Size => (IInv /\ [Next]_vars => IInv')
  <1> SUFFICES ASSUME MaxOutstanding < Size, IInv, [Next]_vars PROVE IInv'
      OBVIOUS
  <1>1. CASE Live /\ ~ Clear
      BY <1>1, TypedStep, RunningStep, OrderStep, FewOutstandingStep, RefsExactStep, RingStep,
         TicksStep, OncePerWorkerStep, FinalsStep DEF IInv, Live
  <1>2. CASE Live /\ Clear
      BY <1>2, ClearStep DEF IInv
  <1>3. CASE Over /\ RingInv /\ FreedLast
    <2>1. vars' = vars
        BY <1>3, OverStutters DEF RingInv
    <2>2. (Over /\ RingInv /\ FreedLast)'
        BY <1>3, <2>1 DEF vars, Over, RingInv, FreedLast, TypeOK, SlotsFit, OncePerWorker, Past,
                          FinalizedLast, NoUseAfterFree
    <2> QED BY <2>2 DEF IInv
  <1> QED BY <1>1, <1>2, <1>3 DEF IInv

(* Each worker runs each task of SyncTLS once, when its index passes it,   *)
(* and the assertions of Push and TLSPop hold, for rings of any size and   *)
(* any number of workers, if callers keep one slot of the ring empty.      *)
THEOREM TasksRunOnAll ==
    ASSUME MaxOutstanding < Size
    PROVE  Spec => []RingInv
  <1>1. Init => IInv
      BY InitLive DEF IInv
  <1>2. IInv => RingInv
      BY LiveIsSafe DEF IInv
  <1>3. IInv /\ [Next]_vars => IInv'
      BY Inductive
  <1> QED BY <1>1, <1>2, <1>3, PTL DEF Spec

(* The last worker to release a task finalizes and frees it, after all the *)
(* others have run it, and nobody has a freed task.                        *)
THEOREM LastFrees ==
    ASSUME MaxOutstanding < Size
    PROVE  Spec => []FreedLast
  <1>1. Init => IInv
      BY InitLive DEF IInv
  <1>2. IInv => FreedLast
      BY LiveIsSafe DEF IInv
  <1>3. IInv /\ [Next]_vars => IInv'
      BY Inductive
  <1> QED BY <1>1, <1>2, <1>3, PTL DEF Spec

(***************************************************************************)
(* The ring implements the broadcast.                                      *)
(***************************************************************************)
order == [i \in 1 .. head |-> CHOOSE t \in Tasks : status[t] # "new" /\ index[t] = i - 1]

ran == [w \in Workers |-> idx[w] + (IF pc[w] \in Busy \ {"dispatch"} THEN 1 ELSE 0)]

Finalized == {t \in Tasks : finals[t] > 0}

LEMMA OrderOf ==
    ASSUME TypeOK, Order
    PROVE  \A i \in 1 .. head : order[i] \in Issued /\ index[order[i]] = i - 1
  <1> SUFFICES ASSUME NEW i \in 1 .. head PROVE order[i] \in Issued /\ index[order[i]] = i - 1
      OBVIOUS
  <1>1. i - 1 \in Nat /\ i - 1 < head
      BY DEF TypeOK
  <1>2. \E t \in Tasks : status[t] # "new" /\ index[t] = i - 1
      BY <1>1 DEF Order, Issued
  <1> QED BY <1>2 DEF order, Issued

LEMMA OrderSame ==
    ASSUME TypeOK, Order, TypeOK', Order', Issued' = Issued, index' = index, head' = head
    PROVE  order' = order
  <1>1. \A i \in 1 .. head : order[i] \in Issued /\ index[order[i]] = i - 1
      BY OrderOf
  <1>2. \A i \in 1 .. head : order'[i] \in Issued /\ index[order'[i]] = i - 1
    <2>1. (TypeOK /\ Order => \A i \in 1 .. head : order[i] \in Issued /\ index[order[i]] = i - 1)'
        BY OrderOf, PTL
    <2> QED BY <2>1
  <1>3. \A i \in 1 .. head : order'[i] = order[i]
      BY <1>1, <1>2 DEF Order
  <1> QED BY <1>3 DEF order

LEMMA OrderGrows ==
    ASSUME TypeOK, Order, TypeOK', Order', NEW t \in Tasks, Claim(t)
    PROVE  order' = Append(order, t) /\ \A i \in 1 .. head : order[i] # t
  <1>1. \A i \in 1 .. head : order[i] \in Issued /\ index[order[i]] = i - 1
      BY OrderOf
  <1>2. \A i \in 1 .. head' : order'[i] \in Issued' /\ index'[order'[i]] = i - 1
    <2>1. (TypeOK /\ Order => \A i \in 1 .. head : order[i] \in Issued /\ index[order[i]] = i - 1)'
        BY OrderOf, PTL
    <2> QED BY <2>1
  <1>3. /\ head' = head + 1 /\ head \in Nat /\ t \notin Issued /\ Issued' = Issued \cup {t}
        /\ index'[t] = head /\ \A u \in Issued : index'[u] = index[u]
      BY DEF Claim, Issued, TypeOK
  <1>4. order'[head + 1] = t
    <2>1. order'[head + 1] \in Issued' /\ index'[order'[head + 1]] = head /\ t \in Issued'
        BY <1>2, <1>3
    <2> QED BY <1>3, <2>1 DEF Order
  <1>5. \A i \in 1 .. head : order'[i] = order[i]
    <2> SUFFICES ASSUME NEW i \in 1 .. head PROVE order'[i] = order[i]
        OBVIOUS
    <2>1. order[i] \in Issued' /\ index'[order[i]] = i - 1
        BY <1>1, <1>3
    <2>2. order'[i] \in Issued' /\ index'[order'[i]] = i - 1
        BY <1>2, <1>3
    <2> QED BY <2>1, <2>2 DEF Order
  <1>6. DOMAIN order = 1 .. head /\ DOMAIN order' = 1 .. head + 1 /\ order \in Seq(Tasks) /\ Len(order) = head
    <2>1. order \in [1 .. head -> Tasks]
        BY <1>1 DEF order, Issued
    <2> QED BY <1>3, <2>1 DEF order
  <1>7. order' = Append(order, t)
    <2>1. order' \in Seq(Tasks) /\ Len(order') = head + 1
      <3>1. order' \in [1 .. head + 1 -> Tasks]
          BY <1>2, <1>3 DEF order, Issued
      <3> QED BY <1>3, <3>1
    <2>2. /\ Append(order, t) \in Seq(Tasks) /\ Len(Append(order, t)) = head + 1
          /\ \A i \in 1 .. head : Append(order, t)[i] = order[i]
          /\ Append(order, t)[head + 1] = t
        BY <1>6, AppendProperties
    <2>3. \A i \in 1 .. head + 1 : order'[i] = Append(order, t)[i]
        BY <1>3, <1>4, <1>5, <2>2
    <2> QED BY <2>1, <2>2, <2>3, SeqEqual
  <1>8. \A i \in 1 .. head : order[i] # t
      BY <1>1, <1>3
  <1> QED BY <1>7, <1>8

(* What nobody holds any more, everybody has run.                          *)
LEMMA AllRanReleased ==
    ASSUME Live, NEW t \in Issued, refs[t] = 0, NEW w \in Workers
    PROVE  index[t] \in Nat /\ ran[w] \in Nat /\ index[t] < ran[w]
  <1>1. TypeOK /\ RefsExact
      BY DEF Live
  <1>2. t \in Tasks /\ index[t] \in Nat /\ idx[w] \in Nat
      BY <1>1 DEF TypeOK, Issued
  <1>3. Unreleased(t) = {}
    <2>1. Unreleased(t) \in SUBSET Workers
        BY DEF Unreleased
    <2> QED BY <1>1, <2>1, WorkersFinite DEF RefsExact
  <1>4. Released(w, t)
      BY <1>3 DEF Unreleased
  <1>5. ran[w] = idx[w] + (IF pc[w] \in Busy \ {"dispatch"} THEN 1 ELSE 0)
      BY DEF ran
  <1> QED BY <1>2, <1>4, <1>5 DEF Released, Final, Busy

(* Tasks that nobody holds any more are no more than any worker has run.   *)
LEMMA FewReleased ==
    ASSUME Live, NEW S \in SUBSET Issued, \A t \in S : refs[t] = 0, NEW w \in Workers
    PROVE  IsFiniteSet(S) /\ Cardinality(S) \in Nat /\ Cardinality(S) <= ran[w]
  <1> DEFINE f == [t \in S |-> index[t]]
  <1>1. \A t \in S : index[t] \in Nat /\ ran[w] \in Nat /\ index[t] < ran[w]
      BY AllRanReleased
  <1>2. ran[w] \in Nat
      BY DEF Live, TypeOK, ran
  <1>3. f \in Injection(S, 0 .. ran[w] - 1)
    <2>1. \A t \in S : index[t] \in 0 .. ran[w] - 1
        BY <1>1, <1>2
    <2>2. \A t, u \in S : index[t] = index[u] => t = u
        BY DEF Live, Order
    <2> QED BY <2>1, <2>2 DEF Injection, IsInjective
  <1>4. IsFiniteSet(0 .. ran[w] - 1) /\ Cardinality(0 .. ran[w] - 1) = ran[w]
      BY SMTT(30), <1>2, FS_Interval
  <1>5. IsFiniteSet(S) /\ Cardinality(S) <= ran[w]
      BY <1>3, <1>4, FS_Injection
  <1> QED BY <1>5, FS_CardinalityType


LEMMA RanAt ==
    ASSUME TypeOK, TypeOK'
    PROVE  /\ ran \in [Workers -> Nat] /\ ran' \in [Workers -> Nat]
           /\ \A v \in Workers : idx'[v] = idx[v] /\ pc'[v] = pc[v] => ran'[v] = ran[v]
  <1> QED BY DEF ran, TypeOK

(* A step that issues, runs and finalizes nothing.                         *)
LEMMA Unseen ==
    ASSUME TypeOK, Order, TypeOK', Order', Issued' = Issued, index' = index, head' = head,
           finals' = finals, ran' = ran
    PROVE  UNCHANGED <<order, ran, Cardinality(Finalized)>>
  <1>1. order' = order
      BY OrderSame
  <1>2. Finalized' = Finalized
      BY DEF Finalized
  <1> QED BY <1>1, <1>2

LEMMA ClaimIssues ==
    ASSUME TypeOK, Order, TypeOK', Order', NEW t \in Tasks, Claim(t)
    PROVE  /\ \A i \in DOMAIN order : order[i] # t
           /\ order' = Append(order, t)
           /\ UNCHANGED <<ran, Cardinality(Finalized)>>
  <1>1. order' = Append(order, t) /\ \A i \in 1 .. head : order[i] # t
      BY OrderGrows
  <1>2. DOMAIN order = 1 .. head
      BY DEF order
  <1>3. ran' = ran
      BY DEF ran, Claim, workerVars
  <1>4. Finalized' = Finalized
      BY DEF Finalized, Claim, history
  <1> QED BY <1>1, <1>2, <1>3, <1>4

LEMMA DispatchRuns ==
    ASSUME Live, TypeOK', Order', NEW w \in Workers, Dispatch(w)
    PROVE  /\ ran[w] < Len(order)
           /\ ran' = [ran EXCEPT ![w] = @ + 1]
           /\ UNCHANGED <<order, Cardinality(Finalized)>>
  <1>0. TypeOK /\ Order /\ TickOf(w)
      BY TicksParts DEF Live
  <1>1. /\ pc[w] = "dispatch" /\ pc' = [pc EXCEPT ![w] = "release"] /\ idx' = idx
        /\ finals' = finals /\ status' = status /\ index' = index /\ head' = head
      BY DEF Dispatch, Goto, taskVars
  <1>2. ran[w] = idx[w] /\ idx[w] < head
    <2>1. cur[w] \in Issued /\ index[cur[w]] = idx[w]
        BY <1>0, <1>1 DEF TickOf, Busy
    <2> QED BY <1>0, <1>1, <2>1 DEF ran, Order, TypeOK
  <1>3. Len(order) = head
    <2>1. order \in [1 .. head -> Tasks]
        BY <1>0, OrderOf DEF order, Issued
    <2> QED BY <1>0, <2>1 DEF TypeOK
  <1>4. ran' = [ran EXCEPT ![w] = ran[w] + 1]
    <2>1. \A v \in Workers : ran'[v] = IF v = w THEN ran[v] + 1 ELSE ran[v]
        BY <1>0, <1>1 DEF ran, TypeOK, Busy
    <2> QED BY <1>0, <2>1, RanAt
  <1>5. order' = order
      BY <1>0, <1>1, OrderSame DEF Issued
  <1>6. Finalized' = Finalized
      BY <1>1 DEF Finalized
  <1> QED BY <1>2, <1>3, <1>4, <1>5, <1>6

LEMMA FinalizeFinalizes ==
    ASSUME Live, TypeOK', Order', NEW w \in Workers, Finalize(w)
    PROVE  /\ \A v \in Workers : Cardinality(Finalized) < ran[v]
           /\ Cardinality(Finalized)' = Cardinality(Finalized) + 1
           /\ UNCHANGED <<order, ran>>
  <1>0. TypeOK /\ Order /\ Finals /\ TickOf(w)
      BY TicksParts DEF Live
  <1>1. PICK t \in Tasks : t = cur[w]
      BY <1>0 DEF Finalize, TypeOK, Busy
  <1>2. /\ pc[w] = "finalize" /\ pc' = [pc EXCEPT ![w] = "pop"] /\ idx' = idx
        /\ finals' = [finals EXCEPT ![t] = finals[t] + 1]
        /\ status' = status /\ index' = index /\ head' = head
      BY <1>1 DEF Finalize, Goto, taskVars
  <1>3. t \in Issued /\ refs[t] = 0 /\ finals[t] = 0
      BY <1>0, <1>1, <1>2 DEF Finals, TickOf, Busy, Final
  <1>4. Finalized' = Finalized \cup {t} /\ t \notin Finalized
      BY <1>0, <1>2, <1>3 DEF Finalized, Finals, TypeOK
  <1>5. Finalized \in SUBSET Issued /\ \A u \in Finalized : refs[u] = 0
      BY <1>0 DEF Finalized, Finals
  <1>6. Finalized \cup {t} \in SUBSET Issued /\ \A u \in Finalized \cup {t} : refs[u] = 0
      BY <1>3, <1>5
  <1>7. IsFiniteSet(Finalized) /\ Cardinality(Finalized) \in Nat
    <2>1. PICK v \in Workers : TRUE
        BY SizeAssumption
    <2> QED BY <1>5, <2>1, FewReleased
  <1>8. Cardinality(Finalized \cup {t}) = Cardinality(Finalized) + 1
      BY <1>4, <1>7, FS_AddElement
  <1>9. \A v \in Workers : Cardinality(Finalized) < ran[v]
    <2> SUFFICES ASSUME NEW v \in Workers PROVE Cardinality(Finalized) < ran[v]
        OBVIOUS
    <2>1. Cardinality(Finalized \cup {t}) <= ran[v]
        BY <1>6, FewReleased
    <2>2. ran[v] \in Nat
        BY <1>0 DEF ran, TypeOK
    <2> QED BY <1>7, <1>8, <2>1, <2>2
  <1>10. order' = order
      BY <1>0, <1>2, OrderSame DEF Issued
  <1>11. ran' = ran
    <2>1. \A v \in Workers : ran'[v] = ran[v]
        BY <1>0, <1>2 DEF ran, TypeOK, Busy
    <2> QED BY <1>0, <2>1, RanAt
  <1> QED BY <1>4, <1>8, <1>9, <1>10, <1>11

(* The other steps of a worker.                                            *)
LEMMA OthersUnseen ==
    ASSUME Live, TypeOK', Order', NEW w \in Workers,
           \/ Front(w) \/ Release(w) \/ TLSPop(w) \/ Free(w) \/ TLSNext(w) \/ Stop(w)
    PROVE  UNCHANGED <<order, ran, Cardinality(Finalized)>>
  <1>0. TypeOK /\ Order /\ TickOf(w)
      BY TicksParts DEF Live
  <1>1. Issued' = Issued /\ index' = index /\ head' = head /\ finals' = finals
    <2>1. CASE Front(w) \/ Release(w) \/ TLSNext(w) \/ Stop(w)
        BY <2>1 DEF Front, Release, TLSNext, Stop, taskVars, history, Issued
    <2>2. CASE TLSPop(w) \/ Free(w)
      <3>1. pc[w] \in {"pop", "free"}
          BY <2>2 DEF TLSPop, Free
      <3>2. cur[w] \in Issued
          BY <1>0, <3>1 DEF TickOf, Busy
      <3> QED BY <1>0, <2>2, <3>2 DEF TLSPop, Free, taskVars, history, Issued, TypeOK
    <2> QED BY <2>1, <2>2
  <1>2. \A v \in Workers : ran'[v] = ran[v]
    <2>1. CASE Release(w) \/ TLSPop(w) \/ Free(w)
        BY <1>0, <2>1 DEF Release, TLSPop, Free, Goto, ran, TypeOK, Busy
    <2>2. CASE Stop(w)
        BY <1>0, <2>2 DEF Stop, Goto, ran, TypeOK, Busy
    <2>3. CASE Front(w)
        BY <1>0, <2>3 DEF Front, Load, ran, TypeOK, Busy
    <2>4. CASE TLSNext(w)
        BY <1>0, <2>4 DEF TLSNext, Load, ran, TypeOK, Busy
    <2> QED BY <2>1, <2>2, <2>3, <2>4
  <1>3. ran' = ran
      BY <1>0, <1>2, RanAt
  <1> QED BY <1>0, <1>1, <1>3, Unseen

LEMMA ClearUnseen ==
    ASSUME Live, TypeOK', Clear
    PROVE  UNCHANGED <<order, ran, Cardinality(Finalized)>>
  <1>0. TypeOK /\ Order /\ Ring
      BY DEF Live
  <1>1. Issued' = Issued /\ index' = index /\ head' = head /\ finals' = finals
    <2>1. \A t \in Tasks : (\E s \in Slots : items[s] = t) => status[t] # "new"
      <3> SUFFICES ASSUME NEW t \in Tasks, NEW s \in Slots, items[s] = t
                   PROVE  status[t] # "new"
          OBVIOUS
      <3>1. items[s] # Null
          BY SizeAssumption
      <3>2. status[items[s]] = "stored"
          BY <1>0, <3>1 DEF Ring
      <3> QED BY <3>2
    <2>2. \A t \in Tasks : status'[t] # "new" <=> status[t] # "new"
        BY <1>0, <2>1 DEF Clear
    <2> QED BY <2>2 DEF Clear, taskVars, history, Issued
  <1>2. Order'
      BY <1>0, <1>1 DEF Order
  <1>3. \A v \in Workers : ran'[v] = ran[v]
      BY <1>0 DEF Clear, ran, TypeOK, Busy
  <1>4. ran' = ran
      BY <1>0, <1>3, RanAt
  <1> QED BY <1>0, <1>1, <1>2, <1>4, Unseen

(* With one slot left empty, the ring with its references and the private  *)
(* indexes of the workers implements the broadcast: the claim of a slot is *)
(* the moment a task is issued, its dispatch the moment a worker runs it.  *)
THEOREM ImplementsBroadcast ==
    ASSUME MaxOutstanding < Size
    PROVE  Spec => BroadcastInOrder
  <1>1. Init => Broadcast!Init
    <2> SUFFICES ASSUME Init PROVE Broadcast!Init
        OBVIOUS
    <2>1. order = << >>
        BY DEF Init, order
    <2>2. ran = [w \in Workers |-> 0]
        BY DEF Init, Busy, ran
    <2>3. Cardinality(Finalized) = 0
      <3>1. Finalized = {}
          BY DEF Init, Finalized
      <3> QED BY <3>1, FS_EmptySet
    <2> QED BY <2>1, <2>2, <2>3 DEF Broadcast!Init, order, ran, Finalized
  <1>2. ASSUME IInv, IInv', [Next]_vars
        PROVE  [Broadcast!Next]_(Broadcast!vars)
    <2>1. CASE Live /\ ~ Clear
      <3>0. TypeOK /\ TypeOK' /\ Order /\ Order'
          BY <1>2, <2>1, TypedStep, OrderStep DEF Live
      <3>1. ASSUME NEW t \in Tasks, Claim(t) PROVE Broadcast!Next
        <4>1. Broadcast!Issue(t)
            BY <3>0, <3>1, ClaimIssues DEF order, ran, Finalized, Broadcast!Issue
        <4> QED BY <4>1 DEF Broadcast!Next
      <3>2. ASSUME NEW w \in Workers, Dispatch(w) PROVE Broadcast!Next
        <4>1. Broadcast!Run(w)
            BY <2>1, <3>0, <3>2, DispatchRuns DEF order, ran, Finalized, Broadcast!Run
        <4> QED BY <4>1 DEF Broadcast!Next
      <3>3. ASSUME NEW w \in Workers, Finalize(w) PROVE Broadcast!Next
        <4>1. Broadcast!Finalize
            BY <2>1, <3>0, <3>3, FinalizeFinalizes DEF order, ran, Finalized, Broadcast!Finalize
        <4> QED BY <4>1 DEF Broadcast!Next
      <3>4. ASSUME NEW w \in Workers,
                   \/ Front(w) \/ Release(w) \/ TLSPop(w) \/ Free(w) \/ TLSNext(w) \/ Stop(w)
            PROVE  UNCHANGED Broadcast!vars
          BY <2>1, <3>0, <3>4, OthersUnseen DEF order, ran, Finalized, Broadcast!vars
      <3>5. ASSUME NEW t \in Tasks, Store(t) PROVE UNCHANGED Broadcast!vars
        <4>1. UNCHANGED <<order, ran, Cardinality(Finalized)>>
          <5>1. Issued' = Issued /\ index' = index /\ head' = head /\ finals' = finals /\ ran' = ran
              BY <3>0, <3>5 DEF Store, taskVars, workerVars, history, Issued, ran, TypeOK
          <5> QED BY <3>0, <5>1, Unseen
        <4> QED BY <4>1 DEF order, ran, Finalized, Broadcast!vars
      <3>6. CASE UNCHANGED vars
          BY <3>6 DEF vars, Broadcast!vars
      <3> QED BY <1>2, <2>1, <3>1, <3>2, <3>3, <3>4, <3>5, <3>6 DEF Next, Issue, Tick
    <2>2. CASE Live /\ Clear
      <3>1. TypeOK'
          BY <2>2, ClearStep DEF RingInv
      <3> QED BY <2>2, <3>1, ClearUnseen DEF order, ran, Finalized, Broadcast!vars
    <2>3. CASE Over /\ RingInv
      <3>1. UNCHANGED vars
          BY <1>2, <2>3, OverStutters DEF RingInv
      <3> QED BY <3>1 DEF vars, Broadcast!vars
    <2> QED BY <1>2, <2>1, <2>2, <2>3 DEF IInv
  <1>3. Init => IInv
      BY InitLive DEF IInv
  <1>4. IInv /\ [Next]_vars => IInv'
      BY Inductive
  <1>5. Spec => []IInv
      BY <1>3, <1>4, PTL DEF Spec
  <1> QED BY <1>1, <1>2, <1>5, PTL DEF Spec, BroadcastInOrder, Broadcast!Spec
=============================================================================
