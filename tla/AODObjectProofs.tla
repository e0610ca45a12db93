-------------------------- MODULE AODObjectProofs --------------------------
(***************************************************************************)
(* For all threads, objects, kinds and tasks: an object has at most one    *)
(* consumer, lives as long as it is used and no longer, nothing is left    *)
(* behind when all calls have returned, and each object runs its tasks one *)
(* at a time in the order of its queue.                                    *)
(*                                                                         *)
(* That calls of Dispatch do not flush one object at once is not inductive:*)
(* ConsumerInv follows the role of consumer through the calls that won the *)
(* election and have not claimed the object and through the pending lists. *)
(* LifeInv adds who holds which reference, what the counter counts, where  *)
(* the tasks are and which calls are under way.                            *)
(***************************************************************************)
EXTENDS AODObject, FiniteSets, FiniteSetTheorems, TLAPS

Roles == BusyInv /\ CallsInv /\ ListsInv

LEMMA InitRoles == Init => ConsumerInv
  <1> SUFFICES ASSUME Init PROVE ConsumerInv
      OBVIOUS
  <1>1. Typed
      BY DEF Init, Typed, Pcs, FlushPcs
  <1>2. /\ \A t \in Tasks : ~Elected(t) /\ ~Flushing(t)
        /\ \A th \in Threads, k \in Kinds : Places(th, k) = {}
      BY DEF Init, Elected, Flushing, Places
  <1>3. BusyInv /\ CallsInv /\ ListsInv
      BY <1>2 DEF BusyInv, CallsInv, ListsInv
  <1> QED BY <1>1, <1>3 DEF ConsumerInv

(***************************************************************************)
(* A step that gives nobody the role and leaves counters and lists alone.  *)
(***************************************************************************)
Quiet ==
    /\ count' = count
    /\ pending' = pending
    /\ \A t \in Tasks : Elected(t)' => Elected(t) /\ target'[t] = target[t]
    /\ \A t \in Tasks : Flushing(t)' => Flushing(t) /\ cur'[t] = cur[t]

LEMMA QuietStep == Roles /\ Quiet => Roles'
  <1> SUFFICES ASSUME Roles, Quiet PROVE Roles'
      OBVIOUS
  <1>1. BusyInv'
      BY DEF Roles, Quiet, BusyInv, Places
  <1>2. CallsInv'
      BY DEF Roles, Quiet, CallsInv
  <1>3. ListsInv'
      BY DEF Roles, Quiet, ListsInv, Places
  <1> QED BY <1>1, <1>2, <1>3 DEF Roles

(* A call on a stack: its place changes and nothing else of it does.       *)
LEMMA TypedStep ==
    ASSUME Typed, NEW th \in Threads, NEW t \in Tasks, NEW l, NEW m \in Pcs,
           At(th, t, l), l # "new", m # "new", 
           Goto(t, m) \/ Return(th, t, m)
    PROVE  /\ pc' = [pc EXCEPT ![t] = m]
           /\ pc' \in [Tasks -> Pcs]
           /\ stack' \in [Threads -> Seq(Tasks)]
           /\ target[t] \in Objects /\ Kind(target[t]) \in Kinds
           /\ (l \in FlushPcs => cur[t] \in Objects)
  <1>1. pc[t] = l /\ stack[th] # <<>>
      BY DEF At, Idle
  <1>2. pc' = [pc EXCEPT ![t] = m]
      BY DEF Goto, Return
  <1>3. stack' \in [Threads -> Seq(Tasks)]
    <2>1. CASE Goto(t, m)
        BY <2>1 DEF Goto, Typed
    <2>2. CASE Return(th, t, m)
        BY <2>2, <1>1 DEF Return, Typed
    <2> QED BY <2>1, <2>2
  <1>4. target[t] \in Objects
      BY <1>1 DEF Typed
  <1> QED BY <1>1, <1>2, <1>3, <1>4, KindAssumption DEF Typed, Kind

(***************************************************************************)
(* One lemma per action.                                                   *)
(***************************************************************************)
LEMMA DoAsyncStep ==
    ASSUME Typed, NEW th \in Threads, NEW t \in Tasks, NEW o \in Objects, DoAsync(th, t, o)
    PROVE  Typed' /\ Quiet
  <1>1. <<t>> \o stack[th] \in Seq(Tasks)
      BY DEF Typed
  <1>2. Typed'
      BY <1>1 DEF DoAsync, Typed, Pcs, FlushPcs, objVars, threadVars
  <1>3. Quiet
      BY DEF DoAsync, Quiet, Elected, Flushing, Typed, objVars, threadVars
  <1> QED BY <1>2, <1>3

LEMMA DoAsyncAfterStep ==
    ASSUME Typed, NEW th \in Threads, NEW t \in Tasks, NEW o \in Objects, DoAsyncAfter(th, t, o)
    PROVE  Typed' /\ Quiet
  <1>1. Typed'
      BY DEF DoAsyncAfter, Typed, Pcs, FlushPcs, objVars, threadVars
  <1>2. Quiet
      BY DEF DoAsyncAfter, Quiet, Elected, Flushing, Typed, objVars, threadVars
  <1> QED BY <1>1, <1>2

LEMMA DispatchDelayedStep ==
    ASSUME Typed, NEW th \in Threads, NEW t \in Tasks, DispatchDelayed(th, t)
    PROVE  Typed' /\ Quiet
  <1>1. <<t>> \in Seq(Tasks)
      OBVIOUS
  <1>2. Typed'
      BY <1>1 DEF DispatchDelayed, Typed, Pcs, FlushPcs, objVars, threadVars
  <1>3. Quiet
      BY DEF DispatchDelayed, Quiet, Elected, Flushing, Typed, objVars, threadVars
  <1> QED BY <1>2, <1>3

LEMMA DisownStep ==
    ASSUME Typed, NEW o \in Objects, Disown(o)
    PROVE  Typed' /\ Quiet
  <1>1. Typed'
      BY DEF Disown, Typed, objVars, threadVars
  <1>2. Quiet
      BY DEF Disown, Quiet, Elected, Flushing, objVars, threadVars
  <1> QED BY <1>1, <1>2

LEMMA PushSwapStep ==
    ASSUME Typed, NEW th \in Threads, NEW t \in Tasks, PushSwap(th, t)
    PROVE  Typed' /\ Quiet
  <1>1. /\ pc' = [pc EXCEPT ![t] = "link"] /\ pc' \in [Tasks -> Pcs]
        /\ stack' \in [Threads -> Seq(Tasks)] /\ target[t] \in Objects /\ pc[t] = "swap"
      BY TypedStep DEF PushSwap, Pcs, FlushPcs, At
  <1>2. queue' \in [Objects -> Seq(Tasks)]
      BY <1>1 DEF PushSwap, Typed
  <1>3. Typed'
      BY <1>1, <1>2 DEF PushSwap, Typed, FlushPcs, threadVars
  <1>4. Quiet
      BY <1>1 DEF PushSwap, Quiet, Elected, Flushing, Typed, threadVars
  <1> QED BY <1>3, <1>4

LEMMA PushLinkStep ==
    ASSUME Typed, NEW th \in Threads, NEW t \in Tasks, PushLink(th, t)
    PROVE  Typed' /\ Quiet
  <1>1. PICK m \in {"claim", "returnedFalse"} :
            /\ Goto(t, m) \/ Return(th, t, m)
            /\ m = "claim" => won[t]
      BY DEF PushLink
  <1>2. m \in Pcs /\ m # "new" /\ m \notin FlushPcs
      BY DEF Pcs, FlushPcs
  <1>3. /\ pc' = [pc EXCEPT ![t] = m] /\ pc' \in [Tasks -> Pcs]
        /\ stack' \in [Threads -> Seq(Tasks)] /\ target[t] \in Objects /\ pc[t] = "link"
      BY <1>1, <1>2, TypedStep DEF PushLink, At
  <1>4. Typed'
      BY <1>2, <1>3 DEF PushLink, Typed, objVars, threadVars
  <1>5. Quiet
      BY <1>1, <1>2, <1>3 DEF PushLink, Quiet, Elected, Flushing, FlushPcs, Typed, objVars, threadVars
  <1> QED BY <1>4, <1>5

LEMMA PopStep ==
    ASSUME Typed, NEW th \in Threads, NEW t \in Tasks, Pop(th, t)
    PROVE  Typed' /\ Quiet
  <1>1. /\ pc' = [pc EXCEPT ![t] = "run"] /\ pc' \in [Tasks -> Pcs]
        /\ stack' \in [Threads -> Seq(Tasks)]
        /\ target[t] \in Objects /\ cur[t] \in Objects /\ pc[t] = "pop"
      BY TypedStep DEF Pop, Pcs, FlushPcs, At
  <1>2. queue' \in [Objects -> Seq(Tasks)]
      BY <1>1 DEF Pop, Typed
  <1>3. Typed'
      BY <1>1, <1>2 DEF Pop, Typed, threadVars
  <1>4. Quiet
      BY <1>1 DEF Pop, Quiet, Elected, Flushing, Typed, threadVars
  <1> QED BY <1>3, <1>4

LEMMA FinishTaskStep ==
    ASSUME Typed, NEW th \in Threads, NEW t \in Tasks, FinishTask(th, t)
    PROVE  Typed' /\ Quiet
  <1>1. /\ pc' = [pc EXCEPT ![t] = "decrement"] /\ pc' \in [Tasks -> Pcs]
        /\ stack' \in [Threads -> Seq(Tasks)]
        /\ target[t] \in Objects /\ cur[t] \in Objects /\ pc[t] = "run"
      BY TypedStep DEF FinishTask, Pcs, FlushPcs, At
  <1>2. Typed'
      BY <1>1 DEF FinishTask, Typed, objVars, threadVars
  <1>3. Quiet
      BY <1>1 DEF FinishTask, Quiet, Elected, Flushing, Typed, objVars, threadVars
  <1> QED BY <1>2, <1>3

(* The election: only a counter at zero elects, and then nobody has the    *)
(* role (BusyInv).                                                         *)
LEMMA IncrementStep ==
    ASSUME Typed, Roles, NEW th \in Threads, NEW t \in Tasks, Increment(th, t)
    PROVE  Typed' /\ Roles'
  <1> DEFINE o == target[t]
  <1>1. /\ pc' = [pc EXCEPT ![t] = "swap"] /\ pc' \in [Tasks -> Pcs]
        /\ stack' \in [Threads -> Seq(Tasks)] /\ o \in Objects /\ pc[t] = "increment"
      BY TypedStep DEF Increment, Pcs, FlushPcs, At
  <1>2. /\ count' \in [Objects -> Nat]
        /\ count'[o] = count[o] + 1 /\ \A p \in Objects \ {o} : count'[p] = count[p]
    <2>1. count \in [Objects -> Nat] /\ count' = [count EXCEPT ![o] = @ + 1]
        BY DEF Increment, Typed
    <2> HIDE DEF o
    <2> QED BY <1>1, <2>1
  <1>3. won' \in [Tasks -> BOOLEAN] /\ (won'[t] <=> count[o] = 0)
        /\ \A u \in Tasks \ {t} : won'[u] = won[u]
      BY DEF Increment, Typed
  <1>4. UNCHANGED <<queue, flag, pending, target, cur>>
      BY DEF Increment, threadVars
  <1>5. Typed'
      BY <1>1, <1>2, <1>3, <1>4 DEF Typed, FlushPcs
  <1>6. \A p \in Objects : count[p] > 0 => count'[p] > 0
    <2>1. \A p \in Objects : count[p] \in Nat
        BY DEF Typed
    <2> HIDE DEF o
    <2> QED BY <1>2, <2>1
  <1>7. /\ \A u \in Tasks \ {t} : Elected(u)' <=> Elected(u)
        /\ \A u \in Tasks : Flushing(u)' <=> Flushing(u)
        /\ Elected(t)' <=> count[o] = 0
        /\ \A u \in Tasks : Elected(u) => target[u] \in Objects
        /\ \A u \in Tasks : Flushing(u) => cur[u] \in Objects
    <2>1. \A u \in Tasks \ {t} : Elected(u)' <=> Elected(u)
      <3> SUFFICES ASSUME NEW u \in Tasks \ {t} PROVE Elected(u)' <=> Elected(u)
          OBVIOUS
      <3>1. pc'[u] = pc[u] /\ won'[u] = won[u]
          BY <1>1, <1>3 DEF Typed
      <3> QED BY <3>1 DEF Elected
    <2>2. \A u \in Tasks : Flushing(u)' <=> Flushing(u)
        BY <1>1 DEF Flushing, Typed
    <2>3. Elected(t)' <=> count[o] = 0
      <3>1. pc'[t] = "swap"
          BY <1>1 DEF Typed
      <3> QED BY <3>1, <1>3 DEF Elected
    <2>4. \A u \in Tasks : Elected(u) => target[u] \in Objects
        BY DEF Elected, Typed
    <2>5. \A u \in Tasks : Flushing(u) => cur[u] \in Objects
        BY DEF Flushing, Typed, FlushPcs
    <2> QED BY <2>1, <2>2, <2>3, <2>4, <2>5
  <1>8. \A x \in Threads, k \in Kinds : \A i \in Places(x, k) : pending[x][k][i] \in Objects
      BY DEF Typed, Places
  <1>9. BusyInv'
    <2>1. count'[o] > 0
      <3>1. count[o] \in Nat
          BY <1>1 DEF Typed
      <3> QED BY <1>2, <3>1
    <2>2. \A u \in Tasks : Elected(u)' => count'[target'[u]] > 0
        BY <2>1, <1>4, <1>6, <1>7 DEF Roles, BusyInv
    <2>3. \A u \in Tasks : Flushing(u)' => count'[cur'[u]] > 0
        BY <1>4, <1>6, <1>7 DEF Roles, BusyInv
    <2>4. \A x \in Threads, k \in Kinds : \A i \in Places(x, k)' : count'[pending'[x][k][i]] > 0
        BY <1>4, <1>6, <1>8 DEF Roles, BusyInv, Places
    <2> QED BY <2>2, <2>3, <2>4 DEF BusyInv
  <1>10. count[o] = 0 =>
           /\ \A u \in Tasks : Elected(u) => target[u] # o
           /\ \A u \in Tasks : Flushing(u) => cur[u] # o
           /\ \A x \in Threads, k \in Kinds : \A i \in Places(x, k) : pending[x][k][i] # o
      BY DEF Roles, BusyInv
  <1>11. CallsInv'
      BY <1>4, <1>7, <1>10 DEF Roles, CallsInv
  <1>12. ListsInv'
    <2>1. \A x \in Threads, k \in Kinds : \A i \in Places(x, k) : \A u \in Tasks :
              /\ Elected(u)' => target[u] # pending[x][k][i]
              /\ Flushing(u)' => cur[u] # pending[x][k][i]
        BY <1>7, <1>10 DEF Roles, ListsInv
    <2> QED BY <1>4, <2>1 DEF Roles, ListsInv, Places
  <1> QED BY <1>5, <1>9, <1>11, <1>12 DEF Roles

(* The elected call passes the role to a place in its thread's list, or    *)
(* begins to flush.                                                        *)
LEMMA ClaimStep ==
    ASSUME Typed, Roles, NEW th \in Threads, NEW t \in Tasks, Claim(th, t)
    PROVE  Typed' /\ Roles'
  <1> DEFINE o == target[t]
             k == Kind(o)
             n == Len(pending[th][k])
  <1>1. /\ o \in Objects /\ k \in Kinds /\ pc[t] = "claim"
        /\ pending[th][k] \in Seq(Objects) /\ n \in Nat
    <2>1. pc[t] = "claim"
        BY DEF Claim, At
    <2>2. o \in Objects
        BY <2>1 DEF Typed
    <2>3. k \in Kinds
        BY <2>2, KindAssumption DEF Kind
    <2>4. pending[th][k] \in Seq(Objects)
        BY <2>3 DEF Typed
    <2> HIDE DEF o, k
    <2> QED BY <2>1, <2>2, <2>3, <2>4
  <1>2. UNCHANGED <<count, queue, target, won>>
      BY DEF Claim, objVars
  <1>3. /\ \A u \in Tasks : Elected(u) => target[u] \in Objects
        /\ \A u \in Tasks : Flushing(u) => cur[u] \in Objects
        /\ \A x \in Threads, j \in Kinds : \A i \in Places(x, j) : pending[x][j][i] \in Objects
      BY DEF Elected, Flushing, FlushPcs, Typed, Places
  (* Nobody else has the role.                                             *)
  <1>4. /\ count[o] > 0
        /\ \A u \in Tasks \ {t} : Elected(u) => target[u] # o
        /\ \A u \in Tasks : Flushing(u) => cur[u] # o
        /\ \A x \in Threads, j \in Kinds : \A i \in Places(x, j) : pending[x][j][i] # o
    <2>1. Elected(t)
        BY <1>1 DEF Elected
    <2> QED BY <2>1 DEF Roles, BusyInv, CallsInv, ListsInv
  <1>5. CASE flag[th][k]
    <2>1. /\ pending' = [pending EXCEPT ![th][k] = Append(@, o)]
          /\ Return(th, t, "returnedTrue") /\ UNCHANGED <<flag, cur>>
        BY <1>5 DEF Claim
    <2>2. /\ pc' = [pc EXCEPT ![t] = "returnedTrue"] /\ pc' \in [Tasks -> Pcs]
          /\ stack' \in [Threads -> Seq(Tasks)]
        BY <2>1, TypedStep DEF Claim, Pcs, FlushPcs
    <2>3. /\ pending' \in [Threads -> [Kinds -> Seq(Objects)]]
          /\ pending'[th][k] = Append(pending[th][k], o)
          /\ \A x \in Threads, j \in Kinds :
                x # th \/ j # k => pending'[x][j] = pending[x][j]
      <3>1. pending \in [Threads -> [Kinds -> Seq(Objects)]]
          BY DEF Typed
      <3>2. Append(pending[th][k], o) \in Seq(Objects)
          BY <1>1
      <3> HIDE DEF o, k
      <3> QED BY <1>1, <2>1, <3>1, <3>2
    <2>4. Typed'
        BY <1>2, <2>1, <2>2, <2>3 DEF Typed, FlushPcs
    <2>5. /\ \A u \in Tasks : Elected(u)' => Elected(u) /\ u # t
          /\ \A u \in Tasks : Flushing(u)' => Flushing(u)
        BY <1>2, <2>2 DEF Elected, Flushing, Typed
    <2>6. \A x \in Threads, j \in Kinds : \A i \in Places(x, j)' :
             \/ i \in Places(x, j) /\ pending'[x][j][i] = pending[x][j][i]
             \/ x = th /\ j = k /\ i = n + 1 /\ pending'[x][j][i] = o
      <3> SUFFICES ASSUME NEW x \in Threads, NEW j \in Kinds, NEW i \in Places(x, j)'
                   PROVE  \/ i \in Places(x, j) /\ pending'[x][j][i] = pending[x][j][i]
                          \/ x = th /\ j = k /\ i = n + 1 /\ pending'[x][j][i] = o
          OBVIOUS
      <3>1. CASE x # th \/ j # k
          BY <2>3, <3>1 DEF Places
      <3>2. CASE x = th /\ j = k
        <4>1. i \in 1 .. Len(Append(pending[th][k], o))
            BY <2>3, <3>2 DEF Places
        <4> DEFINE s == pending[th][k]
        <4>2. Len(Append(s, o)) = Len(s) + 1 /\ s \in Seq(Objects) /\ Len(s) \in Nat
            BY <1>1
        <4>3. \/ i \in 1 .. Len(s) /\ Append(s, o)[i] = s[i]
              \/ i = Len(s) + 1 /\ Append(s, o)[i] = o
          <5> HIDE DEF s, o
          <5> QED BY <4>1, <4>2 DEF s
        <4> QED BY <2>3, <3>2, <4>3 DEF Places
      <3> QED BY <3>1, <3>2
    <2> HIDE DEF o, k, n
    <2>7. BusyInv'
      <3>1. \A u \in Tasks : Elected(u)' => count'[target'[u]] > 0
          BY <1>2, <2>5 DEF Roles, BusyInv
      <3>2. \A u \in Tasks : Flushing(u)' => count'[cur'[u]] > 0
          BY <1>2, <2>1, <2>5 DEF Roles, BusyInv
      <3>3. \A x \in Threads, j \in Kinds : \A i \in Places(x, j)' : count'[pending'[x][j][i]] > 0
          BY <1>2, <1>4, <2>6 DEF Roles, BusyInv
      <3> QED BY <3>1, <3>2, <3>3 DEF BusyInv
    <2>8. CallsInv'
        BY <1>2, <2>1, <2>5 DEF Roles, CallsInv
    <2>9. ListsInv'
      <3>1. \A x \in Threads, j \in Kinds : \A i \in Places(x, j)' : \A u \in Tasks :
               /\ Elected(u)' => target'[u] # pending'[x][j][i]
               /\ Flushing(u)' => cur'[u] # pending'[x][j][i]
        <4> SUFFICES ASSUME NEW x \in Threads, NEW j \in Kinds, NEW i \in Places(x, j)', NEW u \in Tasks
                     PROVE  /\ Elected(u)' => target[u] # pending'[x][j][i]
                            /\ Flushing(u)' => cur[u] # pending'[x][j][i]
            BY <1>2, <2>1
        <4>1. CASE i \in Places(x, j) /\ pending'[x][j][i] = pending[x][j][i]
            BY <4>1, <2>5 DEF Roles, ListsInv
        <4>2. CASE pending'[x][j][i] = o
            BY <4>2, <1>4, <2>5
        <4> QED BY <4>1, <4>2, <2>6
      <3>2. \A x1, x2 \in Threads, j1, j2 \in Kinds :
              \A i1 \in Places(x1, j1)', i2 \in Places(x2, j2)' :
                 pending'[x1][j1][i1] = pending'[x2][j2][i2] => x1 = x2 /\ j1 = j2 /\ i1 = i2
          BY <1>4, <2>6 DEF Roles, ListsInv
      <3> QED BY <3>1, <3>2 DEF ListsInv
    <2> QED BY <2>4, <2>7, <2>8, <2>9 DEF Roles
  <1>6. CASE ~flag[th][k]
    <2>1. /\ flag' = [flag EXCEPT ![th][k] = TRUE] /\ cur' = [cur EXCEPT ![t] = o]
          /\ Goto(t, "pop") /\ pending' = pending
        BY <1>6 DEF Claim
    <2>2. /\ pc' = [pc EXCEPT ![t] = "pop"] /\ pc' \in [Tasks -> Pcs]
          /\ stack' \in [Threads -> Seq(Tasks)]
        BY <2>1, TypedStep DEF Claim, Pcs, FlushPcs
    <2>3. /\ cur' \in [Tasks -> Objects \cup {None}] /\ cur'[t] = o
          /\ \A u \in Tasks \ {t} : cur'[u] = cur[u] /\ pc'[u] = pc[u]
          /\ pc'[t] = "pop"
        BY <1>1, <2>1, <2>2 DEF Typed
    <2>4. flag' \in [Threads -> [Kinds -> BOOLEAN]]
        BY <2>1 DEF Typed
    <2>5. Typed'
        BY <1>1, <1>2, <2>1, <2>2, <2>3, <2>4 DEF Typed, FlushPcs
    <2>6. /\ \A u \in Tasks : Elected(u)' => Elected(u) /\ u # t
          /\ \A u \in Tasks : Flushing(u)' => u = t \/ (Flushing(u) /\ cur'[u] = cur[u])
        BY <1>2, <2>3 DEF Elected, Flushing
    <2> HIDE DEF o, k, n
    <2>7. BusyInv'
        BY <1>2, <1>4, <2>1, <2>3, <2>6 DEF Roles, BusyInv, Places
    <2>8. CallsInv'
        BY <1>2, <1>4, <2>3, <2>6 DEF Roles, CallsInv
    <2>9. ListsInv'
        BY <1>2, <1>4, <2>1, <2>3, <2>6 DEF Roles, ListsInv, Places
    <2> QED BY <2>5, <2>7, <2>8, <2>9 DEF Roles
  <1> QED BY <1>5, <1>6

(* The consumer lowers the counter: the role ends with the last task, and  *)
(* while it lasts the counter of the object stays above zero.              *)
LEMMA DecrementStep ==
    ASSUME Typed, Roles, NEW th \in Threads, NEW t \in Tasks, Decrement(th, t)
    PROVE  Typed' /\ Roles'
  <1> DEFINE o == cur[t]
  <1>1. PICK m \in {"pop", "flushed"} : Goto(t, m) /\ (m = "pop" => count[o] # 1)
      BY DEF Decrement
  <1>2. m \in Pcs /\ m # "new"
      BY DEF Pcs, FlushPcs
  <1>3. /\ pc' = [pc EXCEPT ![t] = m] /\ pc' \in [Tasks -> Pcs]
        /\ stack' \in [Threads -> Seq(Tasks)] /\ o \in Objects /\ pc[t] = "decrement"
        /\ target[t] \in Objects
      BY <1>1, <1>2, TypedStep DEF Decrement, At, FlushPcs
  <1>4. UNCHANGED <<queue, flag, pending, target, won, cur>>
      BY DEF Decrement, threadVars
  (* Nobody else has the role.                                             *)
  <1>5. /\ count[o] > 0
        /\ \A u \in Tasks : Elected(u) => target[u] # o
        /\ \A u \in Tasks \ {t} : Flushing(u) => cur[u] # o
        /\ \A x \in Threads, k \in Kinds : \A i \in Places(x, k) : pending[x][k][i] # o
    <2>1. Flushing(t)
        BY <1>3 DEF Flushing
    <2> QED BY <2>1 DEF Roles, BusyInv, CallsInv, ListsInv
  <1>6. /\ count' \in [Objects -> Nat]
        /\ \A p \in Objects \ {o} : count'[p] = count[p]
        /\ m = "pop" => count'[o] > 0
    <2>1. count \in [Objects -> Nat] /\ count' = [count EXCEPT ![o] = @ - 1]
        BY DEF Decrement, Typed
    <2>2. count[o] \in Nat
        BY <1>3, <2>1
    <2> HIDE DEF o
    <2> QED BY <1>1, <1>3, <1>5, <2>1, <2>2
  <1>7. Typed'
      BY <1>2, <1>3, <1>4, <1>6 DEF Typed, FlushPcs
  <1>8. /\ \A u \in Tasks : Elected(u)' => Elected(u) /\ target[u] \in Objects
        /\ \A u \in Tasks : Flushing(u)' => Flushing(u) /\ cur[u] \in Objects
        /\ Flushing(t)' => m = "pop"
        /\ \A x \in Threads, k \in Kinds : \A i \in Places(x, k) : pending[x][k][i] \in Objects
    <2>1. pc'[t] = m /\ \A u \in Tasks \ {t} : pc'[u] = pc[u]
        BY <1>3 DEF Typed
    <2>2. \A u \in Tasks : Elected(u)' => Elected(u)
        BY <1>4, <2>1 DEF Elected
    <2>3. \A u \in Tasks : Flushing(u)' => Flushing(u)
        BY <1>3, <2>1 DEF Flushing
    <2>4. \A u \in Tasks : Elected(u) => target[u] \in Objects
        BY DEF Elected, Typed
    <2>5. \A u \in Tasks : Flushing(u) => cur[u] \in Objects
        BY DEF Flushing, FlushPcs, Typed
    <2>6. Flushing(t)' => m = "pop"
        BY <2>1 DEF Flushing
    <2>7. \A x \in Threads, k \in Kinds : \A i \in Places(x, k) : pending[x][k][i] \in Objects
        BY DEF Typed, Places
    <2> QED BY <2>2, <2>3, <2>4, <2>5, <2>6, <2>7
  <1> HIDE DEF o
  <1>9. BusyInv'
    <2>1. \A u \in Tasks : Elected(u)' => count'[target[u]] > 0
        BY <1>5, <1>6, <1>8 DEF Roles, BusyInv
    <2>2. \A u \in Tasks : Flushing(u)' => count'[cur[u]] > 0
      <3>1. Flushing(t)' => count'[cur[t]] > 0
          BY <1>6, <1>8 DEF o
      <3>2. \A u \in Tasks \ {t} : Flushing(u)' => count'[cur[u]] > 0
          BY <1>5, <1>6, <1>8 DEF Roles, BusyInv
      <3> QED BY <3>1, <3>2
    <2>3. \A x \in Threads, k \in Kinds : \A i \in Places(x, k) : count'[pending[x][k][i]] > 0
        BY <1>5, <1>6, <1>8 DEF Roles, BusyInv
    <2> QED BY <1>4, <2>1, <2>2, <2>3 DEF BusyInv, Places
  <1>10. CallsInv'
      BY <1>4, <1>8 DEF Roles, CallsInv
  <1>11. ListsInv'
      BY <1>4, <1>8 DEF Roles, ListsInv, Places
  <1> QED BY <1>7, <1>9, <1>10, <1>11 DEF Roles

(* The call that has flushed an object takes over the object at the head   *)
(* of its thread's list, with the role, or returns.                        *)
LEMMA EndFlushStep ==
    ASSUME Typed, Roles, NEW th \in Threads, NEW t \in Tasks, EndFlush(th, t)
    PROVE  Typed' /\ Roles'
  <1> DEFINE k == Kind(target[t])
             list == pending[th][k]
             o == Head(list)
  <1>1. pc[t] = "flushed" /\ target[t] \in Objects /\ k \in Kinds /\ list \in Seq(Objects)
    <2>1. pc[t] = "flushed"
        BY DEF EndFlush, At
    <2>2. target[t] \in Objects
        BY <2>1 DEF Typed
    <2>3. k \in Kinds
        BY <2>2, KindAssumption DEF Kind
    <2> HIDE DEF k
    <2> QED BY <2>1, <2>2, <2>3 DEF Typed
  <1>2. UNCHANGED <<count, queue, target>> /\ won' = [won EXCEPT ![t] = FALSE]
      BY DEF EndFlush, objVars
  <1>3. won' \in [Tasks -> BOOLEAN] /\ \A u \in Tasks \ {t} : won'[u] = won[u]
      BY <1>2 DEF Typed
  <1>4. CASE list = <<>>
    <2>1. /\ flag' = [flag EXCEPT ![th][k] = FALSE] /\ Return(th, t, "returnedTrue")
          /\ UNCHANGED <<cur, pending>>
        BY <1>4 DEF EndFlush
    <2>2. /\ pc' = [pc EXCEPT ![t] = "returnedTrue"] /\ pc' \in [Tasks -> Pcs]
          /\ stack' \in [Threads -> Seq(Tasks)]
        BY <2>1, TypedStep DEF EndFlush, Pcs, FlushPcs
    <2>3. flag' \in [Threads -> [Kinds -> BOOLEAN]]
        BY <2>1 DEF Typed
    <2>4. Typed'
        BY <1>1, <1>2, <1>3, <2>1, <2>2, <2>3 DEF Typed, FlushPcs
    <2>5. /\ pc'[t] = "returnedTrue"
          /\ \A u \in Tasks \ {t} : pc'[u] = pc[u]
        BY <2>2 DEF Typed
    <2>6. Quiet
        BY <1>2, <1>3, <2>1, <2>5 DEF Quiet, Elected, Flushing
    <2> QED BY <2>4, <2>6, QuietStep
  <1>5. CASE list # <<>>
    <2>1. /\ cur' = [cur EXCEPT ![t] = o] /\ pending' = [pending EXCEPT ![th][k] = Tail(@)]
          /\ Goto(t, "pop") /\ UNCHANGED flag
        BY <1>5 DEF EndFlush
    <2>2. /\ pc' = [pc EXCEPT ![t] = "pop"] /\ pc' \in [Tasks -> Pcs]
          /\ stack' \in [Threads -> Seq(Tasks)]
        BY <2>1, TypedStep DEF EndFlush, Pcs, FlushPcs
    <2>3. /\ o \in Objects /\ o = list[1] /\ Tail(list) \in Seq(Objects)
          /\ Len(list) \in Nat /\ Len(list) > 0 /\ Len(Tail(list)) = Len(list) - 1
          /\ \A i \in 1 .. Len(Tail(list)) : Tail(list)[i] = list[i + 1] /\ i + 1 \in 1 .. Len(list)
      <3> HIDE DEF list
      <3> QED BY <1>1, <1>5
    <2>4. /\ pending' \in [Threads -> [Kinds -> Seq(Objects)]]
          /\ pending'[th][k] = Tail(list)
          /\ \A x \in Threads, j \in Kinds :
                x # th \/ j # k => pending'[x][j] = pending[x][j]
      <3>1. pending \in [Threads -> [Kinds -> Seq(Objects)]]
          BY DEF Typed
      <3>2. pending' = [pending EXCEPT ![th][k] = Tail(list)]
          BY <2>1
      <3> HIDE DEF k, list
      <3> QED BY <1>1, <2>3, <3>1, <3>2
    <2>5. /\ cur' \in [Tasks -> Objects \cup {None}] /\ cur'[t] = o
          /\ \A u \in Tasks \ {t} : cur'[u] = cur[u] /\ pc'[u] = pc[u]
          /\ pc'[t] = "pop"
      <3> HIDE DEF o
      <3> QED BY <2>1, <2>2, <2>3 DEF Typed
    <2>6. Typed'
      <3> HIDE DEF o, k, list
      <3> QED BY <1>1, <1>2, <1>3, <2>1, <2>2, <2>3, <2>4, <2>5 DEF Typed, FlushPcs
    <2>7. /\ \A u \in Tasks : Elected(u)' => Elected(u)
          /\ \A u \in Tasks : Flushing(u)' => u = t \/ (Flushing(u) /\ cur'[u] = cur[u])
        BY <1>2, <1>3, <2>5 DEF Elected, Flushing
    <2>8. \A x \in Threads, j \in Kinds : \A i \in Places(x, j)' :
             \/ /\ x = th /\ j = k /\ i + 1 \in Places(th, k)
                /\ pending'[x][j][i] = pending[th][k][i + 1]
             \/ (x # th \/ j # k) /\ i \in Places(x, j) /\ pending'[x][j][i] = pending[x][j][i]
      <3> SUFFICES ASSUME NEW x \in Threads, NEW j \in Kinds, NEW i \in Places(x, j)'
                   PROVE  \/ /\ x = th /\ j = k /\ i + 1 \in Places(th, k)
                             /\ pending'[x][j][i] = pending[th][k][i + 1]
                          \/ /\ x # th \/ j # k
                             /\ i \in Places(x, j) /\ pending'[x][j][i] = pending[x][j][i]
          OBVIOUS
      <3>1. CASE x # th \/ j # k
          BY <2>4, <3>1 DEF Places
      <3>2. CASE x = th /\ j = k
        <4>1. i \in 1 .. Len(Tail(list))
            BY <2>4, <3>2 DEF Places
        <4>2. Tail(list)[i] = list[i + 1] /\ i + 1 \in 1 .. Len(list)
            BY <2>3, <4>1
        <4> QED BY <2>4, <3>2, <4>2 DEF Places
      <3> QED BY <3>1, <3>2
    <2>9. 1 \in Places(th, k) /\ pending[th][k][1] = o
        BY <2>3 DEF Places
    <2>10. \A x \in Threads, j \in Kinds : \A i \in Places(x, j)' : i \in Int /\ i > 0
      <3>1. \A x \in Threads, j \in Kinds : Places(x, j)' = 1 .. Len(pending'[x][j])
          BY DEF Places
      <3>2. \A x \in Threads, j \in Kinds : Len(pending'[x][j]) \in Nat
          BY <2>4
      <3> QED BY <3>1, <3>2
    <2> HIDE DEF o, k, list
    (* Nobody else has the role of the head of the list.                   *)
    <2>11. /\ count[o] > 0
           /\ \A u \in Tasks : Elected(u) => target[u] # o
           /\ \A u \in Tasks : Flushing(u) => cur[u] # o
           /\ \A x \in Threads, j \in Kinds : \A i \in Places(x, j) :
                 pending[x][j][i] = o => x = th /\ j = k /\ i = 1
        BY <1>1, <2>9 DEF Roles, BusyInv, ListsInv
    <2>12. \A x \in Threads, j \in Kinds : \A i \in Places(x, j)' : pending'[x][j][i] # o
        BY <1>1, <2>8, <2>10, <2>11
    <2>13. BusyInv'
      <3>1. \A u \in Tasks : Elected(u)' => count'[target'[u]] > 0
          BY <1>2, <2>7 DEF Roles, BusyInv
      <3>2. \A u \in Tasks : Flushing(u)' => count'[cur'[u]] > 0
          BY <1>2, <2>5, <2>7, <2>11 DEF Roles, BusyInv
      <3>3. \A x \in Threads, j \in Kinds : \A i \in Places(x, j)' : count'[pending'[x][j][i]] > 0
          BY <1>1, <1>2, <2>8 DEF Roles, BusyInv
      <3> QED BY <3>1, <3>2, <3>3 DEF BusyInv
    <2>14. CallsInv'
        BY <1>2, <2>5, <2>7, <2>11 DEF Roles, CallsInv
    <2>15. ListsInv'
      <3>1. \A x \in Threads, j \in Kinds : \A i \in Places(x, j)' : \A u \in Tasks :
               /\ Elected(u)' => target'[u] # pending'[x][j][i]
               /\ Flushing(u)' => cur'[u] # pending'[x][j][i]
        <4> SUFFICES ASSUME NEW x \in Threads, NEW j \in Kinds, NEW i \in Places(x, j)', NEW u \in Tasks
                     PROVE  /\ Elected(u)' => target[u] # pending'[x][j][i]
                            /\ Flushing(u)' => cur'[u] # pending'[x][j][i]
            BY <1>2
        <4>1. CASE u = t
            BY <4>1, <1>1, <2>5, <2>12 DEF Elected
        <4>2. CASE u # t
          <5>1. \E y \in Threads, l \in Kinds : \E n \in Places(y, l) :
                    pending'[x][j][i] = pending[y][l][n]
              BY <1>1, <2>8
          <5> QED BY <4>2, <5>1, <2>7 DEF Roles, ListsInv
        <4> QED BY <4>1, <4>2
      <3>2. \A x1, x2 \in Threads, j1, j2 \in Kinds :
              \A i1 \in Places(x1, j1)', i2 \in Places(x2, j2)' :
                 pending'[x1][j1][i1] = pending'[x2][j2][i2] => x1 = x2 /\ j1 = j2 /\ i1 = i2
        <4> SUFFICES ASSUME NEW x1 \in Threads, NEW x2 \in Threads, NEW j1 \in Kinds, NEW j2 \in Kinds,
                            NEW i1 \in Places(x1, j1)', NEW i2 \in Places(x2, j2)',
                            pending'[x1][j1][i1] = pending'[x2][j2][i2]
                     PROVE  x1 = x2 /\ j1 = j2 /\ i1 = i2
            OBVIOUS
        <4>1. i1 \in Int /\ i2 \in Int
            BY <2>10
        <4> QED BY <4>1, <1>1, <2>8 DEF Roles, ListsInv
      <3> QED BY <3>1, <3>2 DEF ListsInv
    <2> QED BY <2>6, <2>13, <2>14, <2>15 DEF Roles
  <1> QED BY <1>4, <1>5

LEMMA RolesStep == ConsumerInv /\ [Next]_vars => ConsumerInv'
  <1> SUFFICES ASSUME Typed, Roles, [Next]_vars PROVE Typed' /\ Roles'
      BY DEF ConsumerInv, Roles
  <1>1. ASSUME NEW th \in Threads, NEW t \in Tasks, Step(th, t)
        PROVE  Typed' /\ Roles'
      BY <1>1, QuietStep, IncrementStep, PushSwapStep, PushLinkStep, ClaimStep, PopStep,
         FinishTaskStep, DecrementStep, EndFlushStep DEF Step
  <1>2. ASSUME NEW th \in Threads, NEW t \in Tasks, NEW o \in Objects,
               DoAsync(th, t, o) \/ DoAsyncAfter(th, t, o)
        PROVE  Typed' /\ Roles'
      BY <1>2, QuietStep, DoAsyncStep, DoAsyncAfterStep
  <1>3. ASSUME NEW th \in Threads, NEW t \in Tasks, DispatchDelayed(th, t)
        PROVE  Typed' /\ Roles'
      BY <1>3, QuietStep, DispatchDelayedStep
  <1>4. ASSUME NEW o \in Objects, Disown(o)
        PROVE  Typed' /\ Roles'
      BY <1>4, QuietStep, DisownStep
  <1>5. CASE UNCHANGED vars
    <2>1. Typed'
        BY <1>5 DEF vars, Typed, objVars, threadVars
    <2>2. Quiet
        BY <1>5 DEF vars, Quiet, Elected, Flushing, objVars, threadVars
    <2> QED BY <2>1, <2>2, QuietStep
  <1> QED BY <1>1, <1>2, <1>3, <1>4, <1>5 DEF Next

(* The role of an object's consumer is held at most once, in every         *)
(* execution: the invariant behind the election by RemainingTasksCount.    *)
THEOREM ConsumerRole == Spec => []ConsumerInv
  <1> QED BY InitRoles, RolesStep, PTL DEF Spec

(* Two calls of Dispatch never flush one object at the same time, whatever *)
(* the numbers of threads, objects and tasks: the AOD guarantee.           *)
THEOREM SingleConsumer == Spec => []OneConsumer
  <1>1. ConsumerInv => OneConsumer
      BY DEF ConsumerInv, CallsInv, OneConsumer, Flushing
  <1> QED BY <1>1, ConsumerRole, PTL

-----------------------------------------------------------------------------
Items(s)    == {s[i] : i \in 1 .. Len(s)}
Distinct(s) == \A i, j \in 1 .. Len(s) : s[i] = s[j] => i = j

FreshPcs  == {"new", "delayed", "increment", "swap"}
ActivePcs == FlushPcs \cup {"increment", "swap", "link", "claim"}

(* A task is in its object's queue from the swap until it is popped; then  *)
(* it runs, in the call that popped it; then it is done.                   *)
LinesInv ==
    /\ DOMAIN run = Tasks
    /\ \A o \in Objects : Distinct(queue[o])
    /\ \A o \in Objects : \A t \in Items(queue[o]) :
          t \in Tasks /\ target[t] = o /\ pc[t] \notin FreshPcs /\ t \notin done
    /\ \A t \in Tasks : pc[t] \in {"link", "claim"} => t \in Items(queue[target[t]])
    /\ \A t \in Tasks : pc[t] = "run" =>
          /\ run[t] \in Tasks /\ run[t] \notin done
          /\ target[run[t]] = cur[t] /\ pc[run[t]] \notin FreshPcs
          /\ run[t] \notin Items(queue[cur[t]])
    /\ done \subseteq {t \in Tasks : pc[t] \notin FreshPcs}

(* The calls on the stacks are those that are under way; a flag is set by  *)
(* a call that flushes, and objects wait only in such a call's list.       *)
StackInv ==
    /\ \A th \in Threads : Distinct(stack[th])
    /\ \A th \in Threads : \A t \in Items(stack[th]) : t \in Tasks /\ pc[t] \in ActivePcs
    /\ \A x, y \in Threads : x # y => Items(stack[x]) \cap Items(stack[y]) = {}
    /\ \A t \in Tasks : pc[t] \in ActivePcs => \E th \in Threads : t \in Items(stack[th])

FlagInv ==
    /\ \A th \in Threads, k \in Kinds : flag[th][k] =>
          \E t \in Items(stack[th]) : pc[t] \in FlushPcs /\ Kind(target[t]) = k
    /\ \A th \in Threads, k \in Kinds : pending[th][k] # <<>> => flag[th][k]

One(b) == IF b THEN 1 ELSE 0

(* The counter counts the tasks from their increment to the decrement that *)
(* follows their run.                                                      *)
Waiting(o)  == {t \in Tasks : target[t] = o /\ pc[t] \notin {"new", "delayed", "increment"}
                              /\ t \notin done}
Finished(o) == \E t \in Tasks : pc[t] = "decrement" /\ cur[t] = o
Listed(o)   == \E th \in Threads, k \in Kinds : \E i \in Places(th, k) : pending[th][k][i] = o

CountInv ==
    \A o \in Objects :
        /\ count[o] = Cardinality(Waiting(o)) + One(Finished(o))
        /\ count[o] > 0 => \/ Listed(o)
                           \/ \E t \in Tasks : Elected(t) /\ target[t] = o
                           \/ \E t \in Tasks : Flushing(t) /\ cur[t] = o

(* References: one for each task that has not run, one for each call that  *)
(* flushes, of its own object, another of the pending object it flushes,   *)
(* one for the place in a list and one for the owner.                      *)
Issued      == {t \in Tasks : pc[t] # "new"}
TasksOf(o)  == {t \in Issued : target[t] = o /\ t \notin done}
CallsOf(o)  == {t \in Issued : pc[t] \in FlushPcs /\ target[t] = o}
GuestsOf(o) == {t \in Issued : pc[t] \in FlushPcs /\ ~won[t] /\ cur[t] = o}
RefsOf(o)   == Cardinality(TasksOf(o)) + Cardinality(CallsOf(o)) + Cardinality(GuestsOf(o))
               + One(owned[o]) + One(Listed(o))

RefsExact ==
    /\ refs \in [Objects -> Int] /\ owned \in [Objects -> BOOLEAN]
    /\ IsFiniteSet(Issued)
    /\ \A o \in Objects : refs[o] = IF Counted(o) THEN RefsOf(o) ELSE 1
    /\ \A t \in Tasks : pc[t] \in FlushPcs /\ won[t] => cur[t] = target[t]
    /\ \A t \in Tasks : pc[t] = "claim" => won[t]

LifeInv == LinesInv /\ StackInv /\ FlagInv /\ CountInv /\ RefsExact

-----------------------------------------------------------------------------
(* A queue gains its last item, a stack gains or loses its first.          *)
LEMMA AppendItems ==
    ASSUME NEW S, NEW s \in Seq(S), NEW x \in S
    PROVE  /\ Items(Append(s, x)) = Items(s) \cup {x}
           /\ Distinct(s) /\ x \notin Items(s) => Distinct(Append(s, x))
  <1> DEFINE r == Append(s, x)
  <1>1. /\ Len(s) \in Nat /\ Len(r) = Len(s) + 1 /\ r[Len(s) + 1] = x
        /\ \A i \in 1 .. Len(s) : r[i] = s[i]
      OBVIOUS
  <1> HIDE DEF r
  <1>2. 1 .. Len(r) = (1 .. Len(s)) \cup {Len(s) + 1}
      BY <1>1
  <1>3. Items(r) = Items(s) \cup {x}
      BY <1>1, <1>2 DEF Items
  <1>4. ASSUME Distinct(s), x \notin Items(s) PROVE Distinct(r)
    <2> SUFFICES ASSUME NEW i \in 1 .. Len(r), NEW j \in 1 .. Len(r), r[i] = r[j]
                 PROVE  i = j
        BY DEF Distinct
    <2>1. \A n \in 1 .. Len(s) : s[n] # x
        BY <1>4 DEF Items
    <2> QED BY <1>1, <1>2, <1>4, <2>1 DEF Distinct
  <1> QED BY <1>3, <1>4 DEF r

LEMMA ConsItems ==
    ASSUME NEW S, NEW s \in Seq(S), NEW x \in S
    PROVE  /\ Items(<<x>> \o s) = Items(s) \cup {x}
           /\ Distinct(s) /\ x \notin Items(s) => Distinct(<<x>> \o s)
  <1> DEFINE r == <<x>> \o s
  <1>1. /\ Len(s) \in Nat /\ Len(r) = Len(s) + 1 /\ r[1] = x
        /\ \A i \in 1 .. Len(s) : r[i + 1] = s[i]
        /\ \A i \in 2 .. Len(r) : r[i] = s[i - 1] /\ i - 1 \in 1 .. Len(s)
      OBVIOUS
  <1> HIDE DEF r
  <1>2. 1 .. Len(r) = {1} \cup 2 .. Len(r) /\ \A i \in 1 .. Len(s) : i + 1 \in 1 .. Len(r)
      BY <1>1
  <1>3. Items(r) = Items(s) \cup {x}
    <2>1. \A y \in Items(r) : y \in Items(s) \cup {x}
        BY <1>1, <1>2 DEF Items
    <2>2. x \in Items(r) /\ \A y \in Items(s) : y \in Items(r)
        BY <1>1, <1>2 DEF Items
    <2> QED BY <2>1, <2>2
  <1>4. ASSUME Distinct(s), x \notin Items(s) PROVE Distinct(r)
    <2> SUFFICES ASSUME NEW i \in 1 .. Len(r), NEW j \in 1 .. Len(r), r[i] = r[j]
                 PROVE  i = j
        BY DEF Distinct
    <2>1. \A n \in 1 .. Len(s) : s[n] # x
        BY <1>4 DEF Items
    <2>2. i \in 2 .. Len(r) /\ j \in 2 .. Len(r) => i - 1 = j - 1
        BY SMTT(30), <1>1, <1>4 DEF Distinct
    <2> QED BY <1>1, <1>2, <2>1, <2>2
  <1> QED BY <1>3, <1>4 DEF r

LEMMA TailItems ==
    ASSUME NEW S, NEW s \in Seq(S), s # <<>>
    PROVE  /\ Items(s) = Items(Tail(s)) \cup {Head(s)}
           /\ Distinct(s) => Head(s) \notin Items(Tail(s)) /\ Distinct(Tail(s))
  <1> DEFINE r == Tail(s)
             x == Head(s)
  <1>1. /\ Len(s) \in Nat /\ Len(s) > 0 /\ Len(r) = Len(s) - 1 /\ s[1] = x
        /\ \A i \in 1 .. Len(r) : r[i] = s[i + 1] /\ i + 1 \in 2 .. Len(s)
        /\ \A i \in 2 .. Len(s) : s[i] = r[i - 1] /\ i - 1 \in 1 .. Len(r)
      OBVIOUS
  <1> HIDE DEF r, x
  <1>2. 1 .. Len(s) = {1} \cup 2 .. Len(s)
      BY <1>1
  <1>3. Items(s) = Items(r) \cup {x}
    <2>1. \A y \in Items(s) : y \in Items(r) \cup {x}
        BY <1>1, <1>2 DEF Items
    <2>2. x \in Items(s) /\ \A y \in Items(r) : y \in Items(s)
        BY <1>1, <1>2 DEF Items
    <2> QED BY <2>1, <2>2
  <1>4. ASSUME Distinct(s) PROVE x \notin Items(r) /\ Distinct(r)
    <2>1. \A i \in 1 .. Len(r) : r[i] # x
        BY <1>1, <1>2, <1>4 DEF Distinct
    <2>2. \A i, j \in 1 .. Len(r) : r[i] = r[j] => i + 1 = j + 1
        BY <1>1, <1>2, <1>4 DEF Distinct
    <2>3. \A i \in 1 .. Len(r) : i \in Int
        BY <1>1
    <2> QED BY <2>1, <2>2, <2>3 DEF Items, Distinct
  <1> QED BY <1>3, <1>4 DEF r, x

LEMMA EmptyItems == Items(<<>>) = {} /\ Distinct(<<>>)
  <1> QED BY DEF Items, Distinct

(***************************************************************************)
(* The stacks: a step of a call stays in it, enters a call or returns.     *)
(***************************************************************************)
LEMMA StackStay ==
    ASSUME StackInv, stack' = stack,
           \A u \in Tasks : pc'[u] \in ActivePcs <=> pc[u] \in ActivePcs
    PROVE  StackInv'
  <1> QED BY DEF StackInv

LEMMA StackEnter ==
    ASSUME Typed, StackInv, NEW th \in Threads, NEW t \in Tasks, pc[t] \notin ActivePcs,
           stack' = [stack EXCEPT ![th] = <<t>> \o @],
           pc'[t] \in ActivePcs, \A u \in Tasks \ {t} : pc'[u] = pc[u]
    PROVE  /\ StackInv'
           /\ \A x \in Threads : Items(stack[x]) \subseteq Items(stack'[x])
  <1>1. /\ stack[th] \in Seq(Tasks) /\ stack'[th] = <<t>> \o stack[th]
        /\ \A x \in Threads \ {th} : stack'[x] = stack[x]
      BY DEF Typed
  <1>2. \A x \in Threads : t \notin Items(stack[x])
      BY DEF StackInv
  <1>3. /\ Items(stack'[th]) = Items(stack[th]) \cup {t} /\ Distinct(stack'[th])
        /\ \A x \in Threads \ {th} : Items(stack'[x]) = Items(stack[x]) /\ Distinct(stack'[x])
      BY <1>1, <1>2, ConsItems DEF StackInv
  <1>4. \A x \in Threads : \A u \in Items(stack'[x]) : u \in Tasks /\ pc'[u] \in ActivePcs
      BY <1>3 DEF StackInv
  <1>5. \A x, y \in Threads : x # y => Items(stack'[x]) \cap Items(stack'[y]) = {}
    <2> SUFFICES ASSUME NEW x \in Threads, NEW y \in Threads, x # y
                 PROVE  Items(stack'[x]) \cap Items(stack'[y]) = {}
        OBVIOUS
    <2>1. Items(stack[x]) \cap Items(stack[y]) = {}
        BY DEF StackInv
    <2> QED BY <1>2, <1>3, <2>1
  <1>6. \A u \in Tasks : pc'[u] \in ActivePcs => \E x \in Threads : u \in Items(stack'[x])
      BY <1>3 DEF StackInv
  <1>7. \A x \in Threads : Distinct(stack'[x])
      BY <1>3
  <1>8. StackInv'
    <2> QED BY <1>4, <1>5, <1>6, <1>7 DEF StackInv
  <1> QED BY <1>3, <1>8

LEMMA StackReturn ==
    ASSUME Typed, StackInv, NEW th \in Threads, NEW t \in Tasks, stack[th] # <<>>,
           t = Head(stack[th]), stack' = [stack EXCEPT ![th] = Tail(@)],
           pc'[t] \notin ActivePcs, \A u \in Tasks \ {t} : pc'[u] = pc[u]
    PROVE  /\ StackInv'
           /\ \A x \in Threads : Items(stack'[x]) = Items(stack[x]) \ {t}
  <1>1. /\ stack[th] \in Seq(Tasks) /\ stack'[th] = Tail(stack[th])
        /\ \A x \in Threads \ {th} : stack'[x] = stack[x]
      BY DEF Typed
  <1>2. Distinct(stack[th])
      BY DEF StackInv
  <1>3. /\ t \in Items(stack[th]) /\ Items(stack'[th]) = Items(stack[th]) \ {t}
        /\ Distinct(stack'[th])
      BY <1>1, <1>2, TailItems
  <1>4. \A x \in Threads \ {th} : t \notin Items(stack[x])
      BY <1>3 DEF StackInv
  <1>5. \A x \in Threads : Items(stack'[x]) = Items(stack[x]) \ {t}
      BY <1>1, <1>3, <1>4
  <1>6. \A x \in Threads : Distinct(stack'[x])
      BY <1>1, <1>3 DEF StackInv
  <1>7. \A x \in Threads : \A u \in Items(stack'[x]) : u \in Tasks /\ pc'[u] \in ActivePcs
    <2> SUFFICES ASSUME NEW x \in Threads, NEW u \in Items(stack'[x])
                 PROVE  u \in Tasks /\ pc'[u] \in ActivePcs
        OBVIOUS
    <2>1. u \in Items(stack[x]) /\ u # t
        BY <1>5
    <2>2. u \in Tasks /\ pc[u] \in ActivePcs
        BY <2>1 DEF StackInv
    <2> QED BY <2>1, <2>2
  <1>8. \A x, y \in Threads : x # y => Items(stack'[x]) \cap Items(stack'[y]) = {}
    <2> SUFFICES ASSUME NEW x \in Threads, NEW y \in Threads, x # y
                 PROVE  Items(stack'[x]) \cap Items(stack'[y]) = {}
        OBVIOUS
    <2>1. Items(stack[x]) \cap Items(stack[y]) = {}
        BY DEF StackInv
    <2> QED BY <1>5, <2>1
  <1>9. \A u \in Tasks : pc'[u] \in ActivePcs => \E x \in Threads : u \in Items(stack'[x])
    <2> SUFFICES ASSUME NEW u \in Tasks, pc'[u] \in ActivePcs
                 PROVE  \E x \in Threads : u \in Items(stack'[x])
        OBVIOUS
    <2>1. u # t /\ pc[u] \in ActivePcs
        OBVIOUS
    <2>2. PICK x \in Threads : u \in Items(stack[x])
        BY <2>1 DEF StackInv
    <2> QED BY <1>5, <2>1, <2>2
  <1>10. StackInv'
      BY <1>6, <1>7, <1>8, <1>9 DEF StackInv
  <1> QED BY <1>5, <1>10

(* Flags stay, and so do the calls that flush.                             *)
LEMMA FlagsHeld ==
    ASSUME FlagInv, flag' = flag,
           \A x \in Threads, k \in Kinds : pending'[x][k] # <<>> => flag[x][k],
           \A x \in Threads : \A u \in Items(stack[x]) :
              pc[u] \in FlushPcs => /\ u \in Items(stack'[x]) /\ pc'[u] \in FlushPcs
                                    /\ target'[u] = target[u]
    PROVE  FlagInv'
  <1>1. \A x \in Threads, k \in Kinds : flag'[x][k] =>
           \E u \in Items(stack'[x]) : pc'[u] \in FlushPcs /\ Kind(target'[u]) = k
      BY DEF FlagInv
  <1> QED BY <1>1 DEF FlagInv, Kind

LEMMA FlagsStay ==
    ASSUME FlagInv, flag' = flag, pending' = pending,
           \A x \in Threads : \A u \in Items(stack[x]) :
              pc[u] \in FlushPcs => /\ u \in Items(stack'[x]) /\ pc'[u] \in FlushPcs
                                    /\ target'[u] = target[u]
    PROVE  FlagInv'
  <1>1. \A x \in Threads, k \in Kinds : pending'[x][k] # <<>> => flag[x][k]
      BY DEF FlagInv
  <1> QED BY <1>1, FlagsHeld

(***************************************************************************)
(* Steps that leave the counters, or the references, alone.                *)
(***************************************************************************)
LEMMA CountsStay ==
    ASSUME CountInv, count' = count, pending' = pending,
           \A o \in Objects : Waiting(o)' = Waiting(o) /\ (Finished(o)' <=> Finished(o)),
           \A t \in Tasks : Elected(t) => Elected(t)' /\ target'[t] = target[t],
           \A t \in Tasks : Flushing(t) => Flushing(t)' /\ cur'[t] = cur[t]
    PROVE  CountInv'
  <1> SUFFICES ASSUME NEW o \in Objects
               PROVE  /\ count'[o] = Cardinality(Waiting(o)') + One(Finished(o)')
                      /\ count'[o] > 0 => \/ Listed(o)'
                                          \/ \E t \in Tasks : Elected(t)' /\ target'[t] = o
                                          \/ \E t \in Tasks : Flushing(t)' /\ cur'[t] = o
      BY DEF CountInv
  <1>1. count'[o] = Cardinality(Waiting(o)') + One(Finished(o)')
      BY DEF CountInv, One
  <1>2. Listed(o)' = Listed(o)
      BY DEF Listed, Places
  <1> QED BY <1>1, <1>2 DEF CountInv

LEMMA RefsStay ==
    ASSUME RefsExact, refs' = refs, owned' = owned, Issued' = Issued,
           \A o \in Objects : /\ TasksOf(o)' = TasksOf(o) /\ CallsOf(o)' = CallsOf(o)
                              /\ GuestsOf(o)' = GuestsOf(o) /\ (Listed(o)' <=> Listed(o)),
           \A t \in Tasks : pc'[t] \in FlushPcs /\ won'[t] => cur'[t] = target'[t],
           \A t \in Tasks : pc'[t] = "claim" => won'[t]
    PROVE  RefsExact'
  <1>1. \A o \in Objects : RefsOf(o)' = RefsOf(o)
      BY DEF RefsOf, One
  <1> QED BY <1>1 DEF RefsExact, Counted, Kind

LEMMA Finite ==
    ASSUME IsFiniteSet(Issued), NEW o
    PROVE  /\ IsFiniteSet(TasksOf(o)) /\ Cardinality(TasksOf(o)) \in Nat
           /\ IsFiniteSet(CallsOf(o)) /\ Cardinality(CallsOf(o)) \in Nat
           /\ IsFiniteSet(GuestsOf(o)) /\ Cardinality(GuestsOf(o)) \in Nat
           /\ IsFiniteSet(Waiting(o)) /\ Cardinality(Waiting(o)) \in Nat
  <1>1. TasksOf(o) \subseteq Issued /\ CallsOf(o) \subseteq Issued /\ GuestsOf(o) \subseteq Issued
      BY DEF TasksOf, CallsOf, GuestsOf
  <1>2. Waiting(o) \subseteq Issued
      BY DEF Waiting, Issued
  <1> QED BY <1>1, <1>2, FS_Subset, FS_CardinalityType

(* A task that is issued is in nobody's way: it was in no queue, no call   *)
(* and no count, and it brings a reference with it.                        *)
LEMMA IssueStep ==
    ASSUME Typed, LifeInv, NEW t \in Tasks, NEW o \in Objects, NEW l \in {"delayed", "increment"},
           pc[t] = "new", pc' = [pc EXCEPT ![t] = l],
           target' = [target EXCEPT ![t] = o], refs' = AddRef(refs, o),
           UNCHANGED <<objVars, owned, threadVars, won, cur, run, done>>
    PROVE  LinesInv' /\ CountInv' /\ RefsExact'
  <1>1. /\ pc'[t] = l /\ \A u \in Tasks \ {t} : pc'[u] = pc[u]
        /\ target'[t] = o /\ \A u \in Tasks \ {t} : target'[u] = target[u]
        /\ l \notin FlushPcs /\ l \in FreshPcs /\ "new" \in FreshPcs
        /\ l \notin {"link", "claim", "run", "decrement", "swap", "new"}
      BY DEF Typed, FlushPcs, FreshPcs
  <1>2. UNCHANGED <<count, queue, owned, flag, pending, won, cur, run, done>>
      BY DEF objVars, threadVars
  <1>3. /\ t \notin done
        /\ \A p \in Objects : t \notin Items(queue[p])
        /\ \A u \in Tasks : pc[u] = "run" => run[u] # t
      BY <1>1 DEF LifeInv, LinesInv
  <1>4. LinesInv'
      BY <1>1, <1>2, <1>3 DEF LifeInv, LinesInv
  <1>5. CountInv'
    <2>1. \A p \in Objects : Waiting(p)' = Waiting(p) /\ (Finished(p)' <=> Finished(p))
        BY <1>1, <1>2 DEF Waiting, Finished
    <2>2. \A u \in Tasks : Elected(u) => Elected(u)' /\ target'[u] = target[u]
        BY <1>1, <1>2 DEF Elected
    <2>3. \A u \in Tasks : Flushing(u) => Flushing(u)' /\ cur'[u] = cur[u]
        BY <1>1, <1>2 DEF Flushing
    <2> QED BY <1>2, <2>1, <2>2, <2>3, CountsStay DEF LifeInv
  <1>6. RefsExact'
    <2>1. t \notin Issued /\ Issued' = Issued \cup {t} /\ IsFiniteSet(Issued)
        BY <1>1 DEF Issued, LifeInv, RefsExact
    <2>2. IsFiniteSet(Issued')
        BY <2>1, FS_AddElement
    <2>3. /\ TasksOf(o)' = TasksOf(o) \cup {t} /\ t \notin TasksOf(o)
          /\ \A p \in Objects \ {o} : TasksOf(p)' = TasksOf(p)
        BY <1>1, <1>2, <1>3, <2>1 DEF TasksOf
    <2>4. \A p \in Objects : /\ CallsOf(p)' = CallsOf(p) /\ GuestsOf(p)' = GuestsOf(p)
                             /\ (Listed(p)' <=> Listed(p))
        BY <1>1, <1>2, <2>1 DEF CallsOf, GuestsOf, Listed, Places
    <2>5. Cardinality(TasksOf(o)') = Cardinality(TasksOf(o)) + 1
        BY <2>1, <2>3, Finite, FS_AddElement
    <2>6. RefsOf(o)' = RefsOf(o) + 1 /\ \A p \in Objects \ {o} : RefsOf(p)' = RefsOf(p)
      <3>1. \A p \in Objects \ {o} : RefsOf(p)' = RefsOf(p)
          BY <1>2, <2>3, <2>4 DEF RefsOf, One
      <3>2. RefsOf(o)' = RefsOf(o) + 1
        <4>1. /\ Cardinality(TasksOf(o)) \in Nat /\ Cardinality(CallsOf(o)) \in Nat
              /\ Cardinality(GuestsOf(o)) \in Nat
            BY <2>1, Finite
        <4>2. One(owned[o])' = One(owned[o]) /\ One(Listed(o))' = One(Listed(o))
              /\ One(owned[o]) \in Nat /\ One(Listed(o)) \in Nat
            BY <1>2, <2>4 DEF One
        <4>3. Cardinality(CallsOf(o))' = Cardinality(CallsOf(o))
              /\ Cardinality(GuestsOf(o))' = Cardinality(GuestsOf(o))
            BY <2>4
        <4> QED BY <2>5, <4>1, <4>2, <4>3 DEF RefsOf
      <3> QED BY <3>1, <3>2
    <2>7. /\ refs' \in [Objects -> Int]
          /\ refs'[o] = IF Counted(o) THEN refs[o] + 1 ELSE refs[o]
          /\ \A p \in Objects \ {o} : refs'[p] = refs[p]
        BY DEF AddRef, LifeInv, RefsExact
    <2>8. \A p \in Objects : refs'[p] = IF Counted(p) THEN RefsOf(p)' ELSE 1
        BY <2>6, <2>7 DEF LifeInv, RefsExact
    <2>9. /\ \A u \in Tasks : pc'[u] \in FlushPcs /\ won'[u] => cur'[u] = target'[u]
          /\ \A u \in Tasks : pc'[u] = "claim" => won'[u]
          /\ owned' \in [Objects -> BOOLEAN]
        BY <1>1, <1>2 DEF LifeInv, RefsExact
    <2> QED BY <2>2, <2>7, <2>8, <2>9 DEF RefsExact, Counted, Kind
  <1> QED BY <1>4, <1>5, <1>6

LEMMA DoAsyncLife ==
    ASSUME Typed, LifeInv, NEW th \in Threads, NEW t \in Tasks, NEW o \in Objects, DoAsync(th, t, o)
    PROVE  LifeInv'
  <1>1. LinesInv' /\ CountInv' /\ RefsExact'
      BY IssueStep DEF DoAsync
  <1>2. /\ pc[t] = "new" /\ pc'[t] = "increment" /\ target' = [target EXCEPT ![t] = o]
        /\ \A u \in Tasks \ {t} : pc'[u] = pc[u] /\ target'[u] = target[u]
      BY DEF DoAsync, Typed
  <1>3. "increment" \in ActivePcs /\ "new" \notin ActivePcs /\ "new" \notin FlushPcs
      BY DEF ActivePcs, FlushPcs
  <1>4. StackInv' /\ \A x \in Threads : Items(stack[x]) \subseteq Items(stack'[x])
      BY <1>2, <1>3, StackEnter DEF DoAsync, LifeInv
  <1>5. FlagInv'
    <2>1. \A x \in Threads : \A u \in Items(stack[x]) : u \in Tasks
        BY DEF LifeInv, StackInv
    <2> QED BY <1>2, <1>3, <1>4, <2>1, FlagsStay DEF DoAsync, LifeInv, threadVars
  <1> QED BY <1>1, <1>4, <1>5 DEF LifeInv

LEMMA DoAsyncAfterLife ==
    ASSUME Typed, LifeInv, NEW th \in Threads, NEW t \in Tasks, NEW o \in Objects,
           DoAsyncAfter(th, t, o)
    PROVE  LifeInv'
  <1>1. LinesInv' /\ CountInv' /\ RefsExact'
      BY IssueStep DEF DoAsyncAfter
  <1>2. /\ pc[t] = "new" /\ pc'[t] = "delayed" /\ target' = [target EXCEPT ![t] = o]
        /\ \A u \in Tasks \ {t} : pc'[u] = pc[u] /\ target'[u] = target[u]
      BY DEF DoAsyncAfter, Typed
  <1>3. {"delayed", "new"} \cap ActivePcs = {} /\ "new" \notin FlushPcs
      BY DEF ActivePcs, FlushPcs
  <1>4. StackInv'
      BY <1>2, <1>3, StackStay DEF DoAsyncAfter, LifeInv
  <1>5. FlagInv'
    <2>1. \A x \in Threads : \A u \in Items(stack[x]) : u \in Tasks
        BY DEF LifeInv, StackInv
    <2> QED BY <1>2, <1>3, <2>1, FlagsStay DEF DoAsyncAfter, LifeInv, threadVars
  <1> QED BY <1>1, <1>4, <1>5 DEF LifeInv

LEMMA DispatchDelayedLife ==
    ASSUME Typed, LifeInv, NEW th \in Threads, NEW t \in Tasks, DispatchDelayed(th, t)
    PROVE  LifeInv'
  <1>1. /\ pc[t] = "delayed" /\ pc'[t] = "increment"
        /\ \A u \in Tasks \ {t} : pc'[u] = pc[u]
        /\ UNCHANGED <<count, queue, refs, owned, flag, pending, target, won, cur, run, done>>
      BY DEF DispatchDelayed, Typed, objVars, threadVars
  <1>2. /\ "increment" \in ActivePcs /\ "delayed" \notin ActivePcs
        /\ {"delayed", "increment"} \cap FlushPcs = {} /\ {"delayed", "increment"} \subseteq FreshPcs
      BY DEF ActivePcs, FlushPcs, FreshPcs
  <1>3. LinesInv'
      BY <1>1, <1>2 DEF LifeInv, LinesInv
  <1>4. StackInv' /\ \A x \in Threads : Items(stack[x]) \subseteq Items(stack'[x])
    <2>1. stack[th] = <<>> /\ <<t>> \o <<>> = <<t>>
        BY DEF DispatchDelayed, Idle
    <2>2. stack' = [stack EXCEPT ![th] = <<t>> \o @]
        BY <2>1 DEF DispatchDelayed
    <2> QED BY <1>1, <1>2, <2>2, StackEnter DEF LifeInv
  <1>5. FlagInv'
    <2>1. \A x \in Threads : \A u \in Items(stack[x]) : u \in Tasks
        BY DEF LifeInv, StackInv
    <2> QED BY <1>1, <1>2, <1>4, <2>1, FlagsStay DEF LifeInv
  <1>6. CountInv'
    <2>1. \A p \in Objects : Waiting(p)' = Waiting(p) /\ (Finished(p)' <=> Finished(p))
        BY <1>1 DEF Waiting, Finished
    <2>2. \A u \in Tasks : Elected(u) => Elected(u)' /\ target'[u] = target[u]
        BY <1>1 DEF Elected
    <2>3. \A u \in Tasks : Flushing(u) => Flushing(u)' /\ cur'[u] = cur[u]
        BY <1>1 DEF Flushing
    <2> QED BY <1>1, <2>1, <2>2, <2>3, CountsStay DEF LifeInv
  <1>7. RefsExact'
    <2>1. Issued' = Issued
        BY <1>1 DEF Issued
    <2>2. \A p \in Objects : /\ TasksOf(p)' = TasksOf(p) /\ CallsOf(p)' = CallsOf(p)
                             /\ GuestsOf(p)' = GuestsOf(p) /\ (Listed(p)' <=> Listed(p))
      <3>1. \A u \in Issued : u \in Tasks /\ (pc'[u] \in FlushPcs <=> pc[u] \in FlushPcs)
          BY <1>1, <1>2 DEF Issued
      <3> QED BY <1>1, <2>1, <3>1 DEF TasksOf, CallsOf, GuestsOf, Listed, Places
    <2>3. /\ \A u \in Tasks : pc'[u] \in FlushPcs /\ won'[u] => cur'[u] = target'[u]
          /\ \A u \in Tasks : pc'[u] = "claim" => won'[u]
        BY <1>1, <1>2 DEF LifeInv, RefsExact
    <2> QED BY <1>1, <2>1, <2>2, <2>3, RefsStay DEF LifeInv
  <1> QED BY <1>3, <1>4, <1>5, <1>6, <1>7 DEF LifeInv

LEMMA DisownLife ==
    ASSUME Typed, LifeInv, NEW o \in Objects, Disown(o)
    PROVE  LifeInv'
  <1>1. /\ UNCHANGED <<count, queue, flag, pending, stack, pc, target, won, cur, run, done>>
        /\ owned[o] /\ owned' = [owned EXCEPT ![o] = FALSE]
        /\ Counted(o) /\ refs' = [refs EXCEPT ![o] = @ - 1]
      BY DEF Disown, DropRef, objVars, threadVars
  <1>2. LinesInv' /\ StackInv' /\ FlagInv'
      BY <1>1 DEF LifeInv, LinesInv, StackInv, FlagInv, Kind
  <1>3. CountInv'
    <2>1. /\ \A p \in Objects : Waiting(p)' = Waiting(p) /\ (Finished(p)' <=> Finished(p))
          /\ \A u \in Tasks : Elected(u)' = Elected(u) /\ Flushing(u)' = Flushing(u)
        BY <1>1 DEF Waiting, Finished, Elected, Flushing
    <2> QED BY <1>1, <2>1, CountsStay DEF LifeInv
  <1>4. RefsExact'
    <2>1. /\ Issued' = Issued /\ IsFiniteSet(Issued)
          /\ \A p \in Objects : /\ TasksOf(p)' = TasksOf(p) /\ CallsOf(p)' = CallsOf(p)
                                /\ GuestsOf(p)' = GuestsOf(p) /\ (Listed(p)' <=> Listed(p))
        BY <1>1 DEF Issued, TasksOf, CallsOf, GuestsOf, Listed, Places, LifeInv, RefsExact
    <2>2. /\ owned' \in [Objects -> BOOLEAN] /\ ~owned'[o]
          /\ \A p \in Objects \ {o} : owned'[p] = owned[p]
          /\ refs' \in [Objects -> Int] /\ refs'[o] = refs[o] - 1
          /\ \A p \in Objects \ {o} : refs'[p] = refs[p]
        BY <1>1 DEF LifeInv, RefsExact
    <2>3. RefsOf(o)' = RefsOf(o) - 1 /\ \A p \in Objects \ {o} : RefsOf(p)' = RefsOf(p)
      <3>1. \A p \in Objects \ {o} : RefsOf(p)' = RefsOf(p)
          BY <2>1, <2>2 DEF RefsOf, One
      <3>2. /\ Cardinality(TasksOf(o)) \in Nat /\ Cardinality(CallsOf(o)) \in Nat
            /\ Cardinality(GuestsOf(o)) \in Nat
          BY <2>1, Finite
      <3>3. /\ Cardinality(TasksOf(o))' = Cardinality(TasksOf(o))
            /\ Cardinality(CallsOf(o))' = Cardinality(CallsOf(o))
            /\ Cardinality(GuestsOf(o))' = Cardinality(GuestsOf(o))
          BY <2>1
      <3>4. /\ One(owned[o]) = 1 /\ One(owned[o])' = 0
            /\ One(Listed(o))' = One(Listed(o)) /\ One(Listed(o)) \in Nat
          BY <1>1, <2>1, <2>2 DEF One
      <3>5. RefsOf(o)' = RefsOf(o) - 1
          BY <3>2, <3>3, <3>4 DEF RefsOf
      <3> QED BY <3>1, <3>5
    <2>4. \A p \in Objects : refs'[p] = IF Counted(p) THEN RefsOf(p)' ELSE 1
        BY <1>1, <2>2, <2>3 DEF LifeInv, RefsExact
    <2>5. /\ \A u \in Tasks : pc'[u] \in FlushPcs /\ won'[u] => cur'[u] = target'[u]
          /\ \A u \in Tasks : pc'[u] = "claim" => won'[u]
        BY <1>1 DEF LifeInv, RefsExact
    <2> QED BY <2>1, <2>2, <2>4, <2>5 DEF RefsExact, Counted, Kind
  <1> QED BY <1>2, <1>3, <1>4 DEF LifeInv

(***************************************************************************)
(* Steps inside a call.                                                    *)
(***************************************************************************)
LEMMA Moves ==
    ASSUME Typed, NEW th \in Threads, NEW t \in Tasks, NEW l, NEW m, At(th, t, l),
           Goto(t, m) \/ Return(th, t, m)
    PROVE  /\ pc[t] = l /\ pc'[t] = m /\ \A u \in Tasks \ {t} : pc'[u] = pc[u]
           /\ t \in Items(stack[th])
  <1>1. stack[th] \in Seq(Tasks) /\ stack[th] # <<>> /\ t = Head(stack[th]) /\ pc[t] = l
      BY DEF At, Idle, Typed
  <1>2. t \in Items(stack[th])
      BY <1>1, TailItems
  <1> QED BY <1>1, <1>2 DEF Goto, Return, Typed

LEMMA StackGoto ==
    ASSUME Typed, StackInv, NEW th \in Threads, NEW t \in Tasks, NEW l \in ActivePcs, NEW m \in ActivePcs,
           At(th, t, l), Goto(t, m)
    PROVE  StackInv' /\ stack' = stack
  <1>1. stack' = stack
      BY DEF Goto
  <1>2. \A u \in Tasks : pc'[u] \in ActivePcs <=> pc[u] \in ActivePcs
      BY Moves
  <1> QED BY <1>1, <1>2, StackStay

LEMMA StackDone ==
    ASSUME Typed, StackInv, NEW th \in Threads, NEW t \in Tasks, NEW l, NEW m,
           m \notin ActivePcs, At(th, t, l), Return(th, t, m)
    PROVE  StackInv' /\ \A x \in Threads : Items(stack'[x]) = Items(stack[x]) \ {t}
  <1>1. stack[th] # <<>> /\ t = Head(stack[th]) /\ stack' = [stack EXCEPT ![th] = Tail(@)]
      BY DEF At, Idle, Return
  <1>2. pc'[t] \notin ActivePcs /\ \A u \in Tasks \ {t} : pc'[u] = pc[u]
      BY Moves
  <1> QED BY <1>1, <1>2, StackReturn

LEMMA IncrementLife ==
    ASSUME Typed, LifeInv, NEW th \in Threads, NEW t \in Tasks, Increment(th, t)
    PROVE  LifeInv'
  <1>1. PICK o \in Objects : o = target[t]
      BY DEF Increment, At, Typed
  <1>2. /\ pc[t] = "increment" /\ pc'[t] = "swap" /\ \A u \in Tasks \ {t} : pc'[u] = pc[u]
        /\ UNCHANGED <<queue, refs, owned, flag, pending, stack, target, cur, run, done>>
        /\ (won'[t] <=> count[o] = 0) /\ \A u \in Tasks \ {t} : won'[u] = won[u]
      BY <1>1, Moves DEF Increment, threadVars, Goto, Typed
  <1>3. /\ count[o] \in Nat /\ count'[o] = count[o] + 1
        /\ \A p \in Objects \ {o} : count'[p] = count[p]
      BY <1>1 DEF Increment, Typed
  <1>4. /\ {"increment", "swap"} \subseteq ActivePcs /\ {"increment", "swap"} \cap FlushPcs = {}
        /\ {"increment", "swap"} \subseteq FreshPcs
      BY DEF ActivePcs, FlushPcs, FreshPcs
  <1>5. LinesInv'
      BY <1>2, <1>4 DEF LifeInv, LinesInv
  <1>6. StackInv'
      BY <1>4, StackGoto DEF Increment, LifeInv
  <1>7. FlagInv'
    <2>1. \A x \in Threads : \A u \in Items(stack[x]) : u \in Tasks
        BY DEF LifeInv, StackInv
    <2> QED BY <1>2, <1>4, <2>1, FlagsStay DEF LifeInv
  <1>8. CountInv'
    <2>1. t \notin Waiting(o) /\ t \notin done
        BY <1>2, <1>4 DEF Waiting, LifeInv, LinesInv
    <2>2. /\ Waiting(o)' = Waiting(o) \cup {t}
          /\ \A p \in Objects \ {o} : Waiting(p)' = Waiting(p)
        BY <1>1, <1>2, <2>1 DEF Waiting
    <2>3. \A p \in Objects : Finished(p)' <=> Finished(p)
        BY <1>2 DEF Finished
    <2>4. Cardinality(Waiting(o)') = Cardinality(Waiting(o)) + 1 /\ Cardinality(Waiting(o)) \in Nat
        BY <2>1, <2>2, Finite, FS_AddElement DEF LifeInv, RefsExact
    <2>5. \A p \in Objects : count'[p] = Cardinality(Waiting(p)') + One(Finished(p)')
      <3>1. \A p \in Objects \ {o} : count'[p] = Cardinality(Waiting(p)') + One(Finished(p)')
          BY <1>3, <2>2, <2>3 DEF LifeInv, CountInv, One
      <3>2. count'[o] = Cardinality(Waiting(o)') + One(Finished(o)')
        <4>1. count[o] = Cardinality(Waiting(o)) + One(Finished(o))
            BY DEF LifeInv, CountInv
        <4>2. One(Finished(o)') = One(Finished(o)) /\ One(Finished(o)) \in Nat
            BY <2>3 DEF One, Finished
        <4> QED BY <1>3, <2>4, <4>1, <4>2
      <3> QED BY <3>1, <3>2
    <2>6. /\ \A u \in Tasks : Elected(u) => Elected(u)' /\ target'[u] = target[u]
          /\ \A u \in Tasks : Flushing(u) => Flushing(u)' /\ cur'[u] = cur[u]
          /\ \A p \in Objects : Listed(p)' <=> Listed(p)
          /\ count[o] = 0 => Elected(t)' /\ target'[t] = o
        BY <1>1, <1>2 DEF Elected, Flushing, Listed, Places
    <2>7. \A p \in Objects : count'[p] > 0 =>
             \/ Listed(p)'
             \/ \E u \in Tasks : Elected(u)' /\ target'[u] = p
             \/ \E u \in Tasks : Flushing(u)' /\ cur'[u] = p
      <3>1. ASSUME NEW p \in Objects, count[p] > 0
            PROVE  \/ Listed(p)'
                   \/ \E u \in Tasks : Elected(u)' /\ target'[u] = p
                   \/ \E u \in Tasks : Flushing(u)' /\ cur'[u] = p
          BY <2>6, <3>1 DEF LifeInv, CountInv
      <3>2. count[o] = 0 => \E u \in Tasks : Elected(u)' /\ target'[u] = o
          BY <2>6
      <3> QED BY <1>3, <3>1, <3>2
    <2> QED BY <2>5, <2>7 DEF CountInv
  <1>9. RefsExact'
    <2>1. Issued' = Issued
        BY <1>2 DEF Issued
    <2>2. \A p \in Objects : /\ TasksOf(p)' = TasksOf(p) /\ CallsOf(p)' = CallsOf(p)
                             /\ GuestsOf(p)' = GuestsOf(p) /\ (Listed(p)' <=> Listed(p))
      <3>1. \A u \in Issued : /\ u \in Tasks /\ (pc'[u] \in FlushPcs <=> pc[u] \in FlushPcs)
                              /\ pc[u] \in FlushPcs => won'[u] = won[u]
          BY <1>2, <1>4 DEF Issued
      <3> QED BY <1>2, <2>1, <3>1 DEF TasksOf, CallsOf, GuestsOf, Listed, Places
    <2>3. /\ \A u \in Tasks : pc'[u] \in FlushPcs /\ won'[u] => cur'[u] = target'[u]
          /\ \A u \in Tasks : pc'[u] = "claim" => won'[u]
        BY <1>2, <1>4 DEF LifeInv, RefsExact
    <2> QED BY <1>2, <2>1, <2>2, <2>3, RefsStay DEF LifeInv
  <1> QED BY <1>5, <1>6, <1>7, <1>8, <1>9 DEF LifeInv

LEMMA PushSwapLife ==
    ASSUME Typed, LifeInv, NEW th \in Threads, NEW t \in Tasks, PushSwap(th, t)
    PROVE  LifeInv'
  <1>1. PICK o \in Objects : o = target[t]
      BY DEF PushSwap, At, Typed
  <1>2. /\ pc[t] = "swap" /\ pc'[t] = "link" /\ \A u \in Tasks \ {t} : pc'[u] = pc[u]
        /\ UNCHANGED <<count, refs, owned, flag, pending, stack, target, won, cur, run, done>>
    <2>1. UNCHANGED <<count, refs, owned, flag, pending, stack, target, won, cur, run, done>>
        BY DEF PushSwap, threadVars, Goto
    <2> QED BY <2>1, Moves DEF PushSwap
  <1>3. /\ "swap" \in FreshPcs /\ "link" \notin FreshPcs
        /\ {"link", "swap"} \cap FlushPcs = {} /\ {"link", "swap"} \subseteq ActivePcs
      BY DEF ActivePcs, FlushPcs, FreshPcs
  <1>4. LinesInv'
    <2>1. t \notin Items(queue[o]) /\ t \notin done
        BY <1>2, <1>3 DEF LifeInv, LinesInv
    <2>2. queue[o] \in Seq(Tasks) /\ queue'[o] = Append(queue[o], t)
        BY <1>1 DEF PushSwap, Typed
    <2>3. /\ Items(queue'[o]) = Items(queue[o]) \cup {t} /\ Distinct(queue'[o])
          /\ \A p \in Objects \ {o} : queue'[p] = queue[p]
      <3>1. Distinct(queue[o])
          BY DEF LifeInv, LinesInv
      <3>2. \A p \in Objects \ {o} : queue'[p] = queue[p]
          BY <1>1 DEF PushSwap, Typed
      <3> QED BY <2>1, <2>2, <3>1, <3>2, AppendItems
    <2>4. \A p \in Objects : Distinct(queue'[p])
        BY <2>3 DEF LifeInv, LinesInv
    <2>5. \A p \in Objects : \A u \in Items(queue'[p]) :
              u \in Tasks /\ target[u] = p /\ pc'[u] \notin FreshPcs /\ u \notin done
      <3> SUFFICES ASSUME NEW p \in Objects, NEW u \in Items(queue'[p])
                   PROVE  u \in Tasks /\ target[u] = p /\ pc'[u] \notin FreshPcs /\ u \notin done
          OBVIOUS
      <3>1. CASE u = t /\ p = o
          BY <3>1, <1>1, <1>2, <1>3, <2>1
      <3>2. CASE ~(u = t /\ p = o)
        <4>1. u \in Items(queue[p])
            BY <2>3, <3>2
        <4>2. u \in Tasks /\ target[u] = p /\ pc[u] \notin FreshPcs /\ u \notin done
            BY <4>1 DEF LifeInv, LinesInv
        <4> QED BY <1>2, <1>3, <4>2
      <3> QED BY <3>1, <3>2
    <2>6. \A u \in Tasks : pc'[u] \in {"link", "claim"} => u \in Items(queue'[target[u]])
      <3> SUFFICES ASSUME NEW u \in Tasks, pc'[u] \in {"link", "claim"}
                   PROVE  u \in Items(queue'[target[u]])
          OBVIOUS
      <3>1. CASE u = t
          BY <3>1, <1>1, <2>3
      <3>2. CASE u # t
        <4>1. u \in Items(queue[target[u]]) /\ target[u] \in Objects
            BY <1>2, <3>2 DEF LifeInv, LinesInv, Typed
        <4> QED BY <2>3, <4>1
      <3> QED BY <3>1, <3>2
    <2>7. \A u \in Tasks : pc'[u] = "run" =>
            /\ run[u] \in Tasks /\ run[u] \notin done
            /\ target[run[u]] = cur[u] /\ pc'[run[u]] \notin FreshPcs
            /\ run[u] \notin Items(queue'[cur[u]])
      <3> SUFFICES ASSUME NEW u \in Tasks, pc'[u] = "run"
                   PROVE  /\ run[u] \in Tasks /\ run[u] \notin done
                          /\ target[run[u]] = cur[u] /\ pc'[run[u]] \notin FreshPcs
                          /\ run[u] \notin Items(queue'[cur[u]])
          OBVIOUS
      <3>1. /\ run[u] \in Tasks /\ run[u] \notin done
            /\ target[run[u]] = cur[u] /\ pc[run[u]] \notin FreshPcs
            /\ run[u] \notin Items(queue[cur[u]]) /\ cur[u] \in Objects
          BY <1>2 DEF LifeInv, LinesInv, Typed, FlushPcs
      <3>2. run[u] # t
          BY <1>2, <1>3, <3>1
      <3> QED BY <1>2, <2>3, <3>1, <3>2
    <2>8. done \subseteq {u \in Tasks : pc'[u] \notin FreshPcs}
        BY <1>2, <2>1 DEF LifeInv, LinesInv
    <2>9. DOMAIN run' = Tasks
        BY <1>2 DEF LifeInv, LinesInv
    <2> QED BY <1>2, <2>4, <2>5, <2>6, <2>7, <2>8, <2>9 DEF LinesInv
  <1>5. StackInv'
      BY <1>3, StackGoto DEF PushSwap, LifeInv
  <1>6. FlagInv'
    <2>1. \A x \in Threads : \A u \in Items(stack[x]) : u \in Tasks
        BY DEF LifeInv, StackInv
    <2> QED BY <1>2, <1>3, <2>1, FlagsStay DEF LifeInv
  <1>7. CountInv'
    <2>1. \A p \in Objects : Waiting(p)' = Waiting(p) /\ (Finished(p)' <=> Finished(p))
        BY <1>2 DEF Waiting, Finished
    <2>2. \A u \in Tasks : Elected(u) => Elected(u)' /\ target'[u] = target[u]
        BY <1>2 DEF Elected
    <2>3. \A u \in Tasks : Flushing(u) => Flushing(u)' /\ cur'[u] = cur[u]
        BY <1>2 DEF Flushing
    <2> QED BY <1>2, <2>1, <2>2, <2>3, CountsStay DEF LifeInv
  <1>8. RefsExact'
    <2>1. Issued' = Issued
        BY <1>2 DEF Issued
    <2>2. \A p \in Objects : /\ TasksOf(p)' = TasksOf(p) /\ CallsOf(p)' = CallsOf(p)
                             /\ GuestsOf(p)' = GuestsOf(p) /\ (Listed(p)' <=> Listed(p))
      <3>1. \A u \in Issued : u \in Tasks /\ (pc'[u] \in FlushPcs <=> pc[u] \in FlushPcs)
          BY <1>2, <1>3 DEF Issued
      <3> QED BY <1>2, <2>1, <3>1 DEF TasksOf, CallsOf, GuestsOf, Listed, Places
    <2>3. /\ \A u \in Tasks : pc'[u] \in FlushPcs /\ won'[u] => cur'[u] = target'[u]
          /\ \A u \in Tasks : pc'[u] = "claim" => won'[u]
        BY <1>2, <1>3 DEF LifeInv, RefsExact
    <2> QED BY <1>2, <2>1, <2>2, <2>3, RefsStay DEF LifeInv
  <1> QED BY <1>4, <1>5, <1>6, <1>7, <1>8 DEF LifeInv

LEMMA PushLinkLife ==
    ASSUME Typed, LifeInv, NEW th \in Threads, NEW t \in Tasks, PushLink(th, t)
    PROVE  LifeInv'
  <1>1. PICK m \in {"claim", "returnedFalse"} :
            /\ Goto(t, m) \/ Return(th, t, m)
            /\ m = "claim" => won[t] /\ Goto(t, m)
            /\ m = "returnedFalse" => ~won[t] /\ Return(th, t, m)
    <2>1. CASE won[t] /\ Goto(t, "claim")
        BY <2>1
    <2>2. CASE ~won[t] /\ Return(th, t, "returnedFalse")
        BY <2>2
    <2> QED BY <2>1, <2>2 DEF PushLink
  <1>2. /\ pc[t] = "link" /\ pc'[t] = m /\ \A u \in Tasks \ {t} : pc'[u] = pc[u]
        /\ UNCHANGED <<count, queue, refs, owned, flag, pending, target, won, cur, run, done>>
      BY <1>1, Moves DEF PushLink, threadVars, objVars
  <1>3. /\ {"link", "claim", "returnedFalse"} \cap FreshPcs = {}
        /\ {"link", "claim", "returnedFalse"} \cap FlushPcs = {}
        /\ {"link", "claim"} \subseteq ActivePcs /\ "returnedFalse" \notin ActivePcs
      BY DEF ActivePcs, FlushPcs, FreshPcs
  <1>4. LinesInv'
      BY <1>2, <1>3 DEF LifeInv, LinesInv
  <1>5. StackInv' /\ \A x \in Threads : Items(stack[x]) \ {t} \subseteq Items(stack'[x])
    <2>1. CASE m = "claim"
        BY <1>1, <1>3, <2>1, StackGoto DEF PushLink, LifeInv
    <2>2. CASE m = "returnedFalse"
        BY <1>1, <1>3, <2>2, StackDone DEF PushLink, LifeInv
    <2> QED BY <2>1, <2>2
  <1>6. FlagInv'
    <2>1. \A x \in Threads : \A u \in Items(stack[x]) : u \in Tasks
        BY DEF LifeInv, StackInv
    <2> QED BY <1>2, <1>3, <1>5, <2>1, FlagsStay DEF LifeInv
  <1>7. CountInv'
    <2>1. \A p \in Objects : Waiting(p)' = Waiting(p) /\ (Finished(p)' <=> Finished(p))
        BY <1>2 DEF Waiting, Finished
    <2>2. \A u \in Tasks : Elected(u) => Elected(u)' /\ target'[u] = target[u]
        BY <1>1, <1>2 DEF Elected
    <2>3. \A u \in Tasks : Flushing(u) => Flushing(u)' /\ cur'[u] = cur[u]
        BY <1>2 DEF Flushing
    <2> QED BY <1>2, <2>1, <2>2, <2>3, CountsStay DEF LifeInv
  <1>8. RefsExact'
    <2>1. Issued' = Issued
        BY <1>2 DEF Issued
    <2>2. \A p \in Objects : /\ TasksOf(p)' = TasksOf(p) /\ CallsOf(p)' = CallsOf(p)
                             /\ GuestsOf(p)' = GuestsOf(p) /\ (Listed(p)' <=> Listed(p))
      <3>1. \A u \in Issued : u \in Tasks /\ (pc'[u] \in FlushPcs <=> pc[u] \in FlushPcs)
          BY <1>2, <1>3 DEF Issued
      <3> QED BY <1>2, <2>1, <3>1 DEF TasksOf, CallsOf, GuestsOf, Listed, Places
    <2>3. /\ \A u \in Tasks : pc'[u] \in FlushPcs /\ won'[u] => cur'[u] = target'[u]
          /\ \A u \in Tasks : pc'[u] = "claim" => won'[u]
        BY <1>1, <1>2, <1>3 DEF LifeInv, RefsExact
    <2> QED BY <1>2, <2>1, <2>2, <2>3, RefsStay DEF LifeInv
  <1> QED BY <1>4, <1>5, <1>6, <1>7, <1>8 DEF LifeInv

(* The task at the head is neither half pushed nor the claim of another    *)
(* call: that call would be a second consumer of the object.               *)
LEMMA PopLife ==
    ASSUME Typed, Roles, LifeInv, NEW th \in Threads, NEW t \in Tasks, Pop(th, t)
    PROVE  LifeInv'
  <1>1. PICK o \in Objects : o = cur[t]
      BY DEF Pop, At, Typed, FlushPcs
  <1>2. /\ pc[t] = "pop" /\ pc'[t] = "run" /\ \A u \in Tasks \ {t} : pc'[u] = pc[u]
        /\ UNCHANGED <<count, refs, owned, flag, pending, stack, target, won, cur, done>>
    <2>1. UNCHANGED <<count, refs, owned, flag, pending, stack, target, won, cur, done>>
        BY DEF Pop, threadVars, Goto
    <2> QED BY <2>1, Moves DEF Pop
  <1>3. /\ {"pop", "run"} \subseteq FlushPcs /\ {"pop", "run"} \subseteq ActivePcs
        /\ {"pop", "run"} \cap FreshPcs = {}
      BY DEF ActivePcs, FlushPcs, FreshPcs
  <1>4. LinesInv'
    <2>1. /\ queue[o] \in Seq(Tasks) /\ queue[o] # <<>> /\ queue'[o] = Tail(queue[o])
          /\ \A p \in Objects \ {o} : queue'[p] = queue[p]
          /\ pc[Head(queue[o])] # "link"
        BY <1>1 DEF Pop, Typed
    <2>2. PICK h : h = Head(queue[o])
        OBVIOUS
    <2>3. /\ Items(queue[o]) = Items(queue'[o]) \cup {h} /\ h \notin Items(queue'[o])
          /\ Distinct(queue'[o])
      <3>1. Distinct(queue[o])
          BY DEF LifeInv, LinesInv
      <3> QED BY <2>1, <2>2, <3>1, TailItems
    <2>4. h \in Tasks /\ target[h] = o /\ pc[h] \notin FreshPcs /\ h \notin done
        BY <2>3 DEF LifeInv, LinesInv
    <2>5. pc[h] \notin {"link", "claim"}
      <3>1. Flushing(t)
          BY <1>2 DEF Flushing
      <3>2. pc[h] # "claim"
          BY <1>1, <2>4, <3>1 DEF Roles, CallsInv, Elected
      <3> QED BY <2>1, <2>2, <3>2
    <2>6. DOMAIN run' = Tasks /\ run'[t] = h /\ \A u \in Tasks \ {t} : run'[u] = run[u]
      <3>1. run' = [run EXCEPT ![t] = h]
          BY <1>1, <2>2 DEF Pop
      <3> QED BY <3>1 DEF LifeInv, LinesInv
    <2>7. \A p \in Objects : Distinct(queue'[p]) /\ Items(queue'[p]) \subseteq Items(queue[p])
        BY <2>1, <2>3 DEF LifeInv, LinesInv
    <2>8. \A u \in Tasks : pc[u] \notin FreshPcs => pc'[u] \notin FreshPcs
        BY <1>2, <1>3
    <2>9. \A p \in Objects : \A u \in Items(queue'[p]) :
              u \in Tasks /\ target[u] = p /\ pc'[u] \notin FreshPcs /\ u \notin done
        BY <2>7, <2>8 DEF LifeInv, LinesInv
    <2>10. \A u \in Tasks : pc'[u] \in {"link", "claim"} => u \in Items(queue'[target[u]])
      <3> SUFFICES ASSUME NEW u \in Tasks, pc'[u] \in {"link", "claim"}
                   PROVE  u \in Items(queue'[target[u]])
          OBVIOUS
      <3>1. u # t /\ pc[u] \in {"link", "claim"} /\ u # h
          BY <1>2, <2>5
      <3>2. u \in Items(queue[target[u]]) /\ target[u] \in Objects
          BY <3>1 DEF LifeInv, LinesInv, Typed
      <3> QED BY <2>1, <2>3, <3>1, <3>2
    <2>11. \A u \in Tasks : pc'[u] = "run" =>
            /\ run'[u] \in Tasks /\ run'[u] \notin done
            /\ target[run'[u]] = cur[u] /\ pc'[run'[u]] \notin FreshPcs
            /\ run'[u] \notin Items(queue'[cur[u]])
      <3> SUFFICES ASSUME NEW u \in Tasks, pc'[u] = "run"
                   PROVE  /\ run'[u] \in Tasks /\ run'[u] \notin done
                          /\ target[run'[u]] = cur[u] /\ pc'[run'[u]] \notin FreshPcs
                          /\ run'[u] \notin Items(queue'[cur[u]])
          OBVIOUS
      <3>1. CASE u = t
          BY <3>1, <1>1, <2>3, <2>4, <2>6, <2>8
      <3>2. CASE u # t
        <4>1. /\ run[u] \in Tasks /\ run[u] \notin done
              /\ target[run[u]] = cur[u] /\ pc[run[u]] \notin FreshPcs
              /\ run[u] \notin Items(queue[cur[u]]) /\ cur[u] \in Objects
            BY <1>2, <3>2 DEF LifeInv, LinesInv, Typed, FlushPcs
        <4> QED BY <2>6, <2>7, <2>8, <3>2, <4>1
      <3> QED BY <3>1, <3>2
    <2>12. done \subseteq {u \in Tasks : pc'[u] \notin FreshPcs}
        BY <2>8 DEF LifeInv, LinesInv
    <2> QED BY <1>2, <2>6, <2>7, <2>9, <2>10, <2>11, <2>12 DEF LinesInv
  <1>5. StackInv'
      BY <1>3, StackGoto DEF Pop, LifeInv
  <1>6. FlagInv'
    <2>1. \A x \in Threads : \A u \in Items(stack[x]) : u \in Tasks
        BY DEF LifeInv, StackInv
    <2> QED BY <1>2, <1>3, <2>1, FlagsStay DEF LifeInv
  <1>7. CountInv'
    <2>1. \A p \in Objects : Waiting(p)' = Waiting(p) /\ (Finished(p)' <=> Finished(p))
        BY <1>2 DEF Waiting, Finished
    <2>2. \A u \in Tasks : Elected(u) => Elected(u)' /\ target'[u] = target[u]
        BY <1>2 DEF Elected
    <2>3. \A u \in Tasks : Flushing(u) => Flushing(u)' /\ cur'[u] = cur[u]
        BY <1>2 DEF Flushing
    <2> QED BY <1>2, <2>1, <2>2, <2>3, CountsStay DEF LifeInv
  <1>8. RefsExact'
    <2>1. Issued' = Issued
        BY <1>2 DEF Issued
    <2>2. \A p \in Objects : /\ TasksOf(p)' = TasksOf(p) /\ CallsOf(p)' = CallsOf(p)
                             /\ GuestsOf(p)' = GuestsOf(p) /\ (Listed(p)' <=> Listed(p))
      <3>1. \A u \in Issued : u \in Tasks /\ (pc'[u] \in FlushPcs <=> pc[u] \in FlushPcs)
          BY <1>2, <1>3 DEF Issued
      <3> QED BY <1>2, <2>1, <3>1 DEF TasksOf, CallsOf, GuestsOf, Listed, Places
    <2>3. /\ \A u \in Tasks : pc'[u] \in FlushPcs /\ won'[u] => cur'[u] = target'[u]
          /\ \A u \in Tasks : pc'[u] = "claim" => won'[u]
        BY <1>2, <1>3 DEF LifeInv, RefsExact
    <2> QED BY <1>2, <2>1, <2>2, <2>3, RefsStay DEF LifeInv
  <1> QED BY <1>4, <1>5, <1>6, <1>7, <1>8 DEF LifeInv

(* The task that ran is done and its reference is dropped: the counter     *)
(* counts the call that has to decrement it instead.                       *)
LEMMA FinishTaskLife ==
    ASSUME Typed, Roles, LifeInv, NEW th \in Threads, NEW t \in Tasks, FinishTask(th, t)
    PROVE  LifeInv'
  <1>1. PICK o \in Objects : o = cur[t]
      BY DEF FinishTask, At, Typed, FlushPcs
  <1>2. /\ pc[t] = "run" /\ pc'[t] = "decrement" /\ \A u \in Tasks \ {t} : pc'[u] = pc[u]
        /\ UNCHANGED <<count, queue, owned, flag, pending, stack, target, won, cur, run>>
    <2>1. UNCHANGED <<count, queue, owned, flag, pending, stack, target, won, cur, run>>
        BY DEF FinishTask, threadVars, objVars, Goto
    <2> QED BY <2>1, Moves DEF FinishTask
  <1>3. /\ {"run", "decrement"} \subseteq FlushPcs /\ {"run", "decrement"} \subseteq ActivePcs
        /\ {"run", "decrement"} \cap FreshPcs = {}
      BY DEF ActivePcs, FlushPcs, FreshPcs
  <1>4. PICK r \in Tasks : /\ r = run[t] /\ done' = done \cup {r}
                           /\ r \notin done /\ target[r] = o /\ pc[r] \notin FreshPcs
                           /\ \A p \in Objects : r \notin Items(queue[p])
    <2>1. /\ run[t] \in Tasks /\ run[t] \notin done /\ target[run[t]] = o
          /\ pc[run[t]] \notin FreshPcs /\ run[t] \notin Items(queue[o])
        BY <1>1, <1>2 DEF LifeInv, LinesInv
    <2>2. \A p \in Objects \ {o} : run[t] \notin Items(queue[p])
        BY <2>1 DEF LifeInv, LinesInv
    <2>3. done' = done \cup {run[t]}
        BY DEF FinishTask
    <2> QED BY <2>1, <2>2, <2>3
  (* No other call is flushing the object.                                 *)
  <1>5. \A u \in Tasks \ {t} : pc[u] \in {"run", "decrement"} => cur[u] # o
    <2>1. Flushing(t) /\ \A u \in Tasks : pc[u] \in {"run", "decrement"} => Flushing(u)
        BY <1>2 DEF Flushing
    <2> QED BY <1>1, <2>1 DEF Roles, CallsInv
  <1>6. LinesInv'
    <2>1. \A p \in Objects : \A u \in Items(queue[p]) :
              u \in Tasks /\ target[u] = p /\ pc'[u] \notin FreshPcs /\ u \notin done'
        BY <1>2, <1>3, <1>4 DEF LifeInv, LinesInv
    <2>2. \A u \in Tasks : pc'[u] \in {"link", "claim"} => u \in Items(queue[target[u]])
        BY <1>2 DEF LifeInv, LinesInv
    <2>3. \A u \in Tasks : pc'[u] = "run" =>
            /\ run[u] \in Tasks /\ run[u] \notin done'
            /\ target[run[u]] = cur[u] /\ pc'[run[u]] \notin FreshPcs
            /\ run[u] \notin Items(queue[cur[u]])
      <3> SUFFICES ASSUME NEW u \in Tasks, pc'[u] = "run"
                   PROVE  /\ run[u] \in Tasks /\ run[u] \notin done'
                          /\ target[run[u]] = cur[u] /\ pc'[run[u]] \notin FreshPcs
                          /\ run[u] \notin Items(queue[cur[u]])
          OBVIOUS
      <3>1. /\ u # t /\ pc[u] = "run" /\ cur[u] # o
          BY <1>2, <1>5
      <3>2. /\ run[u] \in Tasks /\ run[u] \notin done
            /\ target[run[u]] = cur[u] /\ pc[run[u]] \notin FreshPcs
            /\ run[u] \notin Items(queue[cur[u]])
          BY <3>1 DEF LifeInv, LinesInv
      <3> QED BY <1>2, <1>3, <1>4, <3>1, <3>2
    <2>4. done' \subseteq {u \in Tasks : pc'[u] \notin FreshPcs}
        BY <1>2, <1>3, <1>4 DEF LifeInv, LinesInv
    <2>5. DOMAIN run = Tasks /\ \A p \in Objects : Distinct(queue[p])
        BY DEF LifeInv, LinesInv
    <2> QED BY <1>2, <2>1, <2>2, <2>3, <2>4, <2>5 DEF LinesInv
  <1>7. StackInv'
      BY <1>3, StackGoto DEF FinishTask, LifeInv
  <1>8. FlagInv'
    <2>1. \A x \in Threads : \A u \in Items(stack[x]) : u \in Tasks
        BY DEF LifeInv, StackInv
    <2> QED BY <1>2, <1>3, <2>1, FlagsStay DEF LifeInv
  <1>9. CountInv'
    <2>1. /\ r \in Waiting(o) /\ Waiting(o)' = Waiting(o) \ {r}
          /\ \A p \in Objects \ {o} : Waiting(p)' = Waiting(p)
      <3>1. \A u \in Tasks : pc'[u] \notin {"new", "delayed", "increment"}
                             <=> pc[u] \notin {"new", "delayed", "increment"}
          BY <1>2
      <3>2. r \in Waiting(o)
          BY <1>4 DEF Waiting, FreshPcs
      <3> QED BY <1>2, <1>4, <3>1, <3>2 DEF Waiting
    <2>2. /\ ~Finished(o) /\ Finished(o)'
          /\ \A p \in Objects \ {o} : Finished(p)' <=> Finished(p)
        BY <1>1, <1>2, <1>5 DEF Finished
    <2>3. IsFiniteSet(Waiting(o))
        BY Finite DEF LifeInv, RefsExact
    <2>4. Cardinality(Waiting(o)') = Cardinality(Waiting(o)) - 1 /\ Cardinality(Waiting(o)) \in Nat
        BY <2>1, <2>3, FS_RemoveElement, FS_CardinalityType
    <2>5. \A p \in Objects : count'[p] = Cardinality(Waiting(p)') + One(Finished(p)')
      <3>1. \A p \in Objects \ {o} : count'[p] = Cardinality(Waiting(p)') + One(Finished(p)')
          BY <1>2, <2>1, <2>2 DEF LifeInv, CountInv, One
      <3>2. count'[o] = Cardinality(Waiting(o)') + One(Finished(o)')
        <4>1. count[o] = Cardinality(Waiting(o)) + One(Finished(o))
            BY DEF LifeInv, CountInv
        <4>2. One(Finished(o)') = 1 /\ One(Finished(o)) = 0
            BY <2>2 DEF One
        <4> QED BY <1>2, <2>4, <4>1, <4>2
      <3> QED BY <3>1, <3>2
    <2>6. \A p \in Objects : count'[p] > 0 =>
             \/ Listed(p)'
             \/ \E u \in Tasks : Elected(u)' /\ target'[u] = p
             \/ \E u \in Tasks : Flushing(u)' /\ cur'[u] = p
      <3>1. /\ \A u \in Tasks : Elected(u) => Elected(u)' /\ target'[u] = target[u]
            /\ \A u \in Tasks : Flushing(u) => Flushing(u)' /\ cur'[u] = cur[u]
            /\ \A p \in Objects : Listed(p)' <=> Listed(p)
          BY <1>2 DEF Elected, Flushing, Listed, Places
      <3> QED BY <1>2, <3>1 DEF LifeInv, CountInv
    <2> QED BY <2>5, <2>6 DEF CountInv
  <1>10. RefsExact'
    <2>1. Issued' = Issued /\ IsFiniteSet(Issued) /\ r \in Issued
        BY <1>2, <1>4 DEF Issued, LifeInv, RefsExact, FreshPcs
    <2>2. /\ r \in TasksOf(o) /\ TasksOf(o)' = TasksOf(o) \ {r}
          /\ \A p \in Objects \ {o} : TasksOf(p)' = TasksOf(p)
        BY <1>2, <1>4, <2>1 DEF TasksOf
    <2>3. \A p \in Objects : /\ CallsOf(p)' = CallsOf(p) /\ GuestsOf(p)' = GuestsOf(p)
                             /\ (Listed(p)' <=> Listed(p))
      <3>1. \A u \in Issued : u \in Tasks /\ (pc'[u] \in FlushPcs <=> pc[u] \in FlushPcs)
          BY <1>2, <1>3 DEF Issued
      <3> QED BY <1>2, <2>1, <3>1 DEF CallsOf, GuestsOf, Listed, Places
    <2>4. Cardinality(TasksOf(o)') = Cardinality(TasksOf(o)) - 1
        BY <2>1, <2>2, Finite, FS_RemoveElement
    <2>5. RefsOf(o)' = RefsOf(o) - 1 /\ \A p \in Objects \ {o} : RefsOf(p)' = RefsOf(p)
      <3>1. \A p \in Objects \ {o} : RefsOf(p)' = RefsOf(p)
          BY <1>2, <2>2, <2>3 DEF RefsOf, One
      <3>2. /\ Cardinality(TasksOf(o)) \in Nat /\ Cardinality(CallsOf(o)) \in Nat
            /\ Cardinality(GuestsOf(o)) \in Nat
          BY <2>1, Finite
      <3>3. /\ Cardinality(CallsOf(o))' = Cardinality(CallsOf(o))
            /\ Cardinality(GuestsOf(o))' = Cardinality(GuestsOf(o))
          BY <2>3
      <3>4. /\ One(owned[o])' = One(owned[o]) /\ One(Listed(o))' = One(Listed(o))
            /\ One(owned[o]) \in Nat /\ One(Listed(o)) \in Nat
          BY <1>2, <2>3 DEF One
      <3>5. RefsOf(o)' = RefsOf(o) - 1
          BY <2>4, <3>2, <3>3, <3>4 DEF RefsOf
      <3> QED BY <3>1, <3>5
    <2>6. /\ refs' \in [Objects -> Int]
          /\ refs'[o] = IF Counted(o) THEN refs[o] - 1 ELSE refs[o]
          /\ \A p \in Objects \ {o} : refs'[p] = refs[p]
        BY <1>1 DEF FinishTask, DropRef, LifeInv, RefsExact
    <2>7. \A p \in Objects : refs'[p] = IF Counted(p) THEN RefsOf(p)' ELSE 1
        BY <2>5, <2>6 DEF LifeInv, RefsExact
    <2>8. /\ \A u \in Tasks : pc'[u] \in FlushPcs /\ won'[u] => cur'[u] = target'[u]
          /\ \A u \in Tasks : pc'[u] = "claim" => won'[u]
          /\ owned' \in [Objects -> BOOLEAN]
        BY <1>2, <1>3 DEF LifeInv, RefsExact
    <2> QED BY <2>1, <2>6, <2>7, <2>8 DEF RefsExact, Counted, Kind
  <1> QED BY <1>6, <1>7, <1>8, <1>9, <1>10 DEF LifeInv

(* The counter is lowered; with the last task the call is through with the *)
(* object, and the object has no consumer any more.                        *)
LEMMA DecrementLife ==
    ASSUME Typed, Roles, LifeInv, NEW th \in Threads, NEW t \in Tasks, Decrement(th, t)
    PROVE  LifeInv'
  <1>1. PICK o \in Objects : o = cur[t]
      BY DEF Decrement, At, Typed, FlushPcs
  <1>2. PICK m \in {"pop", "flushed"} : Goto(t, m) /\ (m = "flushed" => count[o] = 1)
      BY <1>1 DEF Decrement
  <1>3. /\ pc[t] = "decrement" /\ pc'[t] = m /\ \A u \in Tasks \ {t} : pc'[u] = pc[u]
        /\ UNCHANGED <<queue, refs, owned, flag, pending, stack, target, won, cur, run, done>>
    <2>1. UNCHANGED <<queue, refs, owned, flag, pending, stack, target, won, cur, run, done>>
        BY <1>2 DEF Decrement, threadVars, Goto
    <2> QED BY <1>2, <2>1, Moves DEF Decrement
  <1>4. /\ {"pop", "decrement", "flushed"} \subseteq FlushPcs
        /\ {"pop", "decrement", "flushed"} \subseteq ActivePcs
        /\ {"pop", "decrement", "flushed"} \cap FreshPcs = {}
      BY DEF ActivePcs, FlushPcs, FreshPcs
  <1>5. \A u \in Tasks \ {t} : pc[u] = "decrement" => cur[u] # o
    <2>1. Flushing(t) /\ \A u \in Tasks : pc[u] = "decrement" => Flushing(u)
        BY <1>3 DEF Flushing
    <2> QED BY <1>1, <2>1 DEF Roles, CallsInv
  <1>6. /\ count[o] \in Nat /\ count'[o] = count[o] - 1
        /\ \A p \in Objects \ {o} : count'[p] = count[p]
      BY <1>1 DEF Decrement, Typed
  <1>7. LinesInv'
      BY <1>3, <1>4 DEF LifeInv, LinesInv
  <1>8. StackInv'
      BY <1>2, <1>4, StackGoto DEF Decrement, LifeInv
  <1>9. FlagInv'
    <2>1. \A x \in Threads : \A u \in Items(stack[x]) : u \in Tasks
        BY DEF LifeInv, StackInv
    <2> QED BY <1>3, <1>4, <2>1, FlagsStay DEF LifeInv
  <1>10. CountInv'
    <2>1. \A p \in Objects : Waiting(p)' = Waiting(p)
        BY <1>3 DEF Waiting
    <2>2. /\ Finished(o) /\ ~Finished(o)'
          /\ \A p \in Objects \ {o} : Finished(p)' <=> Finished(p)
        BY <1>1, <1>3, <1>5 DEF Finished
    <2>3. \A p \in Objects : count'[p] = Cardinality(Waiting(p)') + One(Finished(p)')
      <3>1. \A p \in Objects \ {o} : count'[p] = Cardinality(Waiting(p)') + One(Finished(p)')
          BY <1>6, <2>1, <2>2 DEF LifeInv, CountInv, One
      <3>2. count'[o] = Cardinality(Waiting(o)') + One(Finished(o)')
        <4>1. count[o] = Cardinality(Waiting(o)) + One(Finished(o)) /\ Cardinality(Waiting(o)) \in Nat
            BY Finite DEF LifeInv, CountInv, RefsExact
        <4>2. One(Finished(o)') = 0 /\ One(Finished(o)) = 1
            BY <2>2 DEF One
        <4>3. Cardinality(Waiting(o)') = Cardinality(Waiting(o))
            BY <2>1
        <4> QED BY <1>6, <4>1, <4>2, <4>3
      <3> QED BY <3>1, <3>2
    <2>4. \A p \in Objects : count'[p] > 0 =>
             \/ Listed(p)'
             \/ \E u \in Tasks : Elected(u)' /\ target'[u] = p
             \/ \E u \in Tasks : Flushing(u)' /\ cur'[u] = p
      <3>1. /\ \A u \in Tasks : Elected(u) => Elected(u)' /\ target'[u] = target[u]
            /\ \A u \in Tasks \ {t} : Flushing(u) => Flushing(u)' /\ cur'[u] = cur[u]
            /\ m = "pop" => Flushing(t)' /\ cur'[t] = o
            /\ \A p \in Objects : Listed(p)' <=> Listed(p)
          BY <1>1, <1>3 DEF Elected, Flushing, Listed, Places
      <3>2. ASSUME NEW p \in Objects \ {o}, count'[p] > 0
            PROVE  \/ Listed(p)'
                   \/ \E u \in Tasks : Elected(u)' /\ target'[u] = p
                   \/ \E u \in Tasks : Flushing(u)' /\ cur'[u] = p
        <4>1. count[p] > 0
            BY <1>6, <3>2
        <4> QED BY <1>1, <3>1, <4>1 DEF LifeInv, CountInv
      <3>3. count'[o] > 0 => \E u \in Tasks : Flushing(u)' /\ cur'[u] = o
          BY <1>2, <1>6, <3>1
      <3> QED BY <3>2, <3>3
    <2> QED BY <2>3, <2>4 DEF CountInv
  <1>11. RefsExact'
    <2>1. Issued' = Issued
        BY <1>3 DEF Issued
    <2>2. \A p \in Objects : /\ TasksOf(p)' = TasksOf(p) /\ CallsOf(p)' = CallsOf(p)
                             /\ GuestsOf(p)' = GuestsOf(p) /\ (Listed(p)' <=> Listed(p))
      <3>1. \A u \in Issued : u \in Tasks /\ (pc'[u] \in FlushPcs <=> pc[u] \in FlushPcs)
          BY <1>3, <1>4 DEF Issued
      <3> QED BY <1>3, <2>1, <3>1 DEF TasksOf, CallsOf, GuestsOf, Listed, Places
    <2>3. /\ \A u \in Tasks : pc'[u] \in FlushPcs /\ won'[u] => cur'[u] = target'[u]
          /\ \A u \in Tasks : pc'[u] = "claim" => won'[u]
        BY <1>3, <1>4 DEF LifeInv, RefsExact
    <2> QED BY <1>3, <2>1, <2>2, <2>3, RefsStay DEF LifeInv
  <1> QED BY <1>7, <1>8, <1>9, <1>10, <1>11 DEF LifeInv

(* The elected call takes a reference with it, to its thread's list or     *)
(* into its flush.                                                         *)
LEMMA ClaimLife ==
    ASSUME Typed, Typed', Roles, LifeInv, NEW th \in Threads, NEW t \in Tasks, Claim(th, t)
    PROVE  LifeInv'
  <1>1. PICK o \in Objects : o = target[t]
      BY DEF Claim, At, Typed
  <1>2. PICK k \in Kinds : k = Kind(o)
      BY KindAssumption DEF Kind
  <1>3. PICK m \in {"returnedTrue", "pop"} :
            /\ Goto(t, m) \/ Return(th, t, m)
            /\ m = "returnedTrue" =>
                 /\ flag[th][k] /\ pending' = [pending EXCEPT ![th][k] = Append(@, o)]
                 /\ Return(th, t, m) /\ UNCHANGED <<flag, cur>>
            /\ m = "pop" =>
                 /\ flag' = [flag EXCEPT ![th][k] = TRUE] /\ cur' = [cur EXCEPT ![t] = o]
                 /\ Goto(t, m) /\ UNCHANGED pending
    <2>1. CASE /\ flag[th][k] /\ pending' = [pending EXCEPT ![th][k] = Append(@, o)]
               /\ Return(th, t, "returnedTrue") /\ UNCHANGED <<flag, cur>>
        BY <2>1
    <2>2. CASE /\ flag' = [flag EXCEPT ![th][k] = TRUE] /\ cur' = [cur EXCEPT ![t] = o]
               /\ Goto(t, "pop") /\ UNCHANGED pending
        BY <2>2
    <2> QED BY <1>1, <1>2, <2>1, <2>2 DEF Claim
  <1>4. /\ pc[t] = "claim" /\ pc'[t] = m /\ \A u \in Tasks \ {t} : pc'[u] = pc[u]
        /\ UNCHANGED <<count, queue, owned, target, won, run, done>>
        /\ t \in Items(stack[th])
    <2>1. UNCHANGED <<count, queue, owned, target, won, run, done>>
        BY DEF Claim, objVars
    <2>2. At(th, t, "claim")
        BY DEF Claim
    <2>3. Goto(t, m) \/ Return(th, t, m)
        BY <1>3
    <2> QED BY <2>1, <2>2, <2>3, Moves
  <1>5. cur' \in [Tasks -> Objects \cup {None}] /\ (m = "pop" => cur'[t] = o)
        /\ \A u \in Tasks \ {t} : cur'[u] = cur[u]
      BY <1>3 DEF Typed
  <1>6. /\ {"pop", "claim"} \subseteq ActivePcs /\ "returnedTrue" \notin ActivePcs
        /\ {"claim", "returnedTrue"} \cap FlushPcs = {} /\ "pop" \in FlushPcs
        /\ {"claim", "returnedTrue", "pop"} \cap FreshPcs = {}
      BY DEF ActivePcs, FlushPcs, FreshPcs
  <1>7. Elected(t) /\ won[t]
      BY <1>4 DEF Elected, LifeInv, RefsExact
  <1>8. ~Listed(o)
      BY <1>1, <1>7 DEF Listed, Roles, ListsInv
  (* The call is in the list or flushes.                                   *)
  <1>9. /\ Listed(o)' <=> m = "returnedTrue"
        /\ \A p \in Objects \ {o} : Listed(p)' <=> Listed(p)
    <2>1. CASE m = "pop"
        BY <1>3, <1>8, <2>1 DEF Listed, Places
    <2>2. CASE m = "returnedTrue"
      <3>1. /\ pending[th][k] \in Seq(Objects) /\ pending'[th][k] = Append(pending[th][k], o)
            /\ \A x \in Threads, j \in Kinds : x # th \/ j # k => pending'[x][j] = pending[x][j]
        <4>1. pending' = [pending EXCEPT ![th][k] = Append(@, o)]
            BY <1>3, <2>2
        <4>2. pending \in [Threads -> [Kinds -> Seq(Objects)]]
            BY DEF Typed
        <4> QED BY <4>1, <4>2
      <3>2. Items(pending'[th][k]) = Items(pending[th][k]) \cup {o}
          BY <3>1, AppendItems
      <3>3. \A p : Listed(p) <=> \E x \in Threads, j \in Kinds : p \in Items(pending[x][j])
          BY DEF Listed, Places, Items
      <3>4. \A p : Listed(p)' <=> \E x \in Threads, j \in Kinds : p \in Items(pending'[x][j])
          BY DEF Listed, Places, Items
      <3>5. Listed(o)'
          BY <3>2, <3>4
      <3>6. ASSUME NEW p \in Objects \ {o} PROVE Listed(p)' <=> Listed(p)
        <4>1. \A x \in Threads, j \in Kinds :
                 p \in Items(pending'[x][j]) <=> p \in Items(pending[x][j])
            BY <3>1, <3>2
        <4> QED BY <3>3, <3>4, <4>1
      <3> QED BY <2>2, <3>5, <3>6
    <2> QED BY <2>1, <2>2
  <1>10. LinesInv'
      BY SMTT(30), <1>4, <1>5, <1>6, <1>3 DEF LifeInv, LinesInv
  <1>11. StackInv' /\ \A x \in Threads : Items(stack[x]) \ {t} \subseteq Items(stack'[x])
         /\ (m = "pop" => stack' = stack)
    <2>1. CASE m = "pop"
        BY <1>3, <1>6, <2>1, StackGoto DEF Claim, LifeInv
    <2>2. CASE m = "returnedTrue"
        BY <1>3, <1>6, <2>2, StackDone DEF Claim, LifeInv
    <2> QED BY <2>1, <2>2
  <1>12. FlagInv'
    <2>1. \A x \in Threads : \A u \in Items(stack[x]) : u \in Tasks
        BY DEF LifeInv, StackInv
    <2>2. \A x \in Threads : \A u \in Items(stack[x]) :
              pc[u] \in FlushPcs => /\ u \in Items(stack'[x]) /\ pc'[u] \in FlushPcs
                                    /\ target'[u] = target[u]
        BY <1>4, <1>6, <1>11, <2>1
    <2>3. CASE m = "returnedTrue"
      <3>1. \A x \in Threads, j \in Kinds : pending'[x][j] # <<>> => flag[x][j]
        <4>1. pending' = [pending EXCEPT ![th][k] = Append(@, o)] /\ flag[th][k]
            BY <1>3, <2>3
        <4>2. pending \in [Threads -> [Kinds -> Seq(Objects)]]
            BY DEF Typed
        <4>3. \A x \in Threads, j \in Kinds : x # th \/ j # k => pending'[x][j] = pending[x][j]
            BY <4>1, <4>2
        <4> QED BY <4>1, <4>3 DEF LifeInv, FlagInv
      <3> QED BY <1>3, <2>2, <2>3, <3>1, FlagsHeld DEF LifeInv
    <2>4. CASE m = "pop"
      <3>1. /\ flag'[th][k]
            /\ \A x \in Threads, j \in Kinds : x # th \/ j # k => flag'[x][j] = flag[x][j]
          BY <1>3, <2>4 DEF Typed
      <3>2. \A x \in Threads, j \in Kinds : pending'[x][j] # <<>> => flag'[x][j]
          BY <1>3, <2>4, <3>1 DEF LifeInv, FlagInv
      <3>3. \A x \in Threads, j \in Kinds : flag'[x][j] =>
              \E u \in Items(stack'[x]) : pc'[u] \in FlushPcs /\ Kind(target'[u]) = j
        <4> SUFFICES ASSUME NEW x \in Threads, NEW j \in Kinds, flag'[x][j]
                     PROVE  \E u \in Items(stack'[x]) : pc'[u] \in FlushPcs /\ Kind(target'[u]) = j
            OBVIOUS
        <4>1. CASE x = th /\ j = k
            BY <4>1, <1>1, <1>2, <1>4, <1>6, <1>11, <2>4
        <4>2. CASE x # th \/ j # k
          <5>1. PICK u \in Items(stack[x]) : pc[u] \in FlushPcs /\ Kind(target[u]) = j
              BY <3>1, <4>2 DEF LifeInv, FlagInv
          <5> QED BY <2>2, <5>1
        <4> QED BY <4>1, <4>2
      <3> QED BY <3>2, <3>3 DEF FlagInv, Kind
    <2> QED BY <2>3, <2>4
  <1>13. CountInv'
    <2>1. \A p \in Objects : Waiting(p)' = Waiting(p) /\ (Finished(p)' <=> Finished(p))
        BY <1>4, <1>5 DEF Waiting, Finished
    <2>2. \A p \in Objects : count'[p] = Cardinality(Waiting(p)') + One(Finished(p)')
        BY <1>4, <2>1 DEF LifeInv, CountInv, One
    <2>3. \A p \in Objects : count'[p] > 0 =>
             \/ Listed(p)'
             \/ \E u \in Tasks : Elected(u)' /\ target'[u] = p
             \/ \E u \in Tasks : Flushing(u)' /\ cur'[u] = p
      <3>1. /\ \A u \in Tasks \ {t} : Elected(u) => Elected(u)' /\ target'[u] = target[u]
            /\ \A u \in Tasks : Flushing(u) => Flushing(u)' /\ cur'[u] = cur[u]
            /\ m = "pop" => Flushing(t)' /\ cur'[t] = o
          BY <1>4, <1>5 DEF Elected, Flushing
      <3>2. ASSUME NEW p \in Objects \ {o}, count'[p] > 0
            PROVE  \/ Listed(p)'
                   \/ \E u \in Tasks : Elected(u)' /\ target'[u] = p
                   \/ \E u \in Tasks : Flushing(u)' /\ cur'[u] = p
        <4>1. count[p] > 0
            BY <1>4, <3>2
        <4> QED BY <1>1, <1>9, <3>1, <4>1 DEF LifeInv, CountInv
      <3>3. Listed(o)' \/ \E u \in Tasks : Flushing(u)' /\ cur'[u] = o
          BY <1>9, <3>1
      <3> QED BY <3>2, <3>3
    <2> QED BY <2>2, <2>3 DEF CountInv
  <1>14. RefsExact'
    <2>1. Issued' = Issued /\ IsFiniteSet(Issued) /\ t \in Issued
        BY <1>4 DEF Issued, LifeInv, RefsExact
    <2>2. \A u \in Issued \ {t} : u \in Tasks /\ (pc'[u] \in FlushPcs <=> pc[u] \in FlushPcs)
        BY <1>4 DEF Issued
    <2>3. \A p \in Objects : TasksOf(p)' = TasksOf(p)
        BY <1>4, <2>1 DEF TasksOf
    <2>4. \A p \in Objects : GuestsOf(p)' = GuestsOf(p)
        BY <1>4, <1>5, <1>6, <1>7, <2>1, <2>2 DEF GuestsOf
    <2>5. /\ t \notin CallsOf(o)
          /\ CallsOf(o)' = IF m = "pop" THEN CallsOf(o) \cup {t} ELSE CallsOf(o)
          /\ \A p \in Objects \ {o} : CallsOf(p)' = CallsOf(p)
      <3>1. t \notin CallsOf(o)
          BY <1>4, <1>6 DEF CallsOf
      <3>2. \A p \in Objects \ {o} : CallsOf(p)' = CallsOf(p)
          BY <1>1, <1>4, <1>6, <2>1, <2>2 DEF CallsOf
      <3>3. CASE m = "pop"
          BY <3>1, <3>2, <3>3, <1>1, <1>4, <1>6, <2>1, <2>2 DEF CallsOf
      <3>4. CASE m = "returnedTrue"
          BY <3>1, <3>2, <3>4, <1>1, <1>4, <1>6, <2>1, <2>2 DEF CallsOf
      <3> QED BY <3>3, <3>4
    <2>6. Cardinality(CallsOf(o)') = Cardinality(CallsOf(o)) + One(m = "pop")
      <3>1. IsFiniteSet(CallsOf(o)) /\ Cardinality(CallsOf(o)) \in Nat
          BY <2>1, Finite
      <3>2. Cardinality(CallsOf(o) \cup {t}) = Cardinality(CallsOf(o)) + 1
          BY <2>5, <3>1, FS_AddElement
      <3>3. CASE m = "pop"
          BY <2>5, <3>2, <3>3 DEF One
      <3>4. CASE m = "returnedTrue"
          BY <2>5, <3>1, <3>4 DEF One
      <3> QED BY <3>3, <3>4
    <2>7. One(Listed(o)') = One(m = "returnedTrue") /\ One(Listed(o)) = 0
        BY <1>8, <1>9 DEF One
    <2>8. RefsOf(o)' = RefsOf(o) + 1 /\ \A p \in Objects \ {o} : RefsOf(p)' = RefsOf(p)
      <3>1. \A p \in Objects \ {o} : RefsOf(p)' = RefsOf(p)
          BY <1>4, <1>9, <2>3, <2>4, <2>5 DEF RefsOf, One
      <3>2. /\ Cardinality(TasksOf(o)) \in Nat /\ Cardinality(CallsOf(o)) \in Nat
            /\ Cardinality(GuestsOf(o)) \in Nat
          BY <2>1, Finite
      <3>3. /\ Cardinality(TasksOf(o))' = Cardinality(TasksOf(o))
            /\ Cardinality(GuestsOf(o))' = Cardinality(GuestsOf(o))
          BY <2>3, <2>4
      <3>4. One(owned[o])' = One(owned[o]) /\ One(owned[o]) \in Nat
            /\ One(m = "pop") + One(m = "returnedTrue") = 1
            /\ One(m = "pop") \in Nat /\ One(m = "returnedTrue") \in Nat
          BY <1>4 DEF One
      <3>5. RefsOf(o)' = RefsOf(o) + 1
          BY <2>6, <2>7, <3>2, <3>3, <3>4 DEF RefsOf
      <3> QED BY <3>1, <3>5
    <2>9. /\ refs' \in [Objects -> Int]
          /\ refs'[o] = IF Counted(o) THEN refs[o] + 1 ELSE refs[o]
          /\ \A p \in Objects \ {o} : refs'[p] = refs[p]
        BY <1>1 DEF Claim, AddRef, LifeInv, RefsExact
    <2>10. \A p \in Objects : refs'[p] = IF Counted(p) THEN RefsOf(p)' ELSE 1
        BY <2>8, <2>9 DEF LifeInv, RefsExact
    <2>11. /\ \A u \in Tasks : pc'[u] \in FlushPcs /\ won'[u] => cur'[u] = target'[u]
           /\ \A u \in Tasks : pc'[u] = "claim" => won'[u]
           /\ owned' \in [Objects -> BOOLEAN]
        BY <1>1, <1>4, <1>5, <1>6 DEF LifeInv, RefsExact
    <2> QED BY <2>1, <2>9, <2>10, <2>11 DEF RefsExact, Counted, Kind
  <1> QED BY <1>10, <1>11, <1>12, <1>13, <1>14 DEF LifeInv

LEMMA Less ==
    ASSUME NEW S, IsFiniteSet(S), NEW x
    PROVE  Cardinality(S \ {x}) = Cardinality(S) - One(x \in S) /\ Cardinality(S) \in Nat
  <1>1. Cardinality(S) \in Nat
      BY FS_CardinalityType
  <1>2. CASE x \in S
      BY <1>1, <1>2, FS_RemoveElement DEF One
  <1>3. CASE x \notin S
    <2>1. S \ {x} = S
        BY <1>3
    <2>2. Cardinality(S \ {x}) = Cardinality(S) /\ One(x \in S) = 0
        BY <1>3, <2>1 DEF One
    <2> QED BY <1>1, <2>2
  <1> QED BY <1>2, <1>3

(* The call drops the reference of the pending object that it has flushed  *)
(* and takes the next with the reference that is in the list, or drops its *)
(* own as well and returns.                                                *)
LEMMA EndFlushLife ==
    ASSUME Typed, Typed', Roles, LifeInv, NEW th \in Threads, NEW t \in Tasks, EndFlush(th, t)
    PROVE  LifeInv'
  <1>1. PICK o \in Objects, c \in Objects : o = target[t] /\ c = cur[t]
      BY DEF EndFlush, At, Typed, FlushPcs
  <1>2. PICK k \in Kinds : k = Kind(o)
      BY KindAssumption DEF Kind
  <1>3. PICK guest \in BOOLEAN : guest <=> ~won[t]
      OBVIOUS
  <1>4. PICK rest : rest = IF guest THEN DropRef(refs, c) ELSE refs
      OBVIOUS
  <1>5. PICK m \in {"returnedTrue", "pop"} :
            /\ Goto(t, m) \/ Return(th, t, m)
            /\ m = "returnedTrue" =>
                 /\ pending[th][k] = <<>> /\ refs' = DropRef(rest, o)
                 /\ flag' = [flag EXCEPT ![th][k] = FALSE]
                 /\ Return(th, t, m) /\ UNCHANGED <<cur, pending>>
            /\ m = "pop" =>
                 /\ pending[th][k] # <<>> /\ refs' = rest
                 /\ cur' = [cur EXCEPT ![t] = Head(pending[th][k])]
                 /\ pending' = [pending EXCEPT ![th][k] = Tail(@)]
                 /\ Goto(t, m) /\ UNCHANGED flag
    <2>1. CASE /\ pending[th][k] = <<>> /\ refs' = DropRef(rest, o)
               /\ flag' = [flag EXCEPT ![th][k] = FALSE]
               /\ Return(th, t, "returnedTrue") /\ UNCHANGED <<cur, pending>>
        BY <2>1
    <2>2. CASE /\ pending[th][k] # <<>> /\ refs' = rest
               /\ cur' = [cur EXCEPT ![t] = Head(pending[th][k])]
               /\ pending' = [pending EXCEPT ![th][k] = Tail(@)]
               /\ Goto(t, "pop") /\ UNCHANGED flag
        BY <2>2
    <2>3. rest = IF won[t] THEN refs ELSE DropRef(refs, cur[t])
        BY <1>1, <1>3, <1>4
    <2> QED BY <1>1, <1>2, <2>1, <2>2, <2>3 DEF EndFlush
  <1>6. /\ pc[t] = "flushed" /\ pc'[t] = m /\ \A u \in Tasks \ {t} : pc'[u] = pc[u]
        /\ UNCHANGED <<count, queue, owned, target, run, done>>
        /\ ~won'[t] /\ \A u \in Tasks \ {t} : won'[u] = won[u]
        /\ t \in Items(stack[th])
    <2>1. /\ UNCHANGED <<count, queue, owned, target, run, done>>
          /\ won' = [won EXCEPT ![t] = FALSE]
        BY DEF EndFlush, objVars
    <2>2. ~won'[t] /\ \A u \in Tasks \ {t} : won'[u] = won[u]
        BY <2>1 DEF Typed
    <2>3. At(th, t, "flushed")
        BY DEF EndFlush
    <2>4. Goto(t, m) \/ Return(th, t, m)
        BY <1>5
    <2>5. /\ pc[t] = "flushed" /\ pc'[t] = m /\ \A u \in Tasks \ {t} : pc'[u] = pc[u]
          /\ t \in Items(stack[th])
        BY <2>3, <2>4, Moves
    <2> QED BY <2>1, <2>2, <2>5
  <1>7. /\ {"pop", "flushed"} \subseteq ActivePcs /\ "returnedTrue" \notin ActivePcs
        /\ {"pop", "flushed"} \subseteq FlushPcs /\ "returnedTrue" \notin FlushPcs
        /\ {"flushed", "returnedTrue", "pop"} \cap FreshPcs = {}
      BY DEF ActivePcs, FlushPcs, FreshPcs
  <1>8. \A u \in Tasks \ {t} : cur'[u] = cur[u]
      BY <1>5 DEF Typed
  <1>9. PICK h : h = Head(pending[th][k])
      OBVIOUS
  <1>10. /\ pending \in [Threads -> [Kinds -> Seq(Objects)]] /\ pending[th][k] \in Seq(Objects)
         /\ m = "pop" => /\ h \in Objects /\ cur'[t] = h
                         /\ pending'[th][k] = Tail(pending[th][k])
                         /\ \A x \in Threads, j \in Kinds :
                               x # th \/ j # k => pending'[x][j] = pending[x][j]
    <2>1. pending \in [Threads -> [Kinds -> Seq(Objects)]] /\ pending[th][k] \in Seq(Objects)
        BY DEF Typed
    <2>2. ASSUME m = "pop"
          PROVE  /\ h \in Objects /\ cur'[t] = h
                 /\ pending'[th][k] = Tail(pending[th][k])
                 /\ \A x \in Threads, j \in Kinds :
                       x # th \/ j # k => pending'[x][j] = pending[x][j]
      <3>1. /\ pending[th][k] # <<>> /\ cur' = [cur EXCEPT ![t] = h]
            /\ pending' = [pending EXCEPT ![th][k] = Tail(@)]
          BY <1>5, <1>9, <2>2
      <3>2. h \in Objects
          BY <1>9, <2>1, <3>1
      <3>3. cur'[t] = h
          BY <3>1 DEF Typed
      <3> QED BY <2>1, <3>1, <3>2, <3>3
    <2> QED BY <2>1, <2>2
  (* The head was in one place only.                                       *)
  <1>11. /\ m = "pop" => Listed(h) /\ ~Listed(h)'
         /\ \A p \in Objects : (m = "pop" => p # h) => (Listed(p)' <=> Listed(p))
    <2>1. CASE m = "returnedTrue"
        BY <1>5, <2>1 DEF Listed, Places
    <2>2. CASE m = "pop"
      <3>1. \A p : Listed(p) <=> \E x \in Threads, j \in Kinds : p \in Items(pending[x][j])
          BY DEF Listed, Places, Items
      <3>2. \A p : Listed(p)' <=> \E x \in Threads, j \in Kinds : p \in Items(pending'[x][j])
          BY DEF Listed, Places, Items
      <3>3. Distinct(pending[th][k])
          BY DEF Roles, ListsInv, Places, Distinct
      <3>4. pending[th][k] # <<>>
          BY <1>5, <2>2
      <3>5. /\ Items(pending[th][k]) = Items(pending'[th][k]) \cup {h}
            /\ h \notin Items(pending'[th][k])
          BY <1>9, <1>10, <2>2, <3>3, <3>4, TailItems
      <3>6. \A x \in Threads, j \in Kinds : x # th \/ j # k => h \notin Items(pending[x][j])
        <4>1. \A x, y \in Threads, i, j \in Kinds :
                 (\E p : p \in Items(pending[x][i]) /\ p \in Items(pending[y][j])) => x = y /\ i = j
            BY DEF Roles, ListsInv, Places, Items
        <4>2. h \in Items(pending[th][k])
            BY <3>5
        <4> QED BY <4>1, <4>2
      <3>7. Listed(h)
          BY <3>1, <3>5
      <3>8. ~Listed(h)'
        <4>1. \A x \in Threads, j \in Kinds : h \notin Items(pending'[x][j])
            BY <1>10, <2>2, <3>5, <3>6
        <4> QED BY <3>2, <4>1
      <3>9. ASSUME NEW p \in Objects \ {h} PROVE Listed(p)' <=> Listed(p)
        <4>1. \A x \in Threads, j \in Kinds :
                 p \in Items(pending'[x][j]) <=> p \in Items(pending[x][j])
            BY <1>10, <2>2, <3>5
        <4> QED BY <3>1, <3>2, <4>1
      <3> QED BY <2>2, <3>7, <3>8, <3>9
    <2> QED BY <2>1, <2>2
  <1>12. LinesInv'
    <2>1. \A u \in Tasks : pc[u] \notin FreshPcs => pc'[u] \notin FreshPcs
        BY <1>6, <1>7
    <2>2. \A u \in Tasks : pc'[u] \in {"link", "claim"} => pc[u] \in {"link", "claim"}
        BY <1>5, <1>6
    <2>3. \A u \in Tasks : pc'[u] = "run" => u # t /\ pc[u] = "run" /\ cur'[u] = cur[u]
        BY <1>5, <1>6, <1>8
    <2> QED BY <1>6, <2>1, <2>2, <2>3 DEF LifeInv, LinesInv
  <1>13. StackInv' /\ \A x \in Threads : Items(stack[x]) \ {t} \subseteq Items(stack'[x])
         /\ (m = "pop" => stack' = stack)
    <2>1. At(th, t, "flushed")
        BY DEF EndFlush
    <2>2. CASE m = "pop"
        BY <1>5, <1>7, <2>1, <2>2, StackGoto DEF LifeInv
    <2>3. CASE m = "returnedTrue"
        BY <1>5, <1>7, <2>1, <2>3, StackDone DEF LifeInv
    <2> QED BY <2>2, <2>3
  <1>14. FlagInv'
    <2>1. \A x \in Threads : \A u \in Items(stack[x]) : u \in Tasks
        BY DEF LifeInv, StackInv
    <2>2. CASE m = "pop"
      <3>1. \A x \in Threads, j \in Kinds : pending'[x][j] # <<>> => flag[x][j]
        <4>1. flag[th][k] /\ \A x \in Threads, j \in Kinds : pending[x][j] # <<>> => flag[x][j]
            BY <1>5, <2>2 DEF LifeInv, FlagInv
        <4> QED BY <1>10, <2>2, <4>1
      <3>2. \A x \in Threads : \A u \in Items(stack[x]) :
              pc[u] \in FlushPcs => /\ u \in Items(stack'[x]) /\ pc'[u] \in FlushPcs
                                    /\ target'[u] = target[u]
          BY <1>6, <1>7, <1>13, <2>1, <2>2
      <3> QED BY <1>5, <2>2, <3>1, <3>2, FlagsHeld DEF LifeInv
    <2>3. CASE m = "returnedTrue"
      <3>1. /\ ~flag'[th][k] /\ pending[th][k] = <<>> /\ pending' = pending
            /\ \A x \in Threads, j \in Kinds : x # th \/ j # k => flag'[x][j] = flag[x][j]
          BY <1>5, <2>3 DEF Typed
      <3>2. \A x \in Threads, j \in Kinds : pending'[x][j] # <<>> => flag'[x][j]
          BY <3>1 DEF LifeInv, FlagInv
      <3>3. \A x \in Threads, j \in Kinds : flag'[x][j] =>
              \E u \in Items(stack'[x]) : pc'[u] \in FlushPcs /\ Kind(target'[u]) = j
        <4> SUFFICES ASSUME NEW x \in Threads, NEW j \in Kinds, flag'[x][j]
                     PROVE  \E u \in Items(stack'[x]) : pc'[u] \in FlushPcs /\ Kind(target'[u]) = j
            OBVIOUS
        <4>1. (x # th \/ j # k) /\ flag[x][j]
            BY <3>1
        <4>2. PICK u \in Items(stack[x]) : pc[u] \in FlushPcs /\ Kind(target[u]) = j
            BY <4>1 DEF LifeInv, FlagInv
        <4>3. u # t
          <5>1. CASE x = th
              BY <1>1, <1>2, <4>1, <4>2, <5>1
          <5>2. CASE x # th
            <6>1. Items(stack[x]) \cap Items(stack[th]) = {}
                BY <5>2 DEF LifeInv, StackInv
            <6> QED BY <1>6, <6>1
          <5> QED BY <5>1, <5>2
        <4>4. u \in Tasks /\ u \in Items(stack'[x])
            BY <1>13, <2>1, <4>3
        <4> QED BY <1>6, <4>2, <4>3, <4>4
      <3> QED BY <3>2, <3>3 DEF FlagInv, Kind
    <2> QED BY <2>2, <2>3
  <1>15. CountInv'
    <2>1. \A p \in Objects : Waiting(p)' = Waiting(p) /\ (Finished(p)' <=> Finished(p))
        BY <1>6, <1>8 DEF Waiting, Finished
    <2>2. \A p \in Objects : count'[p] = Cardinality(Waiting(p)') + One(Finished(p)')
        BY <1>6, <2>1 DEF LifeInv, CountInv, One
    <2>3. /\ \A u \in Tasks : Elected(u) => Elected(u)' /\ target'[u] = target[u]
          /\ \A u \in Tasks : Flushing(u) => Flushing(u)' /\ cur'[u] = cur[u]
          /\ m = "pop" => Flushing(t)' /\ cur'[t] = h
        BY <1>6, <1>8, <1>10 DEF Elected, Flushing
    <2>4. \A p \in Objects : count'[p] > 0 =>
             \/ Listed(p)'
             \/ \E u \in Tasks : Elected(u)' /\ target'[u] = p
             \/ \E u \in Tasks : Flushing(u)' /\ cur'[u] = p
      <3> SUFFICES ASSUME NEW p \in Objects, count'[p] > 0
                   PROVE  \/ Listed(p)'
                          \/ \E u \in Tasks : Elected(u)' /\ target'[u] = p
                          \/ \E u \in Tasks : Flushing(u)' /\ cur'[u] = p
          OBVIOUS
      <3>1. CASE m = "pop" /\ p = h
          BY <2>3, <3>1
      <3>2. CASE m = "pop" => p # h
        <4>1. count[p] > 0 /\ (Listed(p)' <=> Listed(p))
            BY <1>6, <1>11, <3>2
        <4> QED BY <2>3, <4>1 DEF LifeInv, CountInv
      <3> QED BY <3>1, <3>2
    <2> QED BY <2>2, <2>4 DEF CountInv
  <1>16. RefsExact'
    <2>1. Issued' = Issued /\ IsFiniteSet(Issued) /\ t \in Issued
        BY <1>5, <1>6 DEF Issued, LifeInv, RefsExact
    <2>2. \A u \in Issued \ {t} : /\ u \in Tasks /\ (pc'[u] \in FlushPcs <=> pc[u] \in FlushPcs)
                                  /\ won'[u] = won[u] /\ cur'[u] = cur[u]
        BY <1>6, <1>8 DEF Issued
    <2>3. \A p \in Objects : TasksOf(p)' = TasksOf(p)
        BY <1>6, <2>1 DEF TasksOf
    <2>4. \A p \in Objects :
             /\ t \in CallsOf(p) <=> p = o
             /\ t \in GuestsOf(p) <=> guest /\ p = c
             /\ t \in CallsOf(p)' <=> m = "pop" /\ p = o
             /\ t \in GuestsOf(p)' <=> m = "pop" /\ p = h
      <3>1. \A p \in Objects : /\ t \in CallsOf(p) <=> p = o
                               /\ t \in GuestsOf(p) <=> guest /\ p = c
          BY <1>1, <1>3, <1>6, <1>7, <2>1 DEF CallsOf, GuestsOf
      <3>2. \A p \in Objects : t \in CallsOf(p)' <=> m = "pop" /\ p = o
          BY <1>1, <1>5, <1>6, <1>7, <2>1 DEF CallsOf
      <3>3. \A p \in Objects : t \in GuestsOf(p)' <=> m = "pop" /\ p = h
          BY <1>5, <1>6, <1>7, <1>10, <2>1 DEF GuestsOf
      <3> QED BY <3>1, <3>2, <3>3
    <2>5. \A p \in Objects : CallsOf(p)' \ {t} = CallsOf(p) \ {t}
        BY <1>6, <2>1, <2>2 DEF CallsOf
    <2>6. \A p \in Objects : GuestsOf(p)' \ {t} = GuestsOf(p) \ {t}
        BY <1>6, <2>1, <2>2 DEF GuestsOf
    <2>7. \A p \in Objects :
             /\ Cardinality(CallsOf(p)') - One(m = "pop" /\ p = o)
                   = Cardinality(CallsOf(p)) - One(p = o)
             /\ Cardinality(GuestsOf(p)') - One(m = "pop" /\ p = h)
                   = Cardinality(GuestsOf(p)) - One(guest /\ p = c)
             /\ Cardinality(CallsOf(p)') \in Nat /\ Cardinality(GuestsOf(p)') \in Nat
      <3> SUFFICES ASSUME NEW p \in Objects
                   PROVE  /\ Cardinality(CallsOf(p)') - One(m = "pop" /\ p = o)
                               = Cardinality(CallsOf(p)) - One(p = o)
                          /\ Cardinality(GuestsOf(p)') - One(m = "pop" /\ p = h)
                               = Cardinality(GuestsOf(p)) - One(guest /\ p = c)
                          /\ Cardinality(CallsOf(p)') \in Nat /\ Cardinality(GuestsOf(p)') \in Nat
          OBVIOUS
      <3>1. /\ IsFiniteSet(CallsOf(p)) /\ IsFiniteSet(GuestsOf(p))
            /\ IsFiniteSet(CallsOf(p)') /\ IsFiniteSet(GuestsOf(p)')
        <4>1. CallsOf(p)' \subseteq Issued /\ GuestsOf(p)' \subseteq Issued
            BY <2>1 DEF CallsOf, GuestsOf
        <4> QED BY <2>1, <4>1, Finite, FS_Subset
      <3>2. /\ Cardinality(CallsOf(p)' \ {t}) = Cardinality(CallsOf(p)') - One(t \in CallsOf(p)')
            /\ Cardinality(CallsOf(p) \ {t}) = Cardinality(CallsOf(p)) - One(t \in CallsOf(p))
            /\ Cardinality(CallsOf(p)') \in Nat
          BY <3>1, Less
      <3>3. /\ Cardinality(GuestsOf(p)' \ {t}) = Cardinality(GuestsOf(p)') - One(t \in GuestsOf(p)')
            /\ Cardinality(GuestsOf(p) \ {t}) = Cardinality(GuestsOf(p)) - One(t \in GuestsOf(p))
            /\ Cardinality(GuestsOf(p)') \in Nat
          BY <3>1, Less
      <3>4. /\ One(t \in CallsOf(p)) = One(p = o)
            /\ One(t \in GuestsOf(p)) = One(guest /\ p = c)
            /\ One(t \in CallsOf(p)') = One(m = "pop" /\ p = o)
            /\ One(t \in GuestsOf(p)') = One(m = "pop" /\ p = h)
          BY <2>4 DEF One
      <3> QED BY <2>5, <2>6, <3>2, <3>3, <3>4
    <2>8. \A p \in Objects : One(Listed(p)') = One(Listed(p)) - One(m = "pop" /\ p = h)
        BY <1>11 DEF One
    (* Both references that can go.                                        *)
    <2>9. \A p \in Objects :
             RefsOf(p)' = RefsOf(p) - One(guest /\ p = c) - One(m = "returnedTrue" /\ p = o)
      <3> SUFFICES ASSUME NEW p \in Objects
                   PROVE  RefsOf(p)' = RefsOf(p) - One(guest /\ p = c)
                                                 - One(m = "returnedTrue" /\ p = o)
          OBVIOUS
      <3>1. /\ Cardinality(TasksOf(p)) \in Nat /\ Cardinality(CallsOf(p)) \in Nat
            /\ Cardinality(GuestsOf(p)) \in Nat
          BY <2>1, Finite
      <3>2. Cardinality(TasksOf(p))' = Cardinality(TasksOf(p))
          BY <2>3
      <3>3. /\ One(owned[p])' = One(owned[p]) /\ One(owned[p]) \in Nat /\ One(Listed(p)) \in Nat
            /\ One(p = o) - One(m = "pop" /\ p = o) = One(m = "returnedTrue" /\ p = o)
            /\ One(m = "pop" /\ p = o) \in Nat /\ One(p = o) \in Nat
            /\ One(guest /\ p = c) \in Nat /\ One(m = "pop" /\ p = h) \in Nat
          BY <1>6 DEF One
      <3>4. One(Listed(p)') = One(Listed(p)) - One(m = "pop" /\ p = h)
          BY <2>8
      <3> DEFINE own   == One(p = o)
                 stays == One(m = "pop" /\ p = o)
                 ends  == One(m = "returnedTrue" /\ p = o)
                 drops == One(guest /\ p = c)
                 takes == One(m = "pop" /\ p = h)
      <3>5. /\ Cardinality(CallsOf(p)') - stays = Cardinality(CallsOf(p)) - own
            /\ Cardinality(GuestsOf(p)') - takes = Cardinality(GuestsOf(p)) - drops
            /\ Cardinality(CallsOf(p)') \in Nat /\ Cardinality(GuestsOf(p)') \in Nat
            /\ One(Listed(p)') = One(Listed(p)) - takes
            /\ own - stays = ends
            /\ own \in Nat /\ stays \in Nat /\ drops \in Nat /\ takes \in Nat
            /\ One(owned[p])' = One(owned[p]) /\ One(owned[p]) \in Nat /\ One(Listed(p)) \in Nat
          BY <2>7, <3>3, <3>4
      <3> HIDE DEF own, stays, ends, drops, takes
      <3>6. RefsOf(p)' = RefsOf(p) - drops - ends
          BY <3>1, <3>2, <3>5 DEF RefsOf
      <3> QED BY <3>6 DEF drops, ends
    <2>10. /\ refs' \in [Objects -> Int]
           /\ \A p \in Objects : refs'[p] =
                IF Counted(p) THEN refs[p] - One(guest /\ p = c) - One(m = "returnedTrue" /\ p = o)
                ELSE refs[p]
      <3>1. refs \in [Objects -> Int]
          BY DEF LifeInv, RefsExact
      <3>2. /\ rest \in [Objects -> Int]
            /\ \A p \in Objects : rest[p] =
                  IF Counted(p) THEN refs[p] - One(guest /\ p = c) ELSE refs[p]
          BY <1>4, <3>1 DEF DropRef, One
      <3>3. CASE m = "pop"
          BY <1>5, <3>2, <3>3 DEF One
      <3>4. CASE m = "returnedTrue"
        <4>1. refs' = DropRef(rest, o)
            BY <1>5, <3>4
        <4> QED BY <3>1, <3>2, <3>4, <4>1 DEF DropRef, One
      <3> QED BY <3>3, <3>4
    <2>11. \A p \in Objects : refs'[p] = IF Counted(p) THEN RefsOf(p)' ELSE 1
        BY <2>9, <2>10 DEF LifeInv, RefsExact
    <2>12. /\ \A u \in Tasks : pc'[u] \in FlushPcs /\ won'[u] => cur'[u] = target'[u]
           /\ \A u \in Tasks : pc'[u] = "claim" => won'[u]
           /\ owned' \in [Objects -> BOOLEAN]
        BY <1>5, <1>6, <1>8 DEF LifeInv, RefsExact
    <2> QED BY <2>1, <2>10, <2>11, <2>12 DEF RefsExact, Counted, Kind
  <1> QED BY <1>12, <1>13, <1>14, <1>15, <1>16 DEF LifeInv

LEMMA InitLife == Init => LifeInv
  <1> SUFFICES ASSUME Init PROVE LifeInv
      OBVIOUS
  <1>1. LinesInv
      BY EmptyItems DEF Init, LinesInv, FreshPcs
  <1>2. StackInv /\ FlagInv
      BY EmptyItems DEF Init, StackInv, FlagInv, ActivePcs, FlushPcs
  <1>3. \A o \in Objects : /\ Waiting(o) = {} /\ ~Finished(o) /\ ~Listed(o)
                           /\ TasksOf(o) = {} /\ CallsOf(o) = {} /\ GuestsOf(o) = {}
      BY DEF Init, Waiting, Finished, Listed, Places, TasksOf, CallsOf, GuestsOf, Issued
  <1>4. IsFiniteSet({}) /\ Cardinality({}) = 0
      BY FS_EmptySet
  <1>5. CountInv
    <2>1. \A o \in Objects : count[o] = 0
        BY DEF Init
    <2>2. \A o \in Objects : One(Finished(o)) = 0 /\ Cardinality(Waiting(o)) = 0
        BY <1>3, <1>4 DEF One
    <2> QED BY <2>1, <2>2 DEF CountInv
  <1>6. RefsExact
    <2>1. Issued = {}
        BY DEF Init, Issued
    <2>2. \A o \in Objects : owned[o] = TRUE /\ refs[o] = 1
        BY DEF Init
    <2>3. \A o \in Objects : RefsOf(o) = 1
        BY <1>3, <1>4, <2>2 DEF RefsOf, One
    <2>4. refs \in [Objects -> Int] /\ owned \in [Objects -> BOOLEAN]
        BY DEF Init
    <2>5. \A t \in Tasks : pc[t] = "new" /\ pc[t] \notin FlushPcs
        BY DEF Init, FlushPcs
    <2> QED BY <1>4, <2>1, <2>2, <2>3, <2>4, <2>5 DEF RefsExact
  <1> QED BY <1>1, <1>2, <1>5, <1>6 DEF LifeInv

LEMMA LifeStep == ConsumerInv /\ ConsumerInv' /\ LifeInv /\ [Next]_vars => LifeInv'
  <1> SUFFICES ASSUME Typed, Typed', Roles, LifeInv, [Next]_vars PROVE LifeInv'
      BY DEF ConsumerInv, Roles
  <1>1. ASSUME NEW th \in Threads, NEW t \in Tasks, Step(th, t)
        PROVE  LifeInv'
      BY <1>1, IncrementLife, PushSwapLife, PushLinkLife, ClaimLife, PopLife,
         FinishTaskLife, DecrementLife, EndFlushLife DEF Step
  <1>2. ASSUME NEW th \in Threads, NEW t \in Tasks, NEW o \in Objects,
               DoAsync(th, t, o) \/ DoAsyncAfter(th, t, o)
        PROVE  LifeInv'
      BY <1>2, DoAsyncLife, DoAsyncAfterLife
  <1>3. ASSUME NEW th \in Threads, NEW t \in Tasks, DispatchDelayed(th, t)
        PROVE  LifeInv'
      BY <1>3, DispatchDelayedLife
  <1>4. ASSUME NEW o \in Objects, Disown(o)
        PROVE  LifeInv'
      BY <1>4, DisownLife
  <1>5. CASE UNCHANGED vars
    <2>1. UNCHANGED <<count, queue, refs, owned, flag, pending, stack, pc, target, won, cur, run, done>>
        BY <1>5 DEF vars, objVars, threadVars
    <2>2. LinesInv' /\ StackInv' /\ FlagInv'
      <3>1. LinesInv'
          BY <2>1 DEF LifeInv, LinesInv
      <3>2. StackInv'
          BY <2>1 DEF LifeInv, StackInv
      <3>3. FlagInv'
          BY <2>1 DEF LifeInv, FlagInv, Kind
      <3> QED BY <3>1, <3>2, <3>3
    <2>3. /\ \A p \in Objects : Waiting(p)' = Waiting(p) /\ (Finished(p)' <=> Finished(p))
          /\ \A u \in Tasks : Elected(u)' = Elected(u) /\ Flushing(u)' = Flushing(u)
        BY <2>1 DEF Waiting, Finished, Elected, Flushing
    <2>4. CountInv'
        BY <2>1, <2>3, CountsStay DEF LifeInv
    <2>5. /\ Issued' = Issued
          /\ \A p \in Objects : /\ TasksOf(p)' = TasksOf(p) /\ CallsOf(p)' = CallsOf(p)
                                /\ GuestsOf(p)' = GuestsOf(p) /\ (Listed(p)' <=> Listed(p))
        BY <2>1 DEF Issued, TasksOf, CallsOf, GuestsOf, Listed, Places
    <2>6. /\ \A u \in Tasks : pc'[u] \in FlushPcs /\ won'[u] => cur'[u] = target'[u]
          /\ \A u \in Tasks : pc'[u] = "claim" => won'[u]
        BY <2>1 DEF LifeInv, RefsExact
    <2>7. RefsExact'
        BY <2>1, <2>5, <2>6, RefsStay DEF LifeInv
    <2> QED BY <2>2, <2>4, <2>7 DEF LifeInv
  <1> QED BY <1>1, <1>2, <1>3, <1>4, <1>5 DEF Next

LEMMA LifeInvariant == Spec => [](ConsumerInv /\ LifeInv)
  <1>1. Init => ConsumerInv /\ LifeInv
      BY InitRoles, InitLife
  <1>2. ConsumerInv /\ LifeInv /\ [Next]_vars => (ConsumerInv /\ LifeInv)'
      BY RolesStep, LifeStep
  <1> QED BY <1>1, <1>2, PTL DEF Spec

(***************************************************************************)
(* What it comes to: who uses an object holds a reference to it.           *)
(***************************************************************************)
LEMMA HeldIsAlive ==
    ASSUME LifeInv, NEW o \in Objects
    PROVE  /\ refs[o] \in Nat
           /\ TasksOf(o) # {} \/ CallsOf(o) # {} \/ GuestsOf(o) # {} \/ Listed(o) => refs[o] > 0
  <1>1. /\ IsFiniteSet(TasksOf(o)) /\ IsFiniteSet(CallsOf(o)) /\ IsFiniteSet(GuestsOf(o))
        /\ Cardinality(TasksOf(o)) \in Nat /\ Cardinality(CallsOf(o)) \in Nat
        /\ Cardinality(GuestsOf(o)) \in Nat
      BY Finite DEF LifeInv, RefsExact
  <1>2. /\ TasksOf(o) # {} => Cardinality(TasksOf(o)) # 0
        /\ CallsOf(o) # {} => Cardinality(CallsOf(o)) # 0
        /\ GuestsOf(o) # {} => Cardinality(GuestsOf(o)) # 0
      BY <1>1, FS_EmptySet
  <1>3. One(owned[o]) \in {0, 1} /\ One(Listed(o)) \in {0, 1} /\ (Listed(o) => One(Listed(o)) = 1)
      BY DEF One
  <1>4. refs[o] = IF Counted(o) THEN RefsOf(o) ELSE 1
      BY DEF LifeInv, RefsExact
  <1> DEFINE own   == One(owned[o])
             place == One(Listed(o))
  <1>5. own \in {0, 1} /\ place \in {0, 1} /\ (Listed(o) => place = 1)
      BY <1>3
  <1>6. RefsOf(o) = Cardinality(TasksOf(o)) + Cardinality(CallsOf(o)) + Cardinality(GuestsOf(o))
                    + own + place
      BY DEF RefsOf
  <1> HIDE DEF own, place
  <1> QED BY <1>1, <1>2, <1>4, <1>5, <1>6

LEMMA AliveInUse == ConsumerInv /\ LifeInv => NoUseAfterFree
  <1> SUFFICES ASSUME Typed, LifeInv PROVE NoUseAfterFree
      BY DEF ConsumerInv
  <1>1. refs \in [Objects -> Nat]
    <2>1. \A o \in Objects : refs[o] \in Nat
        BY HeldIsAlive
    <2> QED BY <2>1 DEF LifeInv, RefsExact
  <1>2. ASSUME NEW t \in Tasks, pc[t] \in {"delayed", "increment", "swap", "link", "claim"}
        PROVE  refs[target[t]] > 0
    <2>1. target[t] \in Objects /\ t \in Issued
        BY <1>2 DEF Typed, Issued
    <2>2. t \notin done
      <3>1. CASE pc[t] \in {"delayed", "increment", "swap"}
          BY <3>1 DEF LifeInv, LinesInv, FreshPcs
      <3>2. CASE pc[t] \in {"link", "claim"}
          BY <2>1, <3>2 DEF LifeInv, LinesInv
      <3> QED BY <1>2, <3>1, <3>2
    <2>3. t \in TasksOf(target[t])
        BY <2>1, <2>2 DEF TasksOf
    <2> QED BY <2>1, <2>3, HeldIsAlive
  <1>3. ASSUME NEW t \in Tasks, pc[t] \in FlushPcs
        PROVE  refs[cur[t]] > 0 /\ refs[target[t]] > 0
    <2>1. target[t] \in Objects /\ cur[t] \in Objects /\ t \in Issued
        BY <1>3 DEF Typed, Issued, FlushPcs
    <2>2. t \in CallsOf(target[t])
        BY <1>3, <2>1 DEF CallsOf
    <2>3. refs[target[t]] > 0
        BY <2>1, <2>2, HeldIsAlive
    <2>4. CASE won[t]
        BY <1>3, <2>3, <2>4 DEF LifeInv, RefsExact
    <2>5. CASE ~won[t]
      <3>1. t \in GuestsOf(cur[t])
          BY <1>3, <2>1, <2>5 DEF GuestsOf
      <3> QED BY <2>1, <2>3, <3>1, HeldIsAlive
    <2> QED BY <2>4, <2>5
  <1>4. ASSUME NEW th \in Threads, NEW k \in Kinds, NEW i \in DOMAIN pending[th][k]
        PROVE  refs[pending[th][k][i]] > 0
    <2>1. pending[th][k] \in Seq(Objects)
        BY DEF Typed
    <2>2. i \in Places(th, k) /\ pending[th][k][i] \in Objects
        BY <2>1 DEF Places
    <2>3. Listed(pending[th][k][i])
        BY <2>2 DEF Listed
    <2> QED BY <2>2, <2>3, HeldIsAlive
  <1> QED BY <1>1, <1>2, <1>3, <1>4 DEF NoUseAfterFree

LEMMA NothingLeft == ConsumerInv /\ LifeInv => AllReturned
  <1> SUFFICES ASSUME Typed, LifeInv, \A th \in Threads : Idle(th)
               PROVE  /\ \A o \in Objects : count[o] = 0 /\ queue[o] = <<>>
                      /\ \A th \in Threads, k \in Kinds : ~flag[th][k] /\ pending[th][k] = <<>>
                      /\ \A t \in Tasks : pc[t] \in {"new", "delayed"} \/ t \in done
                      /\ \A o \in Objects :
                            Counted(o) /\ ~owned[o] /\ (\A t \in Tasks : pc[t] = "delayed" => target[t] # o)
                                => refs[o] = 0
      BY DEF ConsumerInv, AllReturned
  <1>1. \A th \in Threads : Items(stack[th]) = {}
      BY EmptyItems DEF Idle
  <1>2. \A t \in Tasks : pc[t] \notin ActivePcs
      BY <1>1 DEF LifeInv, StackInv
  <1>3. \A th \in Threads, k \in Kinds : ~flag[th][k] /\ pending[th][k] = <<>>
      BY <1>1 DEF LifeInv, FlagInv
  <1>4. \A o \in Objects : ~Listed(o)
      BY <1>3 DEF Listed, Places
  <1>5. \A o \in Objects : count[o] = 0
    <2>1. \A t \in Tasks : ~Elected(t) /\ ~Flushing(t)
        BY <1>2 DEF Elected, Flushing, ActivePcs, FlushPcs
    <2>2. \A o \in Objects : count[o] \in Nat /\ ~(count[o] > 0)
        BY <1>4, <2>1 DEF LifeInv, CountInv, Typed
    <2> QED BY <2>2
  <1>6. \A o \in Objects : Waiting(o) = {}
    <2> SUFFICES ASSUME NEW o \in Objects PROVE Waiting(o) = {}
        OBVIOUS
    <2>1. IsFiniteSet(Waiting(o)) /\ Cardinality(Waiting(o)) \in Nat
        BY Finite DEF LifeInv, RefsExact
    <2>2. count[o] = Cardinality(Waiting(o)) + One(Finished(o)) /\ One(Finished(o)) \in Nat
        BY DEF LifeInv, CountInv, One
    <2>3. Cardinality(Waiting(o)) = 0
        BY <1>5, <2>1, <2>2
    <2> QED BY <2>1, <2>3, FS_EmptySet
  <1>7. \A o \in Objects : queue[o] = <<>>
    <2> SUFFICES ASSUME NEW o \in Objects, queue[o] # <<>> PROVE FALSE
        OBVIOUS
    <2>1. queue[o] \in Seq(Tasks)
        BY DEF Typed
    <2>2. PICK t : t \in Items(queue[o])
        BY <2>1, TailItems
    <2>3. t \in Waiting(o)
        BY <2>2 DEF LifeInv, LinesInv, Waiting, FreshPcs
    <2> QED BY <1>6, <2>3
  <1>8. \A t \in Tasks : pc[t] \in {"new", "delayed"} \/ t \in done
    <2> SUFFICES ASSUME NEW t \in Tasks, pc[t] \notin {"new", "delayed"}, t \notin done
                 PROVE  FALSE
        OBVIOUS
    <2>1. target[t] \in Objects /\ pc[t] # "increment"
        BY <1>2 DEF Typed, ActivePcs
    <2>2. t \in Waiting(target[t])
        BY <2>1 DEF Waiting
    <2> QED BY <1>6, <2>1, <2>2
  <1>9. ASSUME NEW o \in Objects, Counted(o), ~owned[o],
               \A t \in Tasks : pc[t] = "delayed" => target[t] # o
        PROVE  refs[o] = 0
    <2>1. TasksOf(o) = {}
        BY <1>8, <1>9 DEF TasksOf, Issued
    <2>2. CallsOf(o) = {} /\ GuestsOf(o) = {}
        BY <1>2 DEF CallsOf, GuestsOf, Issued, ActivePcs
    <2>3. One(owned[o]) = 0 /\ One(Listed(o)) = 0 /\ Cardinality({}) = 0
        BY <1>4, <1>9, FS_EmptySet DEF One
    <2>4. refs[o] = RefsOf(o)
        BY <1>9 DEF LifeInv, RefsExact
    <2> QED BY <2>1, <2>2, <2>3, <2>4 DEF RefsOf
  <1> QED BY <1>3, <1>5, <1>7, <1>8, <1>9

(* Whatever the numbers of threads, objects, kinds and tasks: nobody uses  *)
(* an object without a reference, and when all calls of Dispatch have      *)
(* returned no task, flag, list entry or reference is left behind.         *)
THEOREM ObjectsLiveAsLongAsUsed == Spec => []ObjectLife
  <1>1. ConsumerInv /\ LifeInv => ObjectLife
      BY AliveInUse, NothingLeft DEF ObjectLife
  <1> QED BY <1>1, LifeInvariant, PTL

(***************************************************************************)
(* The refinement: a task is submitted by the swap, started by the pop and *)
(* finished by its return; every other step is none of AODSerial's.        *)
(***************************************************************************)
FreshTasks == {t \in Tasks : pc[t] \in FreshPcs}
RunOf(o)   == IF \E t \in Tasks : Runs(o, t)
              THEN run[CHOOSE t \in Tasks : Runs(o, t)] ELSE None
RunningNow == [o \in Objects |-> RunOf(o)]

LEMMA Mapping ==
    Serial!Init <=> /\ FreshTasks = Tasks
                    /\ queue = [o \in Objects |-> <<>>]
                    /\ RunningNow = [o \in Objects |-> None]
  <1> QED BY DEF Serial!Init, FreshTasks, FreshPcs, RunningNow, RunOf

RunFact ==
    \A o \in Objects :
        /\ \A t \in Tasks : Runs(o, t) => RunOf(o) = run[t]
        /\ (\A t \in Tasks : ~Runs(o, t)) => RunOf(o) = None

LEMMA RunOfRunning == ConsumerInv => RunFact
  <1> SUFFICES ASSUME ConsumerInv, NEW o \in Objects
               PROVE  /\ \A t \in Tasks : Runs(o, t) => RunOf(o) = run[t]
                      /\ (\A t \in Tasks : ~Runs(o, t)) => RunOf(o) = None
      BY DEF RunFact
  <1>1. \A t, u \in Tasks : Runs(o, t) /\ Runs(o, u) => t = u
      BY DEF ConsumerInv, CallsInv, Runs, Flushing
  <1>2. ASSUME NEW t \in Tasks, Runs(o, t) PROVE RunOf(o) = run[t]
    <2>1. (CHOOSE u \in Tasks : Runs(o, u)) = t
        BY <1>1, <1>2
    <2> QED BY <1>2, <2>1 DEF RunOf
  <1>3. ASSUME \A t \in Tasks : ~Runs(o, t) PROVE RunOf(o) = None
      BY <1>3 DEF RunOf
  <1> QED BY <1>2, <1>3

LEMMA InitSerial == Init => Serial!Init
  <1> SUFFICES ASSUME Init PROVE Serial!Init
      OBVIOUS
  <1>1. FreshTasks = Tasks /\ queue = [o \in Objects |-> <<>>]
      BY DEF Init, FreshTasks, FreshPcs
  <1>2. \A o \in Objects : RunOf(o) = None
    <2>1. \A o \in Objects, t \in Tasks : ~Runs(o, t)
        BY DEF Init, Runs
    <2> QED BY <2>1 DEF RunOf
  <1> QED BY <1>1, <1>2, Mapping DEF RunningNow

LEMMA RunOfRunningNext == ConsumerInv' => RunFact'
  <1> QED BY RunOfRunning, PTL

(* Only calls that begin or end to run a task matter.                      *)
LEMMA RunsKept ==
    ASSUME ConsumerInv, ConsumerInv', NEW o \in Objects,
           \A u \in Tasks : Runs(o, u)' <=> Runs(o, u),
           \A u \in Tasks : Runs(o, u) => run'[u] = run[u]
    PROVE  RunOf(o)' = RunOf(o)
  <1>1. CASE \E u \in Tasks : Runs(o, u)
    <2>1. PICK u \in Tasks : Runs(o, u)
        BY <1>1
    <2>2. RunOf(o) = run[u] /\ RunOf(o)' = run'[u]
        BY <2>1, RunOfRunning, RunOfRunningNext DEF RunFact
    <2> QED BY <2>1, <2>2
  <1>2. CASE \A u \in Tasks : ~Runs(o, u)
      BY <1>2, RunOfRunning, RunOfRunningNext DEF RunFact
  <1> QED BY <1>1, <1>2

LEMMA QuietSerial ==
    ASSUME ConsumerInv, ConsumerInv', NEW t \in Tasks,
           pc[t] \in FreshPcs <=> pc'[t] \in FreshPcs, pc[t] # "run", pc'[t] # "run",
           \A u \in Tasks \ {t} : pc'[u] = pc[u] /\ cur'[u] = cur[u],
           run' = run, queue' = queue
    PROVE  UNCHANGED Serial!vars
  <1>1. FreshTasks' = FreshTasks
      BY DEF FreshTasks
  <1>2. \A o \in Objects : RunOf(o)' = RunOf(o)
    <2>1. \A o \in Objects, u \in Tasks : Runs(o, u)' <=> Runs(o, u)
        BY DEF Runs
    <2> QED BY <2>1, RunsKept
  <1>3. RunningNow' = RunningNow
      BY <1>2 DEF RunningNow
  <1>4. UNCHANGED Serial!vars <=> /\ FreshTasks' = FreshTasks
                                  /\ queue' = queue
                                  /\ RunningNow' = RunningNow
      BY DEF Serial!vars, FreshTasks, FreshPcs, RunningNow, RunOf
  <1> QED BY <1>1, <1>3, <1>4

LEMMA SwapSerial ==
    ASSUME ConsumerInv, ConsumerInv', NEW th \in Threads, NEW t \in Tasks, PushSwap(th, t)
    PROVE  \E o \in Objects : Serial!Submit(t, o)
  <1>1. PICK o \in Objects : o = target[t]
      BY DEF PushSwap, At, ConsumerInv, Typed
  <1>2. /\ pc[t] = "swap" /\ pc'[t] = "link" /\ \A u \in Tasks \ {t} : pc'[u] = pc[u]
        /\ UNCHANGED <<cur, run>> /\ queue' = [queue EXCEPT ![o] = Append(@, t)]
    <2>1. UNCHANGED <<cur, run>> /\ queue' = [queue EXCEPT ![o] = Append(@, t)]
        BY <1>1 DEF PushSwap
    <2> QED BY ZenonT(40), <2>1, Moves DEF PushSwap, ConsumerInv
  <1>3. t \in FreshTasks /\ FreshTasks' = FreshTasks \ {t}
      BY <1>2 DEF FreshTasks, FreshPcs
  <1>4. \A p \in Objects : RunOf(p)' = RunOf(p)
    <2>1. \A p \in Objects, u \in Tasks : Runs(p, u)' <=> Runs(p, u)
        BY <1>2 DEF Runs
    <2> QED BY <1>2, <2>1, RunsKept
  <1>5. RunningNow' = RunningNow
      BY <1>4 DEF RunningNow
  <1>6. Serial!Submit(t, o) <=> /\ t \in FreshTasks
                                /\ FreshTasks' = FreshTasks \ {t}
                                /\ queue' = [queue EXCEPT ![o] = Append(@, t)]
                                /\ UNCHANGED RunningNow
      BY DEF Serial!Submit, FreshTasks, FreshPcs, RunningNow, RunOf
  <1> QED BY <1>2, <1>3, <1>5, <1>6

LEMMA PopSerial ==
    ASSUME ConsumerInv, ConsumerInv', NEW th \in Threads, NEW t \in Tasks, Pop(th, t), LinesInv
    PROVE  \E o \in Objects : Serial!Start(o)
  <1>1. PICK o \in Objects : o = cur[t]
      BY DEF Pop, At, ConsumerInv, Typed, FlushPcs
  <1>2. /\ pc[t] = "pop" /\ pc'[t] = "run" /\ \A u \in Tasks \ {t} : pc'[u] = pc[u]
        /\ cur' = cur /\ run' = [run EXCEPT ![t] = Head(queue[o])]
        /\ queue[o] # <<>> /\ queue' = [queue EXCEPT ![o] = Tail(@)]
    <2>1. /\ cur' = cur /\ run' = [run EXCEPT ![t] = Head(queue[o])]
          /\ queue[o] # <<>> /\ queue' = [queue EXCEPT ![o] = Tail(@)]
        BY <1>1 DEF Pop
    <2>2. Typed /\ At(th, t, "pop") /\ Goto(t, "run")
        BY DEF Pop, ConsumerInv
    <2> QED BY <2>1, <2>2, Moves
  <1>3. run'[t] = Head(queue[o]) /\ \A u \in Tasks \ {t} : run'[u] = run[u]
      BY <1>2 DEF LinesInv
  <1>4. FreshTasks' = FreshTasks
      BY <1>2 DEF FreshTasks, FreshPcs
  <1>5. RunOf(o) = None
    <2>1. Flushing(t) /\ \A u \in Tasks : Runs(o, u) => Flushing(u) /\ u # t /\ cur[u] = cur[t]
        BY <1>1, <1>2 DEF Flushing, Runs
    <2>2. \A u \in Tasks : ~Runs(o, u)
        BY <2>1 DEF ConsumerInv, CallsInv
    <2> QED BY <2>2, RunOfRunning DEF RunFact
  <1>6. RunOf(o)' = Head(queue[o])
    <2>1. Runs(o, t)'
        BY <1>1, <1>2 DEF Runs
    <2> QED BY <1>3, <2>1, RunOfRunningNext DEF RunFact
  <1>7. \A p \in Objects \ {o} : RunOf(p)' = RunOf(p)
    <2>1. \A p \in Objects \ {o}, u \in Tasks : Runs(p, u)' <=> Runs(p, u)
        BY <1>1, <1>2 DEF Runs
    <2>2. \A p \in Objects \ {o}, u \in Tasks : Runs(p, u) => run'[u] = run[u]
        BY <1>2, <1>3 DEF Runs
    <2> QED BY <2>1, <2>2, RunsKept
  <1>8. RunningNow' = [RunningNow EXCEPT ![o] = Head(queue[o])] /\ RunningNow[o] = None
      BY <1>5, <1>6, <1>7 DEF RunningNow
  <1>9. Serial!Start(o) <=> /\ RunningNow[o] = None /\ queue[o] # <<>>
                            /\ RunningNow' = [RunningNow EXCEPT ![o] = Head(queue[o])]
                            /\ queue' = [queue EXCEPT ![o] = Tail(@)]
                            /\ UNCHANGED FreshTasks
      BY DEF Serial!Start, FreshTasks, FreshPcs, RunningNow, RunOf
  <1> QED BY <1>2, <1>4, <1>8, <1>9

LEMMA FinishSerial ==
    ASSUME ConsumerInv, ConsumerInv', NEW th \in Threads, NEW t \in Tasks, FinishTask(th, t), LinesInv
    PROVE  \E o \in Objects : Serial!Finish(o)
  <1>1. PICK o \in Objects : o = cur[t]
      BY DEF FinishTask, At, ConsumerInv, Typed, FlushPcs
  <1>2. /\ pc[t] = "run" /\ pc'[t] = "decrement" /\ \A u \in Tasks \ {t} : pc'[u] = pc[u]
        /\ UNCHANGED <<cur, run, queue>>
    <2>1. UNCHANGED <<cur, run, queue>>
        BY DEF FinishTask, objVars
    <2> QED BY <2>1, Moves DEF FinishTask, ConsumerInv
  <1>3. FreshTasks' = FreshTasks
      BY <1>2 DEF FreshTasks, FreshPcs
  <1>4. RunOf(o) # None
    <2>1. Runs(o, t) /\ run[t] # None
        BY <1>1, <1>2, KindAssumption DEF Runs, LinesInv
    <2> QED BY <2>1, RunOfRunning DEF RunFact
  <1>5. RunOf(o)' = None
    <2>1. Flushing(t) /\ \A u \in Tasks : Runs(o, u)' => Flushing(u) /\ u # t /\ cur[u] = cur[t]
        BY <1>1, <1>2 DEF Flushing, Runs
    <2>2. \A u \in Tasks : ~Runs(o, u)'
        BY <2>1 DEF ConsumerInv, CallsInv
    <2> QED BY <2>2, RunOfRunningNext DEF RunFact
  <1>6. \A p \in Objects \ {o} : RunOf(p)' = RunOf(p)
    <2>1. \A p \in Objects \ {o}, u \in Tasks : Runs(p, u)' <=> Runs(p, u)
        BY <1>1, <1>2 DEF Runs
    <2> QED BY <1>2, <2>1, RunsKept
  <1>7. RunningNow' = [RunningNow EXCEPT ![o] = None] /\ RunningNow[o] # None
    <2>1. RunningNow[o] # None
        BY <1>4 DEF RunningNow
    <2>2. \A p \in Objects : RunOf(p)' = IF p = o THEN None ELSE RunOf(p)
        BY <1>5, <1>6
    <2>3. RunningNow' = [p \in Objects |-> IF p = o THEN None ELSE RunningNow[p]]
        BY <2>2 DEF RunningNow
    <2> QED BY <2>1, <2>3 DEF RunningNow
  <1>8. Serial!Finish(o) <=> /\ RunningNow[o] # None
                             /\ RunningNow' = [RunningNow EXCEPT ![o] = None]
                             /\ UNCHANGED <<FreshTasks, queue>>
      BY DEF Serial!Finish, FreshTasks, FreshPcs, RunningNow, RunOf
  <1> QED BY <1>2, <1>3, <1>7, <1>8

LEMMA CallStep ==
    ASSUME ConsumerInv, ConsumerInv', LifeInv, NEW th \in Threads, NEW t \in Tasks, Step(th, t)
    PROVE  [Serial!Next]_Serial!vars
  <1>1. CASE PushSwap(th, t)
      BY <1>1, SwapSerial DEF Serial!Next
  <1>2. CASE Pop(th, t)
      BY <1>2, PopSerial DEF Serial!Next, LifeInv
  <1>3. CASE FinishTask(th, t)
      BY <1>3, FinishSerial DEF Serial!Next, LifeInv
  <1>4. ASSUME NEW l, NEW m, At(th, t, l), Goto(t, m) \/ Return(th, t, m),
               l \in FreshPcs <=> m \in FreshPcs, l # "run", m # "run",
               \A u \in Tasks \ {t} : cur'[u] = cur[u], run' = run, queue' = queue
        PROVE  UNCHANGED Serial!vars
    <2>1. pc[t] = l /\ pc'[t] = m /\ \A u \in Tasks \ {t} : pc'[u] = pc[u]
        BY <1>4, Moves DEF ConsumerInv
    <2> QED BY <1>4, <2>1, QuietSerial
  <1>5. CASE Increment(th, t)
    <2>1. /\ At(th, t, "increment") /\ Goto(t, "swap")
          /\ run' = run /\ queue' = queue /\ cur' = cur
        BY <1>5 DEF Increment
    <2> QED BY <1>4, <2>1 DEF FreshPcs
  <1>6. CASE PushLink(th, t)
    <2>1. /\ At(th, t, "link") /\ (Goto(t, "claim") \/ Return(th, t, "returnedFalse"))
          /\ run' = run /\ queue' = queue /\ cur' = cur
        BY <1>6 DEF PushLink, objVars
    <2> QED BY <1>4, <2>1 DEF FreshPcs
  <1>7. CASE Claim(th, t)
    <2>1. /\ At(th, t, "claim") /\ (Goto(t, "pop") \/ Return(th, t, "returnedTrue"))
          /\ run' = run /\ queue' = queue
          /\ cur' = cur \/ cur' = [cur EXCEPT ![t] = target[t]]
        BY <1>7 DEF Claim, objVars
    <2>2. \A u \in Tasks \ {t} : cur'[u] = cur[u]
        BY <2>1 DEF ConsumerInv, Typed
    <2> QED BY <1>4, <2>1, <2>2 DEF FreshPcs
  <1>8. CASE Decrement(th, t)
    <2>1. /\ At(th, t, "decrement") /\ (Goto(t, "pop") \/ Goto(t, "flushed"))
          /\ run' = run /\ queue' = queue /\ cur' = cur
        BY <1>8 DEF Decrement
    <2> QED BY <1>4, <2>1 DEF FreshPcs
  <1>9. CASE EndFlush(th, t)
    <2>1. /\ At(th, t, "flushed") /\ (Goto(t, "pop") \/ Return(th, t, "returnedTrue"))
          /\ run' = run /\ queue' = queue
          /\ cur' = cur \/ cur' = [cur EXCEPT ![t] = Head(pending[th][Kind(target[t])])]
        BY <1>9 DEF EndFlush, objVars
    <2>2. \A u \in Tasks \ {t} : cur'[u] = cur[u]
        BY <2>1 DEF ConsumerInv, Typed
    <2> QED BY <1>4, <2>1, <2>2 DEF FreshPcs
  <1> QED BY <1>1, <1>2, <1>3, <1>5, <1>6, <1>7, <1>8, <1>9 DEF Step

LEMMA SerialStep ==
    ConsumerInv /\ ConsumerInv' /\ LifeInv /\ [Next]_vars => [Serial!Next]_Serial!vars
  <1> SUFFICES ASSUME ConsumerInv, ConsumerInv', LifeInv, [Next]_vars
               PROVE  [Serial!Next]_Serial!vars
      OBVIOUS
  <1>1. ASSUME NEW th \in Threads, NEW t \in Tasks, Step(th, t)
        PROVE  [Serial!Next]_Serial!vars
      BY <1>1, CallStep
  <1>2. ASSUME NEW th \in Threads, NEW t \in Tasks, NEW o \in Objects,
               DoAsync(th, t, o) \/ DoAsyncAfter(th, t, o)
        PROVE  UNCHANGED Serial!vars
    <2>1. /\ pc[t] \in FreshPcs /\ run' = run /\ queue' = queue /\ cur' = cur
          /\ pc' = [pc EXCEPT ![t] = "increment"] \/ pc' = [pc EXCEPT ![t] = "delayed"]
        BY <1>2 DEF DoAsync, DoAsyncAfter, FreshPcs, objVars
    <2>2. pc'[t] \in FreshPcs /\ \A u \in Tasks \ {t} : pc'[u] = pc[u]
        BY <2>1 DEF ConsumerInv, Typed, FreshPcs
    <2>3. pc[t] # "run" /\ pc'[t] # "run"
        BY <2>1, <2>2 DEF FreshPcs
    <2> QED BY <2>1, <2>2, <2>3, QuietSerial
  <1>3. ASSUME NEW th \in Threads, NEW t \in Tasks, DispatchDelayed(th, t)
        PROVE  UNCHANGED Serial!vars
    <2>1. /\ pc[t] \in FreshPcs /\ run' = run /\ queue' = queue /\ cur' = cur
          /\ pc' = [pc EXCEPT ![t] = "increment"]
        BY <1>3 DEF DispatchDelayed, FreshPcs, objVars
    <2>2. pc'[t] \in FreshPcs /\ \A u \in Tasks \ {t} : pc'[u] = pc[u]
        BY <2>1 DEF ConsumerInv, Typed, FreshPcs
    <2>3. pc[t] # "run" /\ pc'[t] # "run"
        BY <2>1, <2>2 DEF FreshPcs
    <2> QED BY <2>1, <2>2, <2>3, QuietSerial
  <1>4. ASSUME UNCHANGED <<queue, pc, cur, run>>
        PROVE  UNCHANGED Serial!vars
    <2>1. \A o \in Objects, u \in Tasks : Runs(o, u)' <=> Runs(o, u)
        BY <1>4 DEF Runs
    <2>2. \A o \in Objects : RunOf(o)' = RunOf(o)
        BY <1>4, <2>1, RunsKept
    <2>3. FreshTasks' = FreshTasks /\ RunningNow' = RunningNow
        BY <1>4, <2>2 DEF FreshTasks, RunningNow
    <2>4. UNCHANGED Serial!vars <=> /\ FreshTasks' = FreshTasks
                                    /\ queue' = queue
                                    /\ RunningNow' = RunningNow
        BY DEF Serial!vars, FreshTasks, FreshPcs, RunningNow, RunOf
    <2> QED BY <1>4, <2>3, <2>4
  <1>5. ASSUME NEW o \in Objects, Disown(o)
        PROVE  UNCHANGED Serial!vars
      BY <1>4, <1>5 DEF Disown, objVars
  <1>6. CASE UNCHANGED vars
      BY <1>4, <1>6 DEF vars
  <1> QED BY <1>1, <1>2, <1>3, <1>5, <1>6 DEF Next

(* Whatever the numbers of threads, objects, kinds and tasks: each object  *)
(* runs its tasks one at a time, each once, in the order in which they     *)
(* entered its queue; the protocol implements AODSerial.                   *)
THEOREM ImplementsSerial == Spec => SerialExecution
  <1>1. ConsumerInv /\ ConsumerInv' /\ LifeInv /\ [Next]_vars => [Serial!Next]_Serial!vars
      BY SerialStep
  <1> QED BY <1>1, InitSerial, LifeInvariant, PTL DEF Spec, SerialExecution, Serial!Spec
=============================================================================
