------------------------- MODULE DelayedTasksProofs -------------------------
(***************************************************************************)
(* For all groups, workers, tasks and delays: the references of delayed    *)
(* tasks, the tick that no task can hog, and the promise of                *)
(* DeferredExecution.  The invariant says where a worker is in its loop    *)
(* (LoopInv), where the references of a task are (PlaceInv), that nobody   *)
(* has a task before it is deferred (NewInv) and what the present tick has *)
(* dispatched (TickInv).  The last part does the same for the delayed      *)
(* tasks of async objects, for which it needs less: what becomes of a task *)
(* (FatesInv) and when queues are empty for good (AsyncLoop).              *)
(***************************************************************************)
EXTENDS DelayedTasks, AODDelayed, FiniteSetTheorems, SequenceTheorems, WellFoundedInduction, NaturalsInduction, TLAPS

Queues == {"inbox", "delayed", "pending", "cur"}

(* The types, the bound on the counts left to PlaceInv.                    *)
Typed ==
    /\ now \in 0 .. MaxNow
    /\ due \in [Tasks -> 0 .. MaxNow]
    /\ refs \in [Tasks -> Nat]
    /\ inbox \in [Workers -> Seq(Tasks)]
    /\ delayed \in [Workers -> SUBSET Tasks]
    /\ pending \in [Workers -> Seq(Tasks)]
    /\ index \in [Workers -> (0 .. Wrap - 1) \X (0 .. Wrap - 1)]
    /\ running \in SUBSET AllGroups
    /\ pc \in [Workers -> {"loop", "inbox", "delayed", "stopped", "joined"}]
    /\ at \in [Workers -> 0 .. MaxNow]
    /\ cur \in [Workers -> Tasks \cup {Null}]
    /\ source \in [Tasks -> Workers \cup {Null}]
    /\ tick \in [Workers -> Seq(Tasks)]

LoopInv ==
    \A w \in Workers :
        /\ pc[w] \in {"inbox", "delayed"} => HandlesTimers(w)
        /\ pc[w] = "inbox" => ~AllActive
        /\ cur[w] # Null => pc[w] \in {"inbox", "delayed"}
        /\ at[w] <= now
        /\ pc[w] \in {"stopped", "joined"} => delayed[w] = {}
        /\ pc[w] = "joined" => inbox[w] = <<>> /\ \A v \in Workers : pc[v] \in {"stopped", "joined"}

(* A task is nowhere, in one place, or being dispatched and waiting again. *)
Single(s) == \A i, j \in DOMAIN s : s[i] = s[j] => i = j

In(w, q, t) ==
    \/ q = "inbox"   /\ t \in Range(inbox[w])
    \/ q = "delayed" /\ t \in delayed[w]
    \/ q = "pending" /\ t \in Range(pending[w])
    \/ q = "cur"     /\ cur[w] = t

OnlyIn(w, Q, t) == \A v \in Workers, p \in Queues : In(v, p, t) <=> v = w /\ p \in Q

Nowhere(t)     == refs[t] = 0 /\ \A v \in Workers, p \in Queues : ~In(v, p, t)
InOnePlace(t)  == refs[t] = 1 /\ \E w \in Workers, q \in Queues : OnlyIn(w, {q}, t)
InTwoPlaces(t) == refs[t] = 2 /\ \E w \in Workers : OnlyIn(w, {"cur", "pending"}, t)
Placed(t)      == Nowhere(t) \/ InOnePlace(t) \/ InTwoPlaces(t)

PlaceInv ==
    /\ \A w \in Workers : Single(inbox[w]) /\ Single(pending[w])
    /\ \A t \in Tasks : Placed(t)

NewInv ==
    \A t \in Tasks : source[t] = Null => refs[t] = 0 /\ \A w \in Workers : Times(tick[w], t) = 0

(* Whom the inbox had brought the task may have run it once already.       *)
Scheduled(t) == source[t] \in Workers /\ ~HandlesTimers(source[t])

TickInv ==
    \A w \in Workers, t \in Tasks :
        /\ t \in Range(inbox[w]) => Scheduled(t) /\ \A v \in Workers : Times(tick[v], t) = 0
        /\ pc[w] = "inbox" \/ (pc[w] = "delayed" /\ t \in delayed[w]) =>
              /\ Times(tick[w], t) <= 1
              /\ Times(tick[w], t) = 1 => Scheduled(t) /\ ~AllActive

IInv == Typed /\ LoopInv /\ PlaceInv /\ NewInv /\ TickInv /\ NoTaskHogsTheTick

-----------------------------------------------------------------------------
(***************************************************************************)
(* Sequences without repetition, and how often a task is in one.           *)
(***************************************************************************)
LEMMA TimesType ==
    ASSUME NEW S, NEW s \in Seq(S), NEW t
    PROVE  Times(s, t) \in Nat /\ (Times(s, t) = 0 <=> t \notin Range(s))
<1> DEFINE I == {i \in DOMAIN s : s[i] = t}
<1>1. IsFiniteSet(I)
  <2>1. IsFiniteSet(1 .. Len(s)) /\ I \subseteq 1 .. Len(s)
    BY FS_Interval
  <2> QED
    BY <2>1, FS_Subset
<1>2. I = {} <=> t \notin Range(s)
  BY DEF Range
<1> QED
  BY <1>1, <1>2, FS_CardinalityType, FS_EmptySet DEF Times

LEMMA TimesAppend ==
    ASSUME NEW S, NEW s \in Seq(S), NEW x \in S, NEW t
    PROVE  Times(Append(s, x), t) = Times(s, t) + (IF x = t THEN 1 ELSE 0)
<1> DEFINE I == {i \in DOMAIN s : s[i] = t}
           J == {i \in DOMAIN Append(s, x) : Append(s, x)[i] = t}
<1>1. IsFiniteSet(I)
  <2>1. IsFiniteSet(1 .. Len(s)) /\ I \subseteq 1 .. Len(s)
    BY FS_Interval
  <2> QED
    BY <2>1, FS_Subset
<1>2. J = IF x = t THEN I \cup {Len(s) + 1} ELSE I
  OBVIOUS
<1>3. Len(s) + 1 \notin I
  OBVIOUS
<1>4. Cardinality(I) \in Nat /\ Cardinality(I \cup {Len(s) + 1}) = Cardinality(I) + 1
  BY <1>1, <1>3, FS_AddElement, FS_CardinalityType
<1>5. CASE x = t
  BY <1>2, <1>4, <1>5 DEF Times
<1>6. CASE x # t
  <2>1. J = I
    BY <1>2, <1>6
  <2>2. Times(Append(s, x), t) = Times(s, t)
    BY <2>1 DEF Times
  <2>3. Times(s, t) \in Nat
    BY TimesType
  <2> QED
    BY <1>6, <2>2, <2>3
<1> QED
  BY <1>5, <1>6

LEMMA TimesEmpty == \A t : Times(<<>>, t) = 0
BY FS_EmptySet DEF Times

LEMMA TimesSingle ==
    ASSUME NEW S, NEW s \in Seq(S), Single(s), NEW t
    PROVE  Times(s, t) <= 1
<1> DEFINE I == {i \in DOMAIN s : s[i] = t}
<1>1. CASE I = {}
  BY <1>1, FS_EmptySet DEF Times
<1>2. CASE I # {}
  <2>1. PICK i \in I : TRUE
    BY <1>2
  <2>2. I = {i}
    BY <2>1 DEF Single
  <2>3. Cardinality({i}) = 1
    BY FS_Singleton
  <2>4. Cardinality(I) = 1
    BY <2>2, <2>3
  <2> QED
    BY <2>4 DEF Times
<1> QED
  BY <1>1, <1>2

LEMMA RangeAppend ==
    ASSUME NEW S, NEW s \in Seq(S), NEW x \in S
    PROVE  /\ Range(Append(s, x)) = Range(s) \cup {x}
           /\ Single(s) /\ x \notin Range(s) => Single(Append(s, x))
<1>1. /\ DOMAIN Append(s, x) = 1 .. Len(s) + 1 /\ DOMAIN s = 1 .. Len(s) /\ Len(s) \in Nat
      /\ \A i \in 1 .. Len(s) : Append(s, x)[i] = s[i]
      /\ Append(s, x)[Len(s) + 1] = x
  OBVIOUS
<1>2. Range(Append(s, x)) = Range(s) \cup {x}
  <2>1. \A y \in Range(Append(s, x)) : y \in Range(s) \cup {x}
    BY <1>1 DEF Range
  <2>2. \A y \in Range(s) : y \in Range(Append(s, x))
    BY <1>1 DEF Range
  <2>3. x \in Range(Append(s, x))
    BY <1>1 DEF Range
  <2> QED
    BY <2>1, <2>2, <2>3
<1>3. ASSUME Single(s), x \notin Range(s) PROVE Single(Append(s, x))
  BY <1>1, <1>3 DEF Single, Range
<1> QED
  BY <1>2, <1>3

LEMMA RangeTail ==
    ASSUME NEW S, NEW s \in Seq(S), s # <<>>
    PROVE  /\ Tail(s) \in Seq(S) /\ Head(s) \in Range(s) /\ Head(s) \in S
           /\ Range(s) = Range(Tail(s)) \cup {Head(s)}
           /\ Single(s) => Single(Tail(s)) /\ Head(s) \notin Range(Tail(s))
<1>1. /\ DOMAIN s = 1 .. Len(s) /\ Len(s) \in Nat \ {0}
      /\ Tail(s) \in Seq(S) /\ DOMAIN Tail(s) = 1 .. Len(s) - 1
      /\ \A i \in 1 .. Len(s) - 1 : Tail(s)[i] = s[i + 1]
      /\ Head(s) = s[1]
  BY HeadTailProperties, LenProperties, EmptySeq
<1>2. Range(s) = Range(Tail(s)) \cup {Head(s)}
  <2>1. ASSUME NEW y \in Range(s) PROVE y \in Range(Tail(s)) \cup {Head(s)}
    <3>1. PICK i \in 1 .. Len(s) : y = s[i]
      BY <1>1, <2>1 DEF Range
    <3>2. CASE i = 1
      BY <1>1, <3>1, <3>2
    <3>3. CASE i # 1
      <4>1. i - 1 \in 1 .. Len(s) - 1 /\ Tail(s)[i - 1] = s[i]
        BY <1>1, <3>1, <3>3
      <4> QED
        BY <1>1, <3>1, <4>1 DEF Range
    <3> QED
      BY <3>2, <3>3
  <2>2. Range(Tail(s)) \subseteq Range(s) /\ Head(s) \in Range(s)
    BY <1>1 DEF Range
  <2> QED
    BY <2>1, <2>2
<1>3. ASSUME Single(s) PROVE Single(Tail(s)) /\ Head(s) \notin Range(Tail(s))
  <2>1. \A i, j \in 1 .. Len(s) - 1 : s[i + 1] = s[j + 1] => i = j
    BY <1>1, <1>3 DEF Single
  <2>2. \A i \in 1 .. Len(s) - 1 : s[i + 1] # s[1]
    BY <1>1, <1>3 DEF Single
  <2> QED
    BY <1>1, <2>1, <2>2 DEF Single, Range
<1>4. Head(s) \in S
  BY <1>1
<1> QED
  BY <1>1, <1>2, <1>3, <1>4

LEMMA RangeEmpty == Range(<<>>) = {} /\ Single(<<>>)
BY DEF Range, Single


-----------------------------------------------------------------------------
(***************************************************************************)
(* The lists of groups.  Going through the groups in order, the number of  *)
(* those in S that were passed grows by at most one, so that it takes every*)
(* value up to the number of all.                                          *)
(***************************************************************************)
LEMMA Smallest ==
    ASSUME NEW T, T \subseteq Nat, T # {}
    PROVE  \E n \in T : \A m \in T : n <= m
<1> DEFINE Below == OpToRel(<, Nat)
<1>1. IsWellFoundedOn(Below, Nat)
  BY NatLessThanWellFounded
<1>2. \A m, n \in Nat : <<m, n>> \in Below <=> m < n
  BY DEF OpToRel
<1> HIDE DEF Below
<1>3. \E n \in T : \A m \in T : ~ (<<m, n>> \in Below)
  BY <1>1, WFMin
<1>4. PICK n \in T : \A m \in T : ~ (<<m, n>> \in Below)
  BY <1>3
<1>5. ASSUME NEW m \in T PROVE n <= m
  <2>1. m \in Nat /\ n \in Nat
    BY <1>4, <1>5
  <2>2. ~ (m < n)
    BY <1>2, <1>4, <1>5, <2>1
  <2> QED
    BY <2>1, <2>2
<1> QED
  BY <1>4, <1>5

LEMMA InList == \A rr \in Nat, n \in Nat \ {0} : (rr % n) + 1 \in 1 .. n
OBVIOUS

LEMMA NthExists ==
    ASSUME NEW S, NEW n \in 1 .. Cardinality(PlacesOf(S))
    PROVE  NthPlace(S, n) \in PlacesOf(S)
<1> DEFINE P == PlacesOf(S)
           Passed(k) == {j \in P : j <= k}
           T == {k \in 0 .. Len(Groups) : n <= Cardinality(Passed(k))}
<1>1. Groups \in Seq(AllGroups) /\ Len(Groups) \in Nat /\ P \subseteq 1 .. Len(Groups)
  BY TagAssumption DEF PlacesOf
<1>2. \A k : IsFiniteSet(Passed(k)) /\ Cardinality(Passed(k)) \in Nat
  <2>1. IsFiniteSet(1 .. Len(Groups))
    BY <1>1, FS_Interval
  <2>2. \A k : Passed(k) \subseteq 1 .. Len(Groups)
    BY <1>1
  <2> QED
    BY <2>1, <2>2, FS_Subset, FS_CardinalityType
<1>3. Passed(Len(Groups)) = P
  BY <1>1
<1>4. PICK k \in T : \A m \in T : k <= m
  <2>1. Len(Groups) \in T
    BY <1>1, <1>2, <1>3
  <2>2. T \subseteq Nat
    BY <1>1
  <2> HIDE DEF T
  <2> QED
    BY <2>1, <2>2, Smallest
<1>5. k # 0
  <2>1. Passed(0) = {}
    BY <1>1
  <2> QED
    BY <2>1, FS_EmptySet
<1>6. k - 1 \in 0 .. Len(Groups) /\ k - 1 \notin T
  BY <1>1, <1>4, <1>5
<1>7. k \in P /\ Passed(k) = Passed(k - 1) \cup {k}
  <2>1. CASE k \in P
    BY <1>1, <1>4, <2>1
  <2>2. CASE k \notin P
    <3>1. Passed(k) = Passed(k - 1)
      BY <1>1, <1>4, <2>2
    <3> QED
      BY <1>4, <1>6, <3>1
  <2> QED
    BY <2>1, <2>2
<1>8. Cardinality(Passed(k)) = Cardinality(Passed(k - 1)) + 1
  <2>1. k \notin Passed(k - 1)
    BY <1>1, <1>4
  <2>2. IsFiniteSet(Passed(k - 1))
    BY <1>2
  <2> HIDE DEF Passed
  <2>3. Cardinality(Passed(k - 1) \cup {k}) = Cardinality(Passed(k - 1)) + 1
    BY <2>1, <2>2, FS_AddElement
  <2> QED
    BY <1>7, <2>3
<1>9. Cardinality(Passed(k)) = n
  <2> HIDE DEF Passed
  <2>1. Cardinality(PlacesOf(S)) \in Nat
    BY <1>2, <1>3
  <2>2. n <= Cardinality(Passed(k)) /\ ~ (n <= Cardinality(Passed(k - 1)))
    BY <1>4, <1>6
  <2>3. Cardinality(Passed(k)) \in Nat /\ Cardinality(Passed(k - 1)) \in Nat /\ n \in Int
    BY <1>2, <2>1
  <2> QED
    BY <1>8, <2>2, <2>3
<1> QED
  BY <1>7, <1>9 DEF NthPlace

LEMMA ListedGroups ==
    ASSUME NEW S, Listed(S) # <<>>, NEW rr \in Nat
    PROVE  TargetGroup(Listed(S), rr) \in AllGroups \cap S
<1> DEFINE n == Cardinality(PlacesOf(S))
<1>1. Groups \in Seq(AllGroups) /\ PlacesOf(S) \subseteq 1 .. Len(Groups)
  BY TagAssumption DEF PlacesOf
<1>2. n \in Nat
  <2>1. IsFiniteSet(1 .. Len(Groups))
    BY TagAssumption, FS_Interval
  <2> QED
    BY <1>1, <2>1, FS_Subset, FS_CardinalityType
<1>3. \A i \in 1 .. n : Listed(S)[i] \in AllGroups \cap S
  BY <1>1, NthExists DEF Listed, PlacesOf
<1>4. Listed(S) \in Seq(AllGroups) /\ Len(Listed(S)) = n
  BY <1>2, <1>3 DEF Listed
<1>5. n # 0
  BY <1>2, <1>4, EmptySeq
<1>6. (rr % n) + 1 \in 1 .. n
  BY <1>2, <1>5, InList
<1> QED
  BY <1>3, <1>4, <1>6 DEF TargetGroup

LEMMA TeamWorkers ==
    ASSUME NEW g \in AllGroups, NEW rr \in Nat
    PROVE  TargetWorker(g, rr) \in Workers
<1>1. Team[g] \in Seq(TeamOf(g)) /\ Len(Team[g]) \in Nat \ {0}
  BY TagAssumption, EmptySeq
<1>2. (rr % Len(Team[g])) + 1 \in 1 .. Len(Team[g])
  BY <1>1, InList
<1> QED
  BY <1>1, <1>2 DEF TargetWorker, Workers

LEMMA FollowingIndex ==
    ASSUME NEW rr \in 0 .. Wrap - 1
    PROVE  Following(rr) \in 0 .. Wrap - 1
BY TagAssumption DEF Following

LEMMA Target ==
    ASSUME Typed, NEW w \in Workers, DeferredTasksHandlingGroups # <<>>
    PROVE  TargetOf(DeferredTasksHandlingGroups, w) \in Workers
<1>1. index[w][1] \in Nat /\ index[w][2] \in Nat
  BY TagAssumption DEF Typed
<1> QED
  BY <1>1, ListedGroups, TeamWorkers DEF TargetOf, DeferredTasksHandlingGroups

-----------------------------------------------------------------------------
(***************************************************************************)
(* Where the references of a task are.                                     *)
(***************************************************************************)
LEMMA InIs ==
    ASSUME NEW w, NEW t
    PROVE  /\ In(w, "inbox", t) <=> t \in Range(inbox[w])
           /\ In(w, "delayed", t) <=> t \in delayed[w]
           /\ In(w, "pending", t) <=> t \in Range(pending[w])
           /\ In(w, "cur", t) <=> cur[w] = t
BY DEF In

LEMMA InIsNext ==
    ASSUME NEW w, NEW t
    PROVE  /\ In(w, "inbox", t)' <=> t \in Range(inbox'[w])
           /\ In(w, "delayed", t)' <=> t \in delayed'[w]
           /\ In(w, "pending", t)' <=> t \in Range(pending'[w])
           /\ In(w, "cur", t)' <=> cur'[w] = t
BY DEF In, Range

(* A task that is queued is nowhere else; one that is being dispatched may *)
(* also wait to be moved, with the same worker.                            *)
LEMMA Queued ==
    ASSUME PlaceInv, NEW t \in Tasks, NEW w \in Workers, NEW q \in {"inbox", "delayed"}, In(w, q, t)
    PROVE  refs[t] = 1 /\ OnlyIn(w, {q}, t)
BY DEF PlaceInv, Placed, Nowhere, InOnePlace, InTwoPlaces, OnlyIn, Queues

LEMMA BeingDispatched ==
    ASSUME PlaceInv, NEW t \in Tasks, NEW w \in Workers, In(w, "cur", t)
    PROVE  \/ refs[t] = 1 /\ OnlyIn(w, {"cur"}, t)
           \/ refs[t] = 2 /\ OnlyIn(w, {"cur", "pending"}, t)
BY DEF PlaceInv, Placed, Nowhere, InOnePlace, InTwoPlaces, OnlyIn, Queues

LEMMA WaitsAgain ==
    ASSUME PlaceInv, NEW t \in Tasks, NEW w \in Workers, In(w, "pending", t), ~In(w, "cur", t)
    PROVE  refs[t] = 1 /\ OnlyIn(w, {"pending"}, t)
BY DEF PlaceInv, Placed, Nowhere, InOnePlace, InTwoPlaces, OnlyIn, Queues

LEMMA QueuesAre == \A p : p \in Queues <=> p = "inbox" \/ p = "delayed" \/ p = "pending" \/ p = "cur"
BY DEF Queues

LEMMA NotYetDeferred ==
    ASSUME PlaceInv, NewInv, NEW t \in Tasks, source[t] = Null
    PROVE  /\ refs[t] = 0
           /\ \A v \in Workers : /\ t \notin Range(inbox[v]) /\ t \notin delayed[v]
                                 /\ t \notin Range(pending[v]) /\ cur[v] # t
<1>1. refs[t] = 0 /\ \A v \in Workers, p \in Queues : ~In(v, p, t)
  BY DEF PlaceInv, NewInv, Placed, Nowhere, InOnePlace, InTwoPlaces
<1> QED
  BY <1>1, InIs, QueuesAre

LEMMA OnlyInIs ==
    ASSUME NEW w \in Workers, NEW t
    PROVE  /\ OnlyIn(w, {"inbox"}, t) <=>
                \A v \in Workers :
                   /\ (t \in Range(inbox[v]) <=> v = w) /\ t \notin delayed[v]
                   /\ t \notin Range(pending[v]) /\ cur[v] # t
           /\ OnlyIn(w, {"delayed"}, t) <=>
                \A v \in Workers :
                   /\ t \notin Range(inbox[v]) /\ (t \in delayed[v] <=> v = w)
                   /\ t \notin Range(pending[v]) /\ cur[v] # t
           /\ OnlyIn(w, {"pending"}, t) <=>
                \A v \in Workers :
                   /\ t \notin Range(inbox[v]) /\ t \notin delayed[v]
                   /\ (t \in Range(pending[v]) <=> v = w) /\ cur[v] # t
           /\ OnlyIn(w, {"cur"}, t) <=>
                \A v \in Workers :
                   /\ t \notin Range(inbox[v]) /\ t \notin delayed[v]
                   /\ t \notin Range(pending[v]) /\ (cur[v] = t <=> v = w)
           /\ OnlyIn(w, {"cur", "pending"}, t) <=>
                \A v \in Workers :
                   /\ t \notin Range(inbox[v]) /\ t \notin delayed[v]
                   /\ (t \in Range(pending[v]) <=> v = w) /\ (cur[v] = t <=> v = w)
BY InIs, QueuesAre DEF OnlyIn

LEMMA OnlyInNext ==
    ASSUME NEW w \in Workers, NEW t
    PROVE  /\ OnlyIn(w, {"inbox"}, t)' <=>
                \A v \in Workers :
                   /\ (t \in Range(inbox'[v]) <=> v = w) /\ t \notin delayed'[v]
                   /\ t \notin Range(pending'[v]) /\ cur'[v] # t
           /\ OnlyIn(w, {"delayed"}, t)' <=>
                \A v \in Workers :
                   /\ t \notin Range(inbox'[v]) /\ (t \in delayed'[v] <=> v = w)
                   /\ t \notin Range(pending'[v]) /\ cur'[v] # t
           /\ OnlyIn(w, {"pending"}, t)' <=>
                \A v \in Workers :
                   /\ t \notin Range(inbox'[v]) /\ t \notin delayed'[v]
                   /\ (t \in Range(pending'[v]) <=> v = w) /\ cur'[v] # t
           /\ OnlyIn(w, {"cur"}, t)' <=>
                \A v \in Workers :
                   /\ t \notin Range(inbox'[v]) /\ t \notin delayed'[v]
                   /\ t \notin Range(pending'[v]) /\ (cur'[v] = t <=> v = w)
           /\ OnlyIn(w, {"cur", "pending"}, t)' <=>
                \A v \in Workers :
                   /\ t \notin Range(inbox'[v]) /\ t \notin delayed'[v]
                   /\ (t \in Range(pending'[v]) <=> v = w) /\ (cur'[v] = t <=> v = w)
BY InIsNext, QueuesAre DEF OnlyIn

LEMMA PlacedSame ==
    ASSUME NEW t, Placed(t), refs'[t] = refs[t],
           \A v \in Workers : /\ t \in Range(inbox'[v]) <=> t \in Range(inbox[v])
                              /\ t \in delayed'[v] <=> t \in delayed[v]
                              /\ t \in Range(pending'[v]) <=> t \in Range(pending[v])
                              /\ cur'[v] = t <=> cur[v] = t
    PROVE  Placed(t)'
<1>0. \A v \in Workers, p \in Queues : In(v, p, t)' <=> In(v, p, t)
  BY InIs, InIsNext, QueuesAre
<1>1. Nowhere(t) => Nowhere(t)'
  BY <1>0 DEF Nowhere
<1>2. \A w, Q : OnlyIn(w, Q, t) => OnlyIn(w, Q, t)'
  BY <1>0 DEF OnlyIn
<1>3. InOnePlace(t) => InOnePlace(t)'
  BY <1>2 DEF InOnePlace
<1>4. InTwoPlaces(t) => InTwoPlaces(t)'
  BY <1>2 DEF InTwoPlaces
<1> QED
  BY <1>1, <1>3, <1>4 DEF Placed

LEMMA PlacedOnce ==
    ASSUME NEW t, refs'[t] = 1, NEW w \in Workers, NEW q \in Queues, OnlyIn(w, {q}, t)'
    PROVE  Placed(t)'
BY DEF Placed, InOnePlace

LEMMA PlacedNowhere ==
    ASSUME NEW t, refs'[t] = 0,
           \A v \in Workers : /\ t \notin Range(inbox'[v]) /\ t \notin delayed'[v]
                              /\ t \notin Range(pending'[v]) /\ cur'[v] # t
    PROVE  Placed(t)'
<1>1. \A v \in Workers, p \in Queues : ~In(v, p, t)'
  BY InIsNext, QueuesAre
<1> QED
  BY <1>1 DEF Placed, Nowhere

-----------------------------------------------------------------------------
(***************************************************************************)
(* The types.                                                              *)
(***************************************************************************)
LEMMA TypedInit == Init => Typed
<1> SUFFICES ASSUME Init PROVE Typed
  OBVIOUS
<1>1. Wrap \in Nat \ {0} /\ MaxNow \in Nat
  BY TagAssumption, ClockAssumption
<1>2. <<>> \in Seq(Tasks)
  OBVIOUS
<1> QED
  BY <1>1, <1>2 DEF Init, QueuesInit, Typed

LEMMA DueInTime ==
    ASSUME Typed
    PROVE  DueTimes \subseteq 0 .. MaxNow
BY ClockAssumption DEF DueTimes, Typed

(* A task that is held somewhere is counted.                               *)
LEMMA Counted ==
    ASSUME Typed, PlaceInv, NEW t \in Tasks, NEW w \in Workers, NEW q \in Queues, In(w, q, t)
    PROVE  refs[t] \in 1 .. 2
BY DEF PlaceInv, Placed, Nowhere, InOnePlace, InTwoPlaces

LEMMA UnreferenceType ==
    ASSUME Typed, PlaceInv, NEW w \in Workers, NEW lost,
           Unreference(lost), \A t \in lost : t \in delayed[w] \/ t \in Range(inbox[w])
    PROVE  refs' \in [Tasks -> Nat]
<1>1. \A t \in lost : t \in Tasks => refs[t] \in 1 .. 2
  BY Counted, InIs DEF Queues
<1>2. \A t \in Tasks : (IF t \in lost THEN refs[t] - 1 ELSE refs[t]) \in Nat
  <2> TAKE t \in Tasks
  <2>1. CASE t \in lost
    <3>1. refs[t] \in 1 .. 2
      BY <1>1, <2>1
    <3> QED
      BY <2>1, <3>1
  <2>2. CASE t \notin lost
    BY <2>2 DEF Typed
  <2> QED
    BY <2>1, <2>2
<1> QED
  BY <1>2 DEF Unreference

LEMMA TypedDefer ==
    ASSUME Typed, NEW w \in Workers, NEW t \in Tasks, DeferTask(w, t)
    PROVE  Typed'
<1>1. /\ source' \in [Tasks -> Workers \cup {Null}] /\ refs' \in [Tasks -> Nat]
      /\ UNCHANGED <<now, pending, running, pc, at, cur, tick>>
  BY DEF DeferTask, Typed, flow
<1>2. due' \in [Tasks -> 0 .. MaxNow]
  BY DueInTime DEF DeferTask, Typed
<1>3. CASE Keep(w, t)
  BY <1>1, <1>2, <1>3 DEF Keep, Typed
<1>4. CASE ScheduleTask(w, t)
  <2>1. TargetOf(DeferredTasksHandlingGroups, w) \in Workers
    BY <1>4, Target DEF ScheduleTask, Schedule
  <2>2. inbox' \in [Workers -> Seq(Tasks)]
    BY <1>4, <2>1 DEF ScheduleTask, Schedule, Typed
  <2>3. index' \in [Workers -> (0 .. Wrap - 1) \X (0 .. Wrap - 1)]
    BY <1>4, FollowingIndex DEF ScheduleTask, Schedule, Typed
  <2> QED
    BY <1>1, <1>2, <1>4, <2>2, <2>3 DEF ScheduleTask, Schedule, Typed
<1> QED
  BY <1>3, <1>4 DEF DeferTask

LEMMA TypedStep ==
    ASSUME Typed, PlaceInv, [Next]_vars
    PROVE  Typed'
<1>1. CASE Advance
  BY <1>1, ClockAssumption DEF Advance, Typed, queues, flow
<1>2. ASSUME NEW w \in Workers, DeferTaskAgain(w) PROVE Typed'
  <2>1. cur[w] \in Tasks /\ due' \in [Tasks -> 0 .. MaxNow]
    BY <1>2, DueInTime DEF DeferTaskAgain, Typed
  <2>2. pending' \in [Workers -> Seq(Tasks)] /\ refs' \in [Tasks -> Nat]
    BY <1>2, <2>1 DEF DeferTaskAgain, Typed
  <2> QED
    BY <1>2, <2>1, <2>2 DEF DeferTaskAgain, Typed, flow
<1>3. ASSUME NEW w \in Workers, EnterGlobal(w) PROVE Typed'
  BY <1>3 DEF EnterGlobal, Typed, queues
<1>4. ASSUME NEW w \in Workers, PopInbox(w) PROVE Typed'
  <2>1. Tail(inbox[w]) \in Seq(Tasks) /\ Head(inbox[w]) \in Tasks
    BY <1>4, RangeTail DEF PopInbox, Typed
  <2>2. inbox' \in [Workers -> Seq(Tasks)]
    BY <1>4, <2>1 DEF PopInbox, Typed
  <2>3. delayed' \in [Workers -> SUBSET Tasks] /\ cur' \in [Workers -> Tasks \cup {Null}]
    <3>1. CASE UNCHANGED <<cur, tick>> /\ delayed' = [delayed EXCEPT ![w] = @ \cup {Head(inbox[w])}]
      BY <2>1, <3>1 DEF Typed
    <3>2. CASE UNCHANGED delayed /\ cur' = [cur EXCEPT ![w] = Head(inbox[w])]
      BY <2>1, <3>2 DEF Typed
    <3> QED
      BY <1>4, <3>1, <3>2 DEF PopInbox, Dispatch
  <2>4. tick' \in [Workers -> Seq(Tasks)]
    <3>1. CASE UNCHANGED tick
      BY <3>1 DEF Typed
    <3>2. CASE tick' = [tick EXCEPT ![w] = Append(@, Head(inbox[w]))]
      BY <2>1, <3>2 DEF Typed
    <3> QED
      BY <1>4, <3>1, <3>2 DEF PopInbox, Dispatch
  <2> QED
    BY <1>4, <2>2, <2>3, <2>4 DEF PopInbox, Typed, flow
<1>5. ASSUME NEW w \in Workers, EnterLocal(w) PROVE Typed'
  <2>1. Range(pending[w]) \subseteq Tasks
    BY DEF Typed, Range
  <2>2. delayed' \in [Workers -> SUBSET Tasks] /\ pending' \in [Workers -> Seq(Tasks)]
    BY SMTT(30), <1>5, <2>1 DEF EnterLocal, MovePending, Typed
  <2>3. tick' \in [Workers -> Seq(Tasks)]
    <3>1. CASE UNCHANGED tick
      BY <3>1 DEF Typed
    <3>2. CASE tick' = [tick EXCEPT ![w] = <<>>]
      BY <3>2 DEF Typed
    <3> QED
      BY <1>5, <3>1, <3>2 DEF EnterLocal
  <2> QED
    BY <1>5, <2>2, <2>3 DEF EnterLocal, MovePending, Typed
<1>6. ASSUME NEW w \in Workers, RunTop(w) PROVE Typed'
  BY SMTT(30), <1>6 DEF RunTop, Dispatch, Typed, flow
<1>7. ASSUME NEW w \in Workers, EndDispatch(w) PROVE Typed'
  <2>1. cur[w] \in Tasks
    BY <1>7 DEF EndDispatch, Typed
  <2>2. refs[cur[w]] \in 1 .. 2
    BY <2>1, Counted, InIs DEF Queues
  <2>3. refs' \in [Tasks -> Nat]
    BY <1>7, <2>1, <2>2 DEF EndDispatch, Typed
  <2> QED
    BY <1>7, <2>3 DEF EndDispatch, Typed, queues, flow
<1>8. ASSUME NEW w \in Workers, EndLocal(w) PROVE Typed'
  BY <1>8 DEF EndLocal, Typed, queues
<1>9. ASSUME NEW w \in Workers, StopWorker(w) PROVE Typed'
  <2>1. refs' \in [Tasks -> Nat]
    BY <1>9, UnreferenceType DEF StopWorker
  <2> QED
    BY <1>9, <2>1 DEF StopWorker, Typed
<1>10. ASSUME NEW w \in Workers, Join(w) PROVE Typed'
  <2>1. refs' \in [Tasks -> Nat]
    BY <1>10, UnreferenceType DEF Join
  <2>2. inbox' \in [Workers -> Seq(Tasks)]
    BY <1>10 DEF Join, Typed
  <2> QED
    BY <1>10, <2>1, <2>2 DEF Join, Typed
<1>11. ASSUME NEW g \in AllGroups, StopGroup(g) PROVE Typed'
  BY <1>11 DEF StopGroup, Typed, queues, flow
<1>12. CASE UNCHANGED vars
  BY <1>12 DEF vars, Typed
<1> QED
  BY <1>1, <1>2, <1>3, <1>4, <1>5, <1>6, <1>7, <1>8, <1>9, <1>10, <1>11, <1>12, TypedDefer DEF Next, Handle

-----------------------------------------------------------------------------
(***************************************************************************)
(* Each step moves the references of a task with the task.                 *)
(***************************************************************************)
LEMMA PlaceInit == Init => PlaceInv
<1> SUFFICES ASSUME Init PROVE PlaceInv
  OBVIOUS
<1>1. \A v \in Workers, p \in Queues, t \in Tasks : ~In(v, p, t)
  BY ClockAssumption, RangeEmpty DEF Init, QueuesInit, In, Queues
<1> QED
  BY <1>1, RangeEmpty DEF Init, QueuesInit, PlaceInv, Placed, Nowhere

LEMMA PlaceDefer ==
    ASSUME Typed, PlaceInv, NewInv, NEW w \in Workers, NEW t \in Tasks, DeferTask(w, t)
    PROVE  PlaceInv'
<1>1. /\ refs[t] = 0
      /\ \A v \in Workers : /\ t \notin Range(inbox[v]) /\ t \notin delayed[v]
                            /\ t \notin Range(pending[v]) /\ cur[v] # t
  BY NotYetDeferred DEF DeferTask
<1>2. refs' = [refs EXCEPT ![t] = 1] /\ UNCHANGED <<pending, cur>>
  BY DEF DeferTask
<1>3. refs'[t] = 1 /\ \A u \in Tasks \ {t} : refs'[u] = refs[u]
  BY <1>2 DEF Typed
<1>4. CASE Keep(w, t)
  <2>1. /\ inbox' = inbox
        /\ \A v \in Workers : delayed'[v] = IF v = w THEN delayed[v] \cup {t} ELSE delayed[v]
    BY <1>4 DEF Keep, Typed
  <2>2. \A v \in Workers : Single(inbox'[v]) /\ Single(pending'[v])
    BY <1>2, <2>1 DEF PlaceInv
  <2>3. Placed(t)'
    <3>0. \A v \in Workers :
             /\ t \notin Range(inbox'[v]) /\ (t \in delayed'[v] <=> v = w)
             /\ t \notin Range(pending'[v]) /\ cur'[v] # t
      BY <1>1, <1>2, <2>1
    <3>1. OnlyIn(w, {"delayed"}, t)'
      BY <3>0, OnlyInNext
    <3> QED
      BY <1>3, <3>1, PlacedOnce DEF Queues
  <2>4. ASSUME NEW u \in Tasks \ {t} PROVE Placed(u)'
    BY <1>2, <1>3, <2>1, PlacedSame DEF PlaceInv
  <2> QED
    BY <2>2, <2>3, <2>4 DEF PlaceInv
<1>5. CASE ScheduleTask(w, t)
  <2>0. PICK x \in Workers : x = TargetOf(DeferredTasksHandlingGroups, w)
    BY <1>5, Target DEF ScheduleTask, Schedule
  <2>1. /\ delayed' = delayed
        /\ \A v \in Workers : inbox'[v] = IF v = x THEN Append(inbox[v], t) ELSE inbox[v]
    BY <1>5, <2>0 DEF ScheduleTask, Schedule, Typed
  <2>2. \A v \in Workers : /\ v = x => Range(inbox'[v]) = Range(inbox[v]) \cup {t}
                           /\ v # x => Range(inbox'[v]) = Range(inbox[v])
    <3>1. ASSUME NEW v \in Workers, v = x PROVE Range(inbox'[v]) = Range(inbox[v]) \cup {t}
      BY <2>1, <3>1, RangeAppend DEF Typed
    <3> QED
      BY <2>1, <3>1
  <2>3. \A v \in Workers : Single(inbox'[v]) /\ Single(pending'[v])
    <3>1. Single(Append(inbox[x], t))
      BY <1>1, <2>0, RangeAppend DEF Typed, PlaceInv
    <3> QED
      BY <1>2, <2>1, <3>1 DEF PlaceInv
  <2>4. Placed(t)'
    <3>1. OnlyIn(x, {"inbox"}, t)'
      BY <1>1, <1>2, <2>0, <2>1, <2>2, OnlyInNext
    <3> QED
      BY <1>3, <2>0, <3>1, PlacedOnce DEF Queues
  <2>5. ASSUME NEW u \in Tasks \ {t} PROVE Placed(u)'
    BY <1>2, <1>3, <2>1, <2>2, PlacedSame DEF PlaceInv
  <2> QED
    BY <2>3, <2>4, <2>5 DEF PlaceInv
<1> QED
  BY <1>4, <1>5 DEF DeferTask

LEMMA PlaceAgain ==
    ASSUME Typed, PlaceInv, NEW w \in Workers, DeferTaskAgain(w)
    PROVE  PlaceInv'
<1>0. PICK t \in Tasks : t = cur[w]
  BY DEF DeferTaskAgain, Typed
<1>1. OnlyIn(w, {"cur"}, t)
  <2>1. refs[t] = 1
    BY <1>0 DEF DeferTaskAgain
  <2> QED
    BY <1>0, <2>1, BeingDispatched, InIs
<1>2. /\ refs'[t] = 2 /\ \A u \in Tasks \ {t} : refs'[u] = refs[u]
      /\ UNCHANGED <<inbox, delayed, cur>>
      /\ \A v \in Workers : pending'[v] = IF v = w THEN Append(pending[v], t) ELSE pending[v]
  BY <1>0 DEF DeferTaskAgain, Typed
<1>3. \A v \in Workers : /\ v = w => Range(pending'[v]) = Range(pending[v]) \cup {t}
                         /\ v # w => Range(pending'[v]) = Range(pending[v])
  BY <1>0, <1>2, RangeAppend DEF Typed
<1>4. \A v \in Workers : /\ t \notin Range(inbox[v]) /\ t \notin delayed[v]
                         /\ t \notin Range(pending[v]) /\ (cur[v] = t <=> v = w)
  BY <1>1, OnlyInIs
<1>5. \A v \in Workers : Single(inbox'[v]) /\ Single(pending'[v])
  <2>1. Single(Append(pending[w], t))
    BY <1>4, RangeAppend DEF Typed, PlaceInv
  <2> QED
    BY <1>2, <2>1 DEF PlaceInv
<1>6. Placed(t)'
  <2>0. \A v \in Workers :
           /\ t \notin Range(inbox'[v]) /\ t \notin delayed'[v]
           /\ (t \in Range(pending'[v]) <=> v = w) /\ (cur'[v] = t <=> v = w)
    BY <1>2, <1>3, <1>4
  <2>1. OnlyIn(w, {"cur", "pending"}, t)'
    BY <2>0, OnlyInNext
  <2> QED
    BY <1>2, <2>1 DEF Placed, InTwoPlaces
<1>7. ASSUME NEW u \in Tasks \ {t} PROVE Placed(u)'
  BY <1>2, <1>3, PlacedSame DEF PlaceInv
<1> QED
  BY <1>5, <1>6, <1>7 DEF PlaceInv

LEMMA PlacePop ==
    ASSUME Typed, PlaceInv, NEW w \in Workers, PopInbox(w)
    PROVE  PlaceInv'
<1>0. PICK t \in Tasks : t = Head(inbox[w])
  BY RangeTail DEF PopInbox, Typed
<1>1. /\ inbox[w] # <<>> /\ inbox[w] \in Seq(Tasks) /\ Single(inbox[w])
      /\ cur[w] = Null /\ UNCHANGED <<pending, refs>>
      /\ \A v \in Workers : inbox'[v] = IF v = w THEN Tail(inbox[v]) ELSE inbox[v]
  BY DEF PopInbox, Typed, PlaceInv, Idle
<1>2. /\ Range(inbox[w]) = Range(inbox'[w]) \cup {t} /\ t \notin Range(inbox'[w])
      /\ Single(inbox'[w])
  BY <1>0, <1>1, RangeTail
<1>3. \A v \in Workers : v # w => inbox'[v] = inbox[v]
  BY <1>1
<1>4. refs[t] = 1 /\ OnlyIn(w, {"inbox"}, t)
  <2>1. In(w, "inbox", t)
    BY <1>2, InIs
  <2> QED
    BY <2>1, Queued
<1>5. \A v \in Workers :
         /\ (t \in Range(inbox[v]) <=> v = w) /\ t \notin delayed[v]
         /\ t \notin Range(pending[v]) /\ cur[v] # t
  BY <1>4, OnlyInIs
<1>6. \A v \in Workers : Single(inbox'[v]) /\ Single(pending'[v])
  BY <1>1, <1>2, <1>3 DEF PlaceInv
<1>7. \A v \in Workers : t \notin Range(inbox'[v]) /\ t \notin Range(pending'[v])
  BY <1>1, <1>2, <1>3, <1>5
<1>8. CASE UNCHANGED cur /\ \A v \in Workers : delayed'[v] = IF v = w THEN delayed[v] \cup {t} ELSE delayed[v]
  <2>1. Placed(t)'
    <3>1. OnlyIn(w, {"delayed"}, t)'
      <4>1. \A v \in Workers : (t \in delayed'[v] <=> v = w) /\ cur'[v] # t
        BY <1>5, <1>8
      <4> QED
        BY <1>7, <4>1, OnlyInNext
    <3> QED
      BY <1>1, <1>4, <3>1, PlacedOnce DEF Queues
  <2>2. ASSUME NEW u \in Tasks \ {t} PROVE Placed(u)'
    BY <1>1, <1>2, <1>3, <1>8, PlacedSame DEF PlaceInv
  <2> QED
    BY <1>6, <2>1, <2>2 DEF PlaceInv
<1>9. CASE UNCHANGED delayed /\ \A v \in Workers : cur'[v] = IF v = w THEN t ELSE cur[v]
  <2>1. Placed(t)'
    <3>1. OnlyIn(w, {"cur"}, t)'
      <4>1. \A v \in Workers : t \notin delayed'[v] /\ (cur'[v] = t <=> v = w)
        BY <1>5, <1>9
      <4> QED
        BY <1>7, <4>1, OnlyInNext
    <3> QED
      BY <1>1, <1>4, <3>1, PlacedOnce DEF Queues
  <2>2. ASSUME NEW u \in Tasks \ {t} PROVE Placed(u)'
    <3>1. \A v \in Workers : cur'[v] = u <=> cur[v] = u
      BY <1>1, <1>9, ClockAssumption
    <3> QED
      BY <1>1, <1>2, <1>3, <1>9, <3>1, PlacedSame DEF PlaceInv
  <2> QED
    BY <1>6, <2>1, <2>2 DEF PlaceInv
<1> QED
  BY <1>0, <1>8, <1>9 DEF PopInbox, Dispatch, Typed

LEMMA PlaceEnter ==
    ASSUME Typed, PlaceInv, LoopInv, NEW w \in Workers, EnterLocal(w)
    PROVE  PlaceInv'
<1>1. /\ UNCHANGED <<inbox, refs, cur>>
      /\ \A v \in Workers : /\ delayed'[v] = IF v = w THEN delayed[v] \cup Range(pending[v]) ELSE delayed[v]
                            /\ pending'[v] = IF v = w THEN <<>> ELSE pending[v]
  BY DEF EnterLocal, MovePending, Typed
<1>2. cur[w] = Null
  BY DEF EnterLocal, LoopInv, Idle
<1>3. Range(pending'[w]) = {} /\ Single(pending'[w])
  BY <1>1, RangeEmpty
<1>4. \A v \in Workers : Single(inbox'[v]) /\ Single(pending'[v])
  BY <1>1, <1>3 DEF PlaceInv
<1>5. ASSUME NEW t \in Tasks, t \in Range(pending[w])
      PROVE  Placed(t)'
  <2>1. refs[t] = 1 /\ OnlyIn(w, {"pending"}, t)
    BY <1>2, <1>5, InIs, WaitsAgain, ClockAssumption
  <2>2. \A v \in Workers : /\ t \notin Range(inbox[v]) /\ t \notin delayed[v]
                           /\ (t \in Range(pending[v]) <=> v = w) /\ cur[v] # t
    BY <2>1, OnlyInIs
  <2>3. \A v \in Workers : /\ t \notin Range(inbox'[v]) /\ (t \in delayed'[v] <=> v = w)
                           /\ t \notin Range(pending'[v]) /\ cur'[v] # t
    BY <1>1, <1>3, <1>5, <2>2
  <2>4. OnlyIn(w, {"delayed"}, t)'
    BY <2>3, OnlyInNext
  <2> QED
    BY <1>1, <2>1, <2>4, PlacedOnce DEF Queues
<1>6. ASSUME NEW t \in Tasks, t \notin Range(pending[w])
      PROVE  Placed(t)'
  <2>1. \A v \in Workers : /\ t \in Range(inbox'[v]) <=> t \in Range(inbox[v])
                           /\ t \in delayed'[v] <=> t \in delayed[v]
                           /\ t \in Range(pending'[v]) <=> t \in Range(pending[v])
                           /\ cur'[v] = t <=> cur[v] = t
    BY <1>1, <1>3, <1>6
  <2> QED
    BY <1>1, <2>1, PlacedSame DEF PlaceInv
<1> QED
  BY <1>4, <1>5, <1>6 DEF PlaceInv

LEMMA PlaceRun ==
    ASSUME Typed, PlaceInv, NEW w \in Workers, RunTop(w)
    PROVE  PlaceInv'
<1>0. PICK t \in Tasks : t \in delayed[w] /\ delayed' = [delayed EXCEPT ![w] = @ \ {t}] /\ Dispatch(w, t)
  BY DEF RunTop, Typed
<1>1. /\ cur[w] = Null /\ UNCHANGED <<inbox, pending, refs>>
      /\ \A v \in Workers : /\ delayed'[v] = IF v = w THEN delayed[v] \ {t} ELSE delayed[v]
                            /\ cur'[v] = IF v = w THEN t ELSE cur[v]
  BY <1>0 DEF RunTop, Dispatch, Typed, Idle
<1>2. refs[t] = 1 /\ OnlyIn(w, {"delayed"}, t)
  BY <1>0, InIs, Queued
<1>3. \A v \in Workers : /\ t \notin Range(inbox[v]) /\ (t \in delayed[v] <=> v = w)
                         /\ t \notin Range(pending[v]) /\ cur[v] # t
  BY <1>2, OnlyInIs
<1>4. OnlyIn(w, {"cur"}, t)'
  <2>1. \A v \in Workers : /\ t \notin Range(inbox'[v]) /\ t \notin delayed'[v]
                           /\ t \notin Range(pending'[v]) /\ (cur'[v] = t <=> v = w)
    BY <1>1, <1>3
  <2> QED
    BY <2>1, OnlyInNext
<1>5. Placed(t)'
  BY <1>1, <1>2, <1>4, PlacedOnce DEF Queues
<1>6. ASSUME NEW u \in Tasks \ {t} PROVE Placed(u)'
  <2>1. \A v \in Workers : (u \in delayed'[v] <=> u \in delayed[v]) /\ (cur'[v] = u <=> cur[v] = u)
    BY <1>1, ClockAssumption
  <2> QED
    BY <1>1, <2>1, PlacedSame DEF PlaceInv
<1> QED
  BY <1>1, <1>5, <1>6 DEF PlaceInv

LEMMA PlaceEnd ==
    ASSUME Typed, PlaceInv, NEW w \in Workers, EndDispatch(w)
    PROVE  PlaceInv'
<1>0. PICK t \in Tasks : t = cur[w]
  BY DEF EndDispatch, Typed
<1>1. /\ UNCHANGED queues
      /\ refs'[t] = refs[t] - 1 /\ \A u \in Tasks \ {t} : refs'[u] = refs[u]
      /\ \A v \in Workers : cur'[v] = IF v = w THEN Null ELSE cur[v]
  BY <1>0 DEF EndDispatch, Typed
<1>2. \/ refs[t] = 1 /\ OnlyIn(w, {"cur"}, t)
      \/ refs[t] = 2 /\ OnlyIn(w, {"cur", "pending"}, t)
  BY <1>0, BeingDispatched, InIs
<1>3. ASSUME refs[t] = 1, OnlyIn(w, {"cur"}, t) PROVE Placed(t)'
  <2>1. \A v \in Workers : /\ t \notin Range(inbox[v]) /\ t \notin delayed[v]
                           /\ t \notin Range(pending[v]) /\ (cur[v] = t <=> v = w)
    BY <1>3, OnlyInIs
  <2>2. \A v \in Workers : /\ t \notin Range(inbox'[v]) /\ t \notin delayed'[v]
                           /\ t \notin Range(pending'[v]) /\ cur'[v] # t
    BY <1>1, <2>1, ClockAssumption DEF queues
  <2>3. refs'[t] = 0
    BY <1>1, <1>3
  <2> QED
    BY <1>1, <2>2, <2>3, PlacedNowhere
<1>4. ASSUME refs[t] = 2, OnlyIn(w, {"cur", "pending"}, t) PROVE Placed(t)'
  <2>1. \A v \in Workers : /\ t \notin Range(inbox[v]) /\ t \notin delayed[v]
                           /\ (t \in Range(pending[v]) <=> v = w) /\ (cur[v] = t <=> v = w)
    BY <1>4, OnlyInIs
  <2>2. \A v \in Workers : /\ t \notin Range(inbox'[v]) /\ t \notin delayed'[v]
                           /\ (t \in Range(pending'[v]) <=> v = w) /\ cur'[v] # t
    BY <1>1, <2>1, ClockAssumption DEF queues
  <2>3. OnlyIn(w, {"pending"}, t)' /\ refs'[t] = 1
    BY <1>1, <1>4, <2>2, OnlyInNext
  <2> QED
    BY <2>3, PlacedOnce DEF Queues
<1>5. ASSUME NEW u \in Tasks \ {t} PROVE Placed(u)'
  <2>1. \A v \in Workers : cur'[v] = u <=> cur[v] = u
    BY <1>0, <1>1, ClockAssumption
  <2> QED
    BY <1>1, <2>1, PlacedSame DEF PlaceInv, queues
<1> QED
  BY <1>1, <1>2, <1>3, <1>4, <1>5 DEF PlaceInv, queues

LEMMA PlaceStop ==
    ASSUME Typed, PlaceInv, NEW w \in Workers, StopWorker(w)
    PROVE  PlaceInv'
<1>1. /\ UNCHANGED <<inbox, pending, cur>>
      /\ \A t \in Tasks : refs'[t] = IF t \in delayed[w] THEN refs[t] - 1 ELSE refs[t]
      /\ \A v \in Workers : delayed'[v] = IF v = w THEN {} ELSE delayed[v]
  BY DEF StopWorker, Unreference, Typed
<1>2. ASSUME NEW t \in Tasks, t \in delayed[w] PROVE Placed(t)'
  <2>1. refs[t] = 1 /\ OnlyIn(w, {"delayed"}, t)
    BY <1>2, InIs, Queued
  <2>2. \A v \in Workers : /\ t \notin Range(inbox[v]) /\ (t \in delayed[v] <=> v = w)
                           /\ t \notin Range(pending[v]) /\ cur[v] # t
    BY <2>1, OnlyInIs
  <2>3. refs'[t] = 0
    BY <1>1, <1>2, <2>1
  <2> QED
    BY <1>1, <2>2, <2>3, PlacedNowhere
<1>3. ASSUME NEW t \in Tasks, t \notin delayed[w] PROVE Placed(t)'
  BY <1>1, <1>3, PlacedSame DEF PlaceInv
<1> QED
  BY <1>1, <1>2, <1>3 DEF PlaceInv

LEMMA PlaceJoin ==
    ASSUME Typed, PlaceInv, NEW w \in Workers, Join(w)
    PROVE  PlaceInv'
<1>1. /\ UNCHANGED <<delayed, pending, cur>>
      /\ \A t \in Tasks : refs'[t] = IF t \in Range(inbox[w]) THEN refs[t] - 1 ELSE refs[t]
      /\ \A v \in Workers : inbox'[v] = IF v = w THEN <<>> ELSE inbox[v]
  BY DEF Join, Unreference, Typed
<1>2. Range(inbox'[w]) = {} /\ Single(inbox'[w])
  BY <1>1, RangeEmpty
<1>3. ASSUME NEW t \in Tasks, t \in Range(inbox[w]) PROVE Placed(t)'
  <2>1. refs[t] = 1 /\ OnlyIn(w, {"inbox"}, t)
    BY <1>3, InIs, Queued
  <2>2. \A v \in Workers : /\ (t \in Range(inbox[v]) <=> v = w) /\ t \notin delayed[v]
                           /\ t \notin Range(pending[v]) /\ cur[v] # t
    BY <2>1, OnlyInIs
  <2>3. refs'[t] = 0
    BY <1>1, <1>3, <2>1
  <2>4. \A v \in Workers : t \notin Range(inbox'[v])
    BY <1>1, <1>2, <2>2
  <2> QED
    BY <1>1, <2>2, <2>3, <2>4, PlacedNowhere
<1>4. ASSUME NEW t \in Tasks, t \notin Range(inbox[w]) PROVE Placed(t)'
  <2>1. \A v \in Workers : t \in Range(inbox'[v]) <=> t \in Range(inbox[v])
    BY <1>1, <1>2, <1>4
  <2> QED
    BY <1>1, <1>4, <2>1, PlacedSame DEF PlaceInv
<1>5. \A v \in Workers : Single(inbox'[v]) /\ Single(pending'[v])
  BY <1>1, <1>2 DEF PlaceInv
<1> QED
  BY <1>3, <1>4, <1>5 DEF PlaceInv

LEMMA PlaceRest ==
    ASSUME PlaceInv, UNCHANGED <<refs, inbox, delayed, pending, cur>>
    PROVE  PlaceInv'
BY PlacedSame DEF PlaceInv

(* All steps but those above leave the references and queues alone.        *)
LEMMA PlaceStep ==
    ASSUME Typed, PlaceInv, LoopInv, NewInv, [Next]_vars
    PROVE  PlaceInv'
<1>1. CASE Advance \/ UNCHANGED vars \/ \E g \in AllGroups : StopGroup(g)
  BY <1>1, PlaceRest DEF Advance, vars, queues, StopGroup
<1>2. ASSUME NEW w \in Workers, EnterGlobal(w) \/ EndLocal(w) PROVE PlaceInv'
  BY <1>2, PlaceRest DEF EnterGlobal, EndLocal, queues
<1> QED
  BY <1>1, <1>2, PlaceDefer, PlaceAgain, PlacePop, PlaceEnter, PlaceRun, PlaceEnd, PlaceStop, PlaceJoin
     DEF Next, Handle

-----------------------------------------------------------------------------
(***************************************************************************)
(* Where a worker is, and what was never deferred.                         *)
(***************************************************************************)
LEMMA LoopInit == Init => LoopInv
BY DEF Init, QueuesInit, LoopInv

LEMMA LoopStep ==
    ASSUME Typed, LoopInv, [Next]_vars
    PROVE  LoopInv'
<1>1. CASE Advance
  BY <1>1 DEF Advance, LoopInv, Typed, queues, flow, HandlesTimers
<1>2. ASSUME NEW w \in Workers, NEW t \in Tasks, DeferTask(w, t) PROVE LoopInv'
  <2>1. pc[w] \notin {"stopped", "joined"} /\ UNCHANGED <<now, flow, cur>>
    BY <1>2 DEF DeferTask, InUserCode, LoopInv
  <2>2. \A v \in Workers : pc[v] # "joined"
    BY <2>1 DEF LoopInv
  <2>3. \A v \in Workers : v # w => delayed'[v] = delayed[v]
    BY <1>2 DEF DeferTask, Keep, ScheduleTask, Schedule, Typed
  <2> QED
    BY <2>1, <2>2, <2>3 DEF LoopInv, flow, HandlesTimers
<1>3. ASSUME NEW w \in Workers, DeferTaskAgain(w) PROVE LoopInv'
  BY <1>3 DEF DeferTaskAgain, LoopInv, flow, HandlesTimers
<1>4. ASSUME NEW w \in Workers, EnterGlobal(w) PROVE LoopInv'
  <2>1. /\ pc[w] = "loop" /\ HandlesTimers(w) /\ ~AllActive /\ UNCHANGED <<now, queues, cur>>
        /\ \A v \in Workers : /\ v # w => pc'[v] = pc[v] /\ at'[v] = at[v]
                              /\ v = w => pc'[v] = "inbox" /\ at'[v] = now
    BY <1>4 DEF EnterGlobal, Typed
  <2>2. \A v \in Workers : pc[v] # "joined"
    BY <2>1 DEF LoopInv
  <2>3. now' = now /\ now \in Nat
    BY <2>1, ClockAssumption DEF Typed
  <2> QED
    BY <2>1, <2>2, <2>3 DEF LoopInv, HandlesTimers, queues
<1>5. ASSUME NEW w \in Workers, PopInbox(w) PROVE LoopInv'
  <2>1. pc[w] = "inbox" /\ UNCHANGED <<now, flow>>
    BY <1>5 DEF PopInbox
  <2>2. \A v \in Workers : v # w => /\ delayed'[v] = delayed[v] /\ cur'[v] = cur[v] /\ inbox'[v] = inbox[v]
    BY <1>5 DEF PopInbox, Dispatch, Typed
  <2> QED
    BY <2>1, <2>2 DEF LoopInv, flow, HandlesTimers
<1>6. ASSUME NEW w \in Workers, EnterLocal(w) PROVE LoopInv'
  <2>1. /\ pc[w] \in {"loop", "inbox"} /\ HandlesTimers(w) /\ UNCHANGED <<now, inbox, cur>>
        /\ \A v \in Workers : /\ v # w => pc'[v] = pc[v] /\ at'[v] = at[v] /\ delayed'[v] = delayed[v]
                              /\ v = w => pc'[v] = "delayed" /\ at'[v] = now
    BY <1>6 DEF EnterLocal, MovePending, LoopInv, Typed
  <2>2. \A v \in Workers : pc[v] # "joined"
    BY <2>1 DEF LoopInv
  <2>3. now' = now /\ now \in Nat
    BY <2>1, ClockAssumption DEF Typed
  <2> QED
    BY <2>1, <2>2, <2>3 DEF LoopInv, HandlesTimers
<1>7. ASSUME NEW w \in Workers, RunTop(w) PROVE LoopInv'
  <2>1. /\ pc[w] = "delayed" /\ UNCHANGED <<now, flow, inbox>>
        /\ \A v \in Workers : v # w => delayed'[v] = delayed[v] /\ cur'[v] = cur[v]
    BY <1>7 DEF RunTop, Dispatch, Typed
  <2> QED
    BY <2>1 DEF LoopInv, flow, HandlesTimers
<1>8. ASSUME NEW w \in Workers, EndDispatch(w) PROVE LoopInv'
  BY <1>8 DEF EndDispatch, LoopInv, Typed, queues, flow, HandlesTimers
<1>9. ASSUME NEW w \in Workers, EndLocal(w) PROVE LoopInv'
  BY <1>9 DEF EndLocal, LoopInv, Typed, queues, HandlesTimers, Idle
<1>10. ASSUME NEW w \in Workers, StopWorker(w) PROVE LoopInv'
  BY <1>10 DEF StopWorker, LoopInv, Typed, HandlesTimers
<1>11. ASSUME NEW w \in Workers, Join(w) PROVE LoopInv'
  <2>1. /\ pc[w] = "stopped" /\ UNCHANGED <<now, at, cur, delayed>>
        /\ \A v \in Workers : /\ pc[v] \in {"stopped", "joined"}
                              /\ v # w => pc'[v] = pc[v] /\ inbox'[v] = inbox[v]
                              /\ v = w => pc'[v] = "joined" /\ inbox'[v] = <<>>
    BY <1>11 DEF Join, Typed
  <2> QED
    BY <2>1 DEF LoopInv, HandlesTimers
<1>12. CASE UNCHANGED vars \/ \E g \in AllGroups : StopGroup(g)
  BY <1>12 DEF StopGroup, vars, LoopInv, queues, flow, HandlesTimers
<1> QED
  BY <1>1, <1>2, <1>3, <1>4, <1>5, <1>6, <1>7, <1>8, <1>9, <1>10, <1>11, <1>12 DEF Next, Handle

(* How often the present ticks have dispatched a task.                     *)
LEMMA TimesNat ==
    ASSUME Typed
    PROVE  \A w \in Workers, t \in Tasks : Times(tick[w], t) \in Nat
BY TimesType DEF Typed

LEMMA TicksMoved ==
    ASSUME Typed, NEW w \in Workers, NEW t \in Tasks, Dispatch(w, t)
    PROVE  \A v \in Workers, u \in Tasks :
              Times(tick'[v], u) = Times(tick[v], u) + (IF v = w /\ u = t THEN 1 ELSE 0)
<1> SUFFICES ASSUME NEW v \in Workers, NEW u \in Tasks
             PROVE  Times(tick'[v], u) = Times(tick[v], u) + (IF v = w /\ u = t THEN 1 ELSE 0)
  OBVIOUS
<1>1. Times(tick[v], u) \in Nat /\ tick[v] \in Seq(Tasks)
  BY TimesNat DEF Typed
<1>2. tick'[v] = IF v = w THEN Append(tick[v], t) ELSE tick[v]
  BY DEF Dispatch, Typed
<1>3. CASE v = w
  BY <1>1, <1>2, <1>3, TimesAppend
<1>4. CASE v # w
  BY <1>1, <1>2, <1>4
<1> QED
  BY <1>3, <1>4

LEMMA NewInit == Init => NewInv
BY TimesEmpty DEF Init, QueuesInit, NewInv

LEMMA NewStep ==
    ASSUME Typed, PlaceInv, NewInv, [Next]_vars
    PROVE  NewInv'
<1>1. ASSUME NEW w \in Workers, NEW t \in Tasks, DeferTask(w, t) PROVE NewInv'
  <2>1. /\ UNCHANGED tick /\ source'[t] = w
        /\ \A u \in Tasks : u # t => source'[u] = source[u] /\ refs'[u] = refs[u]
    BY <1>1 DEF DeferTask, Typed
  <2>2. w # Null
    BY ClockAssumption
  <2> QED
    BY <2>1, <2>2 DEF NewInv
<1>2. ASSUME NEW w \in Workers, DeferTaskAgain(w) PROVE NewInv'
  BY <1>2 DEF DeferTaskAgain, NewInv, Typed
<1>3. ASSUME NEW w \in Workers, NEW t \in Tasks, refs[t] > 0, Dispatch(w, t), UNCHANGED <<refs, source>>
      PROVE  NewInv'
  <2>1. ASSUME NEW u \in Tasks, source[u] = Null, NEW v \in Workers
        PROVE  refs[u] = 0 /\ Times(tick'[v], u) = 0
    <3>1. refs[u] = 0 /\ Times(tick[v], u) = 0 /\ u # t
      BY <1>3, <2>1 DEF NewInv
    <3> QED
      BY <1>3, <3>1, TicksMoved
  <2>2. \A u \in Tasks : source[u] = Null => refs[u] = 0
    BY DEF NewInv
  <2> QED
    BY <1>3, <2>1, <2>2 DEF NewInv, Times
<1>4. ASSUME NEW w \in Workers, PopInbox(w) PROVE NewInv'
  <2>1. CASE UNCHANGED tick
    BY <1>4, <2>1 DEF PopInbox, NewInv
  <2>2. CASE Dispatch(w, Head(inbox[w]))
    <3>1. PICK t \in Tasks : t = Head(inbox[w]) /\ t \in Range(inbox[w])
      BY <1>4, RangeTail DEF PopInbox, Typed
    <3>2. refs[t] > 0
      BY <3>1, Counted, InIs DEF Queues
    <3> QED
      BY <1>3, <1>4, <2>2, <3>1, <3>2 DEF PopInbox
  <2> QED
    BY <1>4, <2>1, <2>2 DEF PopInbox
<1>5. ASSUME NEW w \in Workers, RunTop(w) PROVE NewInv'
  <2>1. PICK t \in Tasks : t \in delayed[w] /\ Dispatch(w, t)
    BY <1>5 DEF RunTop, Typed
  <2>2. refs[t] > 0
    BY <2>1, Counted, InIs DEF Queues
  <2> QED
    BY <1>3, <1>5, <2>1, <2>2 DEF RunTop
<1>6. ASSUME NEW w \in Workers, UNCHANGED <<refs, source>>,
             \A v \in Workers : tick'[v] = tick[v] \/ tick'[v] = <<>>
      PROVE  NewInv'
  BY <1>6, TimesEmpty DEF NewInv
<1>7. ASSUME NEW w \in Workers, EnterGlobal(w) \/ EnterLocal(w) PROVE NewInv'
  BY <1>6, <1>7 DEF EnterGlobal, EnterLocal, MovePending, Typed
<1>8. ASSUME NEW w \in Workers, EndDispatch(w) PROVE NewInv'
  <2>0. cur[w] \in Tasks /\ In(w, "cur", cur[w])
    BY <1>8, InIs DEF EndDispatch, Typed
  <2>1. cur[w] \in Tasks /\ refs[cur[w]] > 0
    <3>1. "cur" \in Queues
      BY DEF Queues
    <3>2. refs[cur[w]] \in 1 .. 2
      BY <2>0, <3>1, Counted
    <3> QED
      BY <2>0, <3>2
  <2>2. source[cur[w]] # Null
    BY <2>1 DEF NewInv
  <2> QED
    BY <1>8, <2>1, <2>2 DEF EndDispatch, NewInv, Typed
<1>9. ASSUME NEW w \in Workers, NEW lost, Unreference(lost), UNCHANGED <<source, tick>>,
             \A t \in lost : t \in delayed[w] \/ t \in Range(inbox[w])
      PROVE  NewInv'
  <2>1. \A t \in Tasks : t \in lost => source[t] # Null
    BY <1>9, Counted, InIs DEF NewInv, Queues
  <2> QED
    BY <1>9, <2>1 DEF Unreference, NewInv
<1>10. ASSUME NEW w \in Workers, StopWorker(w) \/ Join(w) PROVE NewInv'
  BY <1>9, <1>10 DEF StopWorker, Join
<1>11. CASE UNCHANGED <<refs, source, tick>>
  BY <1>11 DEF NewInv
<1>12. CASE Advance \/ UNCHANGED vars \/ \E g \in AllGroups : StopGroup(g)
  BY <1>11, <1>12 DEF Advance, StopGroup, vars
<1>13. ASSUME NEW w \in Workers, EndLocal(w) PROVE NewInv'
  BY <1>11, <1>13 DEF EndLocal
<1> QED
  BY <1>1, <1>2, <1>4, <1>5, <1>7, <1>8, <1>10, <1>12, <1>13 DEF Next, Handle

(***************************************************************************)
(* What the present ticks have dispatched.                                 *)
(***************************************************************************)
LEMMA TickInit == Init => TickInv /\ NoTaskHogsTheTick
BY TimesEmpty, RangeEmpty DEF Init, QueuesInit, TickInv, NoTaskHogsTheTick

(* The frame of the steps that dispatch nothing and start no tick.         *)
Ticked(w, t) ==
    /\ Times(tick[w], t) <= 1
    /\ Times(tick[w], t) = 1 => Scheduled(t) /\ ~AllActive

LEMMA TickInvIs ==
    TickInv <=> \A w \in Workers, t \in Tasks :
                  /\ t \in Range(inbox[w]) => Scheduled(t) /\ \A v \in Workers : Times(tick[v], t) = 0
                  /\ pc[w] = "inbox" \/ (pc[w] = "delayed" /\ t \in delayed[w]) => Ticked(w, t)
BY DEF TickInv, Ticked

LEMMA HogIs ==
    NoTaskHogsTheTick <=> \A w \in Workers, t \in Tasks :
        /\ Times(tick[w], t) <= IF AllActive THEN 1 ELSE 2
        /\ Times(tick[w], t) = 2 => Scheduled(t)
BY DEF NoTaskHogsTheTick, Scheduled

(* A task that is dispatched had not been in this tick, or once, brought   *)
(* by the inbox.                                                           *)
LEMMA TickDispatch ==
    ASSUME Typed, NoTaskHogsTheTick, NEW w \in Workers, NEW t \in Tasks, Ticked(w, t),
           Dispatch(w, t), UNCHANGED source
    PROVE  NoTaskHogsTheTick'
<1>1. \A v \in Workers, u \in Tasks :
         Times(tick'[v], u) = Times(tick[v], u) + (IF v = w /\ u = t THEN 1 ELSE 0)
  BY TicksMoved
<1>2. \A v \in Workers, u \in Tasks : Times(tick[v], u) \in Nat
  BY TimesNat
<1>3. ASSUME NEW v \in Workers, NEW u \in Tasks
      PROVE  /\ Times(tick'[v], u) <= IF AllActive THEN 1 ELSE 2
             /\ Times(tick'[v], u) = 2 => Scheduled(u)
  <2>1. CASE v = w /\ u = t
    <3>1. Times(tick'[w], t) = Times(tick[w], t) + 1
      BY <1>1, <2>1
    <3>2. Times(tick[w], t) = 0 \/ (Times(tick[w], t) = 1 /\ Scheduled(t) /\ ~AllActive)
      BY <1>2 DEF Ticked
    <3> QED
      BY <2>1, <3>1, <3>2
  <2>2. CASE ~(v = w /\ u = t)
    <3>1. Times(tick'[v], u) = Times(tick[v], u)
      BY <1>1, <1>2, <2>2
    <3> QED
      BY <3>1 DEF NoTaskHogsTheTick, Scheduled
  <2> QED
    BY <2>1, <2>2
<1>4. \A u : Scheduled(u)' <=> Scheduled(u)
  BY DEF Scheduled, HandlesTimers
<1> QED
  BY <1>3, <1>4 DEF NoTaskHogsTheTick, Scheduled, Times

LEMMA TickFrame ==
    ASSUME TickInv, NoTaskHogsTheTick, UNCHANGED <<source, tick>>,
           \A v \in Workers : Range(inbox'[v]) \subseteq Range(inbox[v]),
           \A v \in Workers, t \in Tasks :
              pc'[v] = "inbox" \/ (pc'[v] = "delayed" /\ t \in delayed'[v]) =>
                 pc[v] = "inbox" \/ (pc[v] = "delayed" /\ t \in delayed[v])
    PROVE  TickInv' /\ NoTaskHogsTheTick'
<1>1. \A t : Scheduled(t)' <=> Scheduled(t)
  BY DEF Scheduled, HandlesTimers
<1>2. \A v \in Workers, t \in Tasks : Times(tick'[v], t) = Times(tick[v], t)
  OBVIOUS
<1>3. \A v \in Workers, t \in Tasks : t \in Range(inbox'[v]) => t \in Range(inbox[v])
  OBVIOUS
<1>4. TickInv'
  BY <1>1, <1>2, <1>3 DEF TickInv, Times, Range
<1>5. NoTaskHogsTheTick'
  BY DEF NoTaskHogsTheTick, HandlesTimers, Times
<1> QED
  BY <1>4, <1>5

LEMMA TickDefer ==
    ASSUME Typed, NewInv, TickInv, NoTaskHogsTheTick, NEW w \in Workers, NEW t \in Tasks, DeferTask(w, t)
    PROVE  TickInv' /\ NoTaskHogsTheTick'
<1>1. /\ UNCHANGED <<tick, pc>> /\ source[t] = Null /\ source'[t] = w
      /\ \A u \in Tasks : u # t => source'[u] = source[u]
  BY DEF DeferTask, Typed, flow
<1>2. \A v \in Workers : Times(tick[v], t) = 0
  BY <1>1 DEF NewInv
<1>3. \A v \in Workers, u \in Tasks : Times(tick'[v], u) = Times(tick[v], u)
  BY <1>1
<1>4. \A u \in Tasks : u # t => (Scheduled(u)' <=> Scheduled(u))
  BY <1>1 DEF Scheduled, HandlesTimers
<1>5. \A v \in Workers, u \in Tasks : u # t /\ u \in delayed'[v] => u \in delayed[v]
  <2>1. CASE Keep(w, t)
    BY <2>1 DEF Keep, Typed
  <2>2. CASE ScheduleTask(w, t)
    BY <2>2 DEF ScheduleTask, Schedule
  <2> QED
    BY <2>1, <2>2 DEF DeferTask
<1>6. \A v \in Workers, u \in Tasks : u # t /\ u \in Range(inbox'[v]) => u \in Range(inbox[v])
  <2>1. CASE inbox' = inbox
    BY <2>1
  <2>2. CASE ScheduleTask(w, t)
    <3>1. PICK x \in Workers : x = TargetOf(DeferredTasksHandlingGroups, w)
      BY <2>2, Target DEF ScheduleTask, Schedule
    <3>2. \A v \in Workers : inbox'[v] = IF v = x THEN Append(inbox[v], t) ELSE inbox[v]
      BY <2>2, <3>1 DEF ScheduleTask, Schedule, Typed
    <3>3. \A v \in Workers : v = x => Range(inbox'[v]) = Range(inbox[v]) \cup {t}
      BY <3>2, RangeAppend DEF Typed
    <3> QED
      BY <3>2, <3>3
  <2> QED
    BY <2>1, <2>2 DEF DeferTask, Keep
<1>7. \A v \in Workers : t \in Range(inbox'[v]) => Scheduled(t)'
  <2>1. CASE HandlesTimers(w)
    <3>1. inbox' = inbox
      BY <2>1 DEF DeferTask, Keep
    <3>2. \A v \in Workers : t \notin Range(inbox[v])
      BY <1>1, ClockAssumption DEF TickInv, Scheduled
    <3> QED
      BY <3>1, <3>2
  <2>2. CASE ~HandlesTimers(w)
    BY <1>1, <2>2 DEF Scheduled, HandlesTimers
  <2> QED
    BY <2>1, <2>2
<1>8. TickInv'
  <2> SUFFICES ASSUME NEW v \in Workers, NEW u \in Tasks
               PROVE  /\ u \in Range(inbox'[v]) => Scheduled(u)' /\ \A x \in Workers : Times(tick'[x], u) = 0
                      /\ pc'[v] = "inbox" \/ (pc'[v] = "delayed" /\ u \in delayed'[v]) =>
                            /\ Times(tick'[v], u) <= 1
                            /\ Times(tick'[v], u) = 1 => Scheduled(u)' /\ ~AllActive
    BY DEF TickInv, Times, Range
  <2>1. CASE u = t
    BY <1>2, <1>3, <1>7, <2>1
  <2>2. CASE u # t
    BY <1>1, <1>3, <1>4, <1>5, <1>6, <2>2 DEF TickInv
  <2> QED
    BY <2>1, <2>2
<1>9. NoTaskHogsTheTick'
  <2> SUFFICES ASSUME NEW v \in Workers, NEW u \in Tasks
               PROVE  /\ Times(tick'[v], u) <= IF AllActive THEN 1 ELSE 2
                      /\ Times(tick'[v], u) = 2 => Scheduled(u)'
    BY DEF NoTaskHogsTheTick, Times, Scheduled
  <2>1. CASE u = t
    BY <1>2, <1>3, <2>1
  <2>2. CASE u # t
    BY <1>3, <1>4, <2>2 DEF NoTaskHogsTheTick, Scheduled
  <2> QED
    BY <2>1, <2>2
<1> QED
  BY <1>8, <1>9

(* A worker starts a tick.                                                 *)
LEMMA TickStart ==
    ASSUME Typed, TickInv, NoTaskHogsTheTick, NEW w \in Workers, UNCHANGED <<source, inbox>>,
           tick' = [tick EXCEPT ![w] = <<>>],
           \A v \in Workers : v # w => pc'[v] = pc[v] /\ delayed'[v] = delayed[v]
    PROVE  TickInv' /\ NoTaskHogsTheTick'
<1>1. \A t : Scheduled(t)' <=> Scheduled(t)
  BY DEF Scheduled, HandlesTimers
<1>2. \A v \in Workers : tick'[v] = IF v = w THEN <<>> ELSE tick[v]
  BY DEF Typed
<1>3. \A v \in Workers, t \in Tasks : Times(tick'[v], t) = IF v = w THEN 0 ELSE Times(tick[v], t)
  BY <1>2, TimesEmpty
<1>4. TickInv'
  <2> SUFFICES ASSUME NEW v \in Workers, NEW u \in Tasks
               PROVE  /\ u \in Range(inbox'[v]) => Scheduled(u)' /\ \A x \in Workers : Times(tick'[x], u) = 0
                      /\ pc'[v] = "inbox" \/ (pc'[v] = "delayed" /\ u \in delayed'[v]) =>
                            /\ Times(tick'[v], u) <= 1
                            /\ Times(tick'[v], u) = 1 => Scheduled(u)' /\ ~AllActive
    BY DEF TickInv, Times, Range
  <2> QED
    BY <1>1, <1>3 DEF TickInv
<1>5. NoTaskHogsTheTick'
  <2> SUFFICES ASSUME NEW v \in Workers, NEW u \in Tasks
               PROVE  /\ Times(tick'[v], u) <= IF AllActive THEN 1 ELSE 2
                      /\ Times(tick'[v], u) = 2 => Scheduled(u)'
    BY DEF NoTaskHogsTheTick, Times, Scheduled
  <2> QED
    BY <1>1, <1>3 DEF NoTaskHogsTheTick, Scheduled
<1> QED
  BY <1>4, <1>5

LEMMA TickPop ==
    ASSUME Typed, PlaceInv, LoopInv, TickInv, NoTaskHogsTheTick, NEW w \in Workers, PopInbox(w)
    PROVE  TickInv' /\ NoTaskHogsTheTick'
<1>0. PICK t \in Tasks : t = Head(inbox[w]) /\ t \in Range(inbox[w])
  BY RangeTail DEF PopInbox, Typed
<1>1. /\ pc[w] = "inbox" /\ UNCHANGED <<pc, source>>
      /\ \A v \in Workers : v # w => inbox'[v] = inbox[v] /\ delayed'[v] = delayed[v]
  BY DEF PopInbox, Typed, flow
<1>2. Range(inbox[w]) = Range(inbox'[w]) \cup {t} /\ t \notin Range(inbox'[w])
  <2>1. inbox[w] \in Seq(Tasks) /\ inbox[w] # <<>> /\ Single(inbox[w]) /\ inbox'[w] = Tail(inbox[w])
    BY DEF PopInbox, Typed, PlaceInv
  <2> QED
    BY <1>0, <2>1, RangeTail
<1>3. CASE UNCHANGED tick
  BY <1>1, <1>2, <1>3, TickFrame
<1>4. CASE Dispatch(w, t)
  <2>1. Scheduled(t) /\ ~AllActive /\ \A v \in Workers : Times(tick[v], t) = 0
    BY <1>0, <1>1 DEF TickInv, LoopInv
  <2>2. NoTaskHogsTheTick'
    BY <1>1, <1>4, <2>1, TickDispatch DEF Ticked
  <2>3. \A v \in Workers, u \in Tasks : Times(tick'[v], u) =
           IF v = w /\ u = t THEN 1 ELSE Times(tick[v], u)
    BY <1>4, <2>1, TicksMoved, TimesNat
  <2>4. \A u : Scheduled(u)' <=> Scheduled(u)
    BY <1>1 DEF Scheduled, HandlesTimers
  <2>5. \A v \in Workers : t \notin Range(inbox'[v])
    <3>1. \A v \in Workers : t \in Range(inbox[v]) => v = w
      <4>1. OnlyIn(w, {"inbox"}, t)
        BY <1>0, InIs, Queued
      <4> QED
        BY <4>1, OnlyInIs
    <3> QED
      BY <1>1, <1>2, <3>1
  <2>6. \A v \in Workers, u \in Tasks : u \in Range(inbox'[v]) => u # t /\ u \in Range(inbox[v])
    BY <1>1, <1>2, <2>5
  <2>7. delayed' = delayed \/ pc'[w] = "inbox"
    BY <1>1
  <2>8. TickInv'
    <3> SUFFICES ASSUME NEW v \in Workers, NEW u \in Tasks
                 PROVE  /\ u \in Range(inbox'[v]) =>
                             Scheduled(u)' /\ \A x \in Workers : Times(tick'[x], u) = 0
                        /\ pc'[v] = "inbox" \/ (pc'[v] = "delayed" /\ u \in delayed'[v]) =>
                              /\ Times(tick'[v], u) <= 1
                              /\ Times(tick'[v], u) = 1 => Scheduled(u)' /\ ~AllActive
      BY DEF TickInv, Times, Range
    <3>1. u \in Range(inbox'[v]) => Scheduled(u)' /\ \A x \in Workers : Times(tick'[x], u) = 0
      BY <2>3, <2>4, <2>6 DEF TickInv
    <3>2. CASE v = w /\ u = t
      BY <2>1, <2>3, <2>4, <3>1, <3>2
    <3>3. CASE ~(v = w /\ u = t)
      <4>1. Times(tick'[v], u) = Times(tick[v], u)
        BY <2>3, <3>3
      <4>2. pc'[v] = "inbox" \/ (pc'[v] = "delayed" /\ u \in delayed'[v]) =>
               pc[v] = "inbox" \/ (pc[v] = "delayed" /\ u \in delayed[v])
        BY <1>1
      <4> QED
        BY <2>4, <3>1, <4>1, <4>2 DEF TickInv
    <3> QED
      BY <3>2, <3>3
  <2> QED
    BY <2>2, <2>8
<1> QED
  BY <1>0, <1>3, <1>4 DEF PopInbox

LEMMA TickRun ==
    ASSUME Typed, PlaceInv, LoopInv, TickInv, NoTaskHogsTheTick, NEW w \in Workers, RunTop(w)
    PROVE  TickInv' /\ NoTaskHogsTheTick'
<1>0. PICK t \in Tasks : t \in delayed[w] /\ delayed' = [delayed EXCEPT ![w] = @ \ {t}] /\ Dispatch(w, t)
  BY DEF RunTop, Typed
<1>1. /\ pc[w] = "delayed" /\ UNCHANGED <<pc, source, inbox>>
      /\ \A v \in Workers : delayed'[v] = IF v = w THEN delayed[v] \ {t} ELSE delayed[v]
  BY <1>0 DEF RunTop, Typed, flow
<1>2. Ticked(w, t)
  BY <1>0, <1>1, TickInvIs
<1>3. NoTaskHogsTheTick'
  BY <1>0, <1>1, <1>2, TickDispatch
<1>4. \A v \in Workers, u \in Tasks : ~(v = w /\ u = t) => Times(tick'[v], u) = Times(tick[v], u)
  BY <1>0, TicksMoved, TimesNat
<1>5. \A u : Scheduled(u)' <=> Scheduled(u)
  BY <1>1 DEF Scheduled, HandlesTimers
<1>6. \A v \in Workers : t \notin Range(inbox[v])
  <2>1. OnlyIn(w, {"delayed"}, t)
    BY <1>0, InIs, Queued
  <2> QED
    BY <2>1, OnlyInIs
<1>7. TickInv'
  <2> SUFFICES ASSUME NEW v \in Workers, NEW u \in Tasks
               PROVE  /\ u \in Range(inbox'[v]) => Scheduled(u)' /\ \A x \in Workers : Times(tick'[x], u) = 0
                      /\ pc'[v] = "inbox" \/ (pc'[v] = "delayed" /\ u \in delayed'[v]) =>
                            /\ Times(tick'[v], u) <= 1
                            /\ Times(tick'[v], u) = 1 => Scheduled(u)' /\ ~AllActive
    BY DEF TickInv, Times, Range
  <2>1. u \in Range(inbox'[v]) => Scheduled(u)' /\ \A x \in Workers : Times(tick'[x], u) = 0
    BY <1>1, <1>4, <1>5, <1>6 DEF TickInv
  <2>2. CASE v = w /\ u = t
    BY <1>1, <2>1, <2>2
  <2>3. CASE ~(v = w /\ u = t)
    <3>1. Times(tick'[v], u) = Times(tick[v], u)
      BY <1>4, <2>3
    <3>2. pc'[v] = "inbox" \/ (pc'[v] = "delayed" /\ u \in delayed'[v]) =>
             pc[v] = "inbox" \/ (pc[v] = "delayed" /\ u \in delayed[v])
      BY <1>1
    <3> QED
      BY <1>5, <2>1, <3>1, <3>2 DEF TickInv
  <2> QED
    BY <2>2, <2>3
<1> QED
  BY <1>3, <1>7

LEMMA TickStep ==
    ASSUME IInv, [Next]_vars
    PROVE  TickInv' /\ NoTaskHogsTheTick'
<1> USE DEF IInv
<1>1. CASE Advance \/ UNCHANGED vars \/ \E g \in AllGroups : StopGroup(g)
  BY <1>1, TickFrame DEF Advance, vars, queues, flow, StopGroup
<1>2. ASSUME NEW w \in Workers, DeferTaskAgain(w) \/ EndDispatch(w) PROVE TickInv' /\ NoTaskHogsTheTick'
  BY <1>2, TickFrame DEF DeferTaskAgain, EndDispatch, queues, flow
<1>3. ASSUME NEW w \in Workers, EnterGlobal(w) PROVE TickInv' /\ NoTaskHogsTheTick'
  BY <1>3, TickStart DEF EnterGlobal, queues, Typed
<1>4. ASSUME NEW w \in Workers, EnterLocal(w) PROVE TickInv' /\ NoTaskHogsTheTick'
  <2>1. /\ UNCHANGED <<source, inbox>>
        /\ \A v \in Workers : v # w => pc'[v] = pc[v] /\ delayed'[v] = delayed[v]
    BY <1>4 DEF EnterLocal, MovePending, Typed
  <2>2. CASE tick' = [tick EXCEPT ![w] = <<>>]
    BY <2>1, <2>2, TickStart
  <2>3. CASE pc[w] = "inbox" /\ UNCHANGED tick
    BY <2>1, <2>3, TickFrame
  <2> QED
    BY <1>4, <2>2, <2>3 DEF EnterLocal
<1>5. ASSUME NEW w \in Workers, EndLocal(w) PROVE TickInv' /\ NoTaskHogsTheTick'
  BY <1>5, TickFrame DEF EndLocal, queues, Typed
<1>6. ASSUME NEW w \in Workers, StopWorker(w) PROVE TickInv' /\ NoTaskHogsTheTick'
  BY <1>6, TickFrame DEF StopWorker, Typed
<1>7. ASSUME NEW w \in Workers, Join(w) PROVE TickInv' /\ NoTaskHogsTheTick'
  <2>1. \A v \in Workers : Range(inbox'[v]) \subseteq Range(inbox[v])
    <3>1. \A v \in Workers : inbox'[v] = inbox[v] \/ inbox'[v] = <<>>
      BY <1>7 DEF Join, Typed
    <3> QED
      BY <3>1, RangeEmpty
  <2> QED
    BY <1>7, <2>1, TickFrame DEF Join, Typed
<1> QED
  BY <1>1, <1>2, <1>3, <1>4, <1>5, <1>6, <1>7, TickDefer, TickPop, TickRun DEF Next, Handle

-----------------------------------------------------------------------------
(***************************************************************************)
(* The invariant and what it says of the references.                       *)
(***************************************************************************)
LEMMA IInvInit == Init => IInv
BY TypedInit, LoopInit, PlaceInit, NewInit, TickInit DEF IInv

LEMMA IInvNext == IInv /\ [Next]_vars => IInv'
<1> SUFFICES ASSUME IInv, [Next]_vars PROVE IInv'
  OBVIOUS
<1>1. Typed /\ LoopInv /\ PlaceInv /\ NewInv
  BY DEF IInv
<1>2. Typed' /\ LoopInv' /\ PlaceInv' /\ NewInv'
  BY <1>1, TypedStep, LoopStep, PlaceStep, NewStep
<1> QED
  BY <1>2, TickStep DEF IInv

LEMMA Inductive == Spec => []IInv
BY IInvInit, IInvNext, PTL DEF Spec

LEMMA HoldersAre ==
    ASSUME Typed, PlaceInv, NEW t \in Tasks
    PROVE  refs[t] = Cardinality(Holders(t))
<1>0. \A h : h \in Holders(t) <=> h \in Workers \X Queues /\ In(h[1], h[2], t)
  BY DEF Holders, In, Queues
<1>1. CASE Nowhere(t)
  <2>1. Holders(t) = {}
    BY <1>0, <1>1 DEF Nowhere
  <2> QED
    BY <1>1, <2>1, FS_EmptySet DEF Nowhere
<1>2. CASE InOnePlace(t)
  <2>1. PICK w \in Workers, q \in Queues : OnlyIn(w, {q}, t)
    BY <1>2 DEF InOnePlace
  <2>2. Holders(t) = {<<w, q>>}
    <3>1. \A h \in Holders(t) : h = <<w, q>>
      BY <1>0, <2>1 DEF OnlyIn
    <3>2. <<w, q>> \in Holders(t)
      BY <1>0, <2>1 DEF OnlyIn
    <3> QED
      BY <3>1, <3>2
  <2>3. Cardinality({<<w, q>>}) = 1
    BY FS_Singleton
  <2> QED
    BY <1>2, <2>2, <2>3 DEF InOnePlace
<1>3. CASE InTwoPlaces(t)
  <2>1. PICK w \in Workers : OnlyIn(w, {"cur", "pending"}, t)
    BY <1>3 DEF InTwoPlaces
  <2>2. Holders(t) = {<<w, "cur">>} \cup {<<w, "pending">>}
    <3>1. \A h \in Holders(t) : h = <<w, "cur">> \/ h = <<w, "pending">>
      BY <1>0, <2>1 DEF OnlyIn
    <3>2. <<w, "cur">> \in Holders(t) /\ <<w, "pending">> \in Holders(t)
      BY <1>0, <2>1 DEF OnlyIn, Queues
    <3> QED
      BY <3>1, <3>2
  <2>3. <<w, "pending">> \notin {<<w, "cur">>}
    OBVIOUS
  <2>4. Cardinality({<<w, "cur">>} \cup {<<w, "pending">>}) = 2
    <3>1. PICK a, b : a = <<w, "cur">> /\ b = <<w, "pending">>
      OBVIOUS
    <3>2. IsFiniteSet({a}) /\ Cardinality({a}) = 1
      BY FS_Singleton
    <3>3. b \notin {a}
      BY <2>3, <3>1
    <3>4. Cardinality({a} \cup {b}) = Cardinality({a}) + 1
      BY <3>2, <3>3, FS_AddElement
    <3> QED
      BY <3>1, <3>2, <3>4
  <2> QED
    BY <1>3, <2>2, <2>4 DEF InTwoPlaces
<1> QED
  BY <1>1, <1>2, <1>3 DEF PlaceInv, Placed

LEMMA IInvGivesRefs == IInv => RefsInv
<1> SUFFICES ASSUME IInv PROVE RefsInv
  OBVIOUS
<1>1. Typed /\ LoopInv /\ PlaceInv
  BY DEF IInv
<1>2. TypeOK
  <2>1. \A t \in Tasks : refs[t] \in 0 .. 2
    BY <1>1 DEF PlaceInv, Placed, Nowhere, InOnePlace, InTwoPlaces
  <2>2. refs \in [Tasks -> 0 .. 2]
    BY <1>1, <2>1 DEF Typed
  <2> QED
    BY <1>1, <2>2 DEF Typed, TypeOK, QueuesTypeOK
<1>3. RefsExact
  BY <1>1, HoldersAre, TimesSingle DEF RefsExact, Typed, PlaceInv
<1>4. OnlyPendingLeaks
  <2> SUFFICES ASSUME \A w \in Workers : pc[w] = "joined", NEW t \in Tasks, refs[t] > 0
               PROVE  \E w \in Workers : t \in Range(pending[w])
    BY DEF OnlyPendingLeaks
  <2>1. PICK w \in Workers, q \in Queues : In(w, q, t)
    BY <1>1 DEF PlaceInv, Placed, Nowhere, InOnePlace, InTwoPlaces, OnlyIn, Queues
  <2>2. inbox[w] = <<>> /\ delayed[w] = {} /\ cur[w] = Null
    BY <1>1 DEF LoopInv
  <2>3. q = "pending"
    BY <2>1, <2>2, RangeEmpty, ClockAssumption DEF In, Queues
  <2> QED
    BY <2>1, <2>3, InIs
<1> QED
  BY <1>2, <1>3, <1>4 DEF RefsInv

(* The reference count of a task is the number of queues and dispatches    *)
(* that hold it, whatever is deferred, deferred again, dispatched, stopped *)
(* and joined in which order; what is still allocated when all workers are *)
(* joined waits in a PendingDelayedTasks that nobody releases.             *)
THEOREM RefsAreExact == Spec => []RefsInv
BY Inductive, IInvGivesRefs, PTL

(* A task is dispatched once in a tick, or twice if it came by the inbox,  *)
(* however often its functor defers it again.                              *)
THEOREM TicksEnd == Spec => []NoTaskHogsTheTick
<1>1. IInv => NoTaskHogsTheTick
  BY DEF IInv
<1> QED
  BY <1>1, Inductive, PTL

-----------------------------------------------------------------------------
(***************************************************************************)
(* The promise of DeferredExecution.                                       *)
(***************************************************************************)
WaitingTasks    == {t \in Tasks : Waiting(t)}
DispatchedTasks == {t \in Tasks : Dispatched(t)}
MadeTasks       == {t \in Tasks : source[t] # Null}
SomeStopped     == \E w \in Workers : pc[w] \in {"stopped", "joined"}

LEMMA WaitingIs ==
    \A t : Waiting(t) <=> \E w \in Workers : t \in Range(inbox[w]) \/ t \in delayed[w] \/ t \in Range(pending[w])
BY DEF Waiting

LEMMA WaitingNext ==
    \A t : Waiting(t)' <=>
        \E w \in Workers : t \in Range(inbox'[w]) \/ t \in delayed'[w] \/ t \in Range(pending'[w])
BY DEF Waiting, Range

LEMMA PromiseInit == Init => Timer!Init
<1> SUFFICES ASSUME Init PROVE Timer!Init
  OBVIOUS
<1>1. now = 0 /\ due \in [Tasks -> {0}]
  BY DEF Init, QueuesInit
<1>2. MadeTasks = {} /\ SomeStopped = FALSE /\ DispatchedTasks = {}
  BY ClockAssumption DEF Init, QueuesInit, MadeTasks, SomeStopped, DispatchedTasks, Dispatched
<1>3. WaitingTasks = {}
  BY RangeEmpty DEF Init, QueuesInit, WaitingTasks, Waiting
<1> QED
  BY <1>1, <1>2, <1>3 DEF Timer!Init, WaitingTasks, MadeTasks, SomeStopped, DispatchedTasks

(* What the promise sees of a step.                                        *)
Seen == <<due, MadeTasks, WaitingTasks, DispatchedTasks, SomeStopped>>

LEMMA TimerActions ==
    /\ Timer!Advance <=> now' = now + 1 /\ UNCHANGED Seen
    /\ \A t : Timer!Defer(t) <=>
          /\ t \notin MadeTasks /\ MadeTasks' = MadeTasks \cup {t}
          /\ WaitingTasks' = WaitingTasks \cup {t}
          /\ Timer!SetDue(t) /\ UNCHANGED <<now, DispatchedTasks, SomeStopped>>
    /\ \A t : Timer!Again(t) <=>
          /\ t \in DispatchedTasks \ WaitingTasks /\ WaitingTasks' = WaitingTasks \cup {t}
          /\ Timer!SetDue(t) /\ UNCHANGED <<now, MadeTasks, DispatchedTasks, SomeStopped>>
    /\ \A t : Timer!Dispatch(t) <=>
          /\ t \in WaitingTasks \ DispatchedTasks /\ due[t] <= now
          /\ WaitingTasks' = WaitingTasks \ {t} /\ DispatchedTasks' = DispatchedTasks \cup {t}
          /\ UNCHANGED <<now, due, MadeTasks, SomeStopped>>
    /\ \A t : Timer!Return(t) <=>
          /\ t \in DispatchedTasks /\ DispatchedTasks' = DispatchedTasks \ {t}
          /\ UNCHANGED <<now, due, MadeTasks, WaitingTasks, SomeStopped>>
    /\ Timer!Stop <=>
          /\ SomeStopped' = TRUE /\ WaitingTasks' \in SUBSET WaitingTasks
          /\ UNCHANGED <<now, due, MadeTasks, DispatchedTasks>>
    /\ UNCHANGED <<now, Seen>> => UNCHANGED Timer!vars
BY DEF Timer!Advance, Timer!Defer, Timer!Again, Timer!Dispatch, Timer!Return, Timer!Stop, Timer!vars,
       Seen, WaitingTasks, MadeTasks, DispatchedTasks, SomeStopped

LEMMA SeenIs ==
    /\ \A t : t \in WaitingTasks <=>
          t \in Tasks /\ \E w \in Workers : t \in Range(inbox[w]) \/ t \in delayed[w] \/ t \in Range(pending[w])
    /\ \A t : t \in DispatchedTasks <=> t \in Tasks /\ \E w \in Workers : cur[w] = t
    /\ \A t : t \in MadeTasks <=> t \in Tasks /\ source[t] # Null
BY WaitingIs DEF WaitingTasks, DispatchedTasks, MadeTasks, Dispatched

LEMMA SeenNext ==
    /\ \A t : t \in WaitingTasks' <=>
          t \in Tasks /\ \E w \in Workers : t \in Range(inbox'[w]) \/ t \in delayed'[w] \/ t \in Range(pending'[w])
    /\ \A t : t \in DispatchedTasks' <=> t \in Tasks /\ \E w \in Workers : cur'[w] = t
    /\ \A t : t \in MadeTasks' <=> t \in Tasks /\ source'[t] # Null
BY WaitingNext DEF WaitingTasks, DispatchedTasks, MadeTasks, Dispatched

(* A step that leaves alone what the views are made of leaves them alone.  *)
LEMMA SeenFrame ==
    /\ UNCHANGED cur => UNCHANGED DispatchedTasks
    /\ UNCHANGED source => UNCHANGED MadeTasks
    /\ UNCHANGED queues => UNCHANGED WaitingTasks
    /\ UNCHANGED pc => UNCHANGED SomeStopped
<1>1. ASSUME UNCHANGED cur PROVE UNCHANGED DispatchedTasks
  <2>1. ASSUME NEW u PROVE u \in DispatchedTasks' <=> u \in DispatchedTasks
    BY <1>1, SeenIs, SeenNext
  <2> QED
    BY <2>1
<1>2. ASSUME UNCHANGED source PROVE UNCHANGED MadeTasks
  <2>1. ASSUME NEW u PROVE u \in MadeTasks' <=> u \in MadeTasks
    BY <1>2, SeenIs, SeenNext
  <2> QED
    BY <2>1
<1>3. ASSUME UNCHANGED queues PROVE UNCHANGED WaitingTasks
  <2>1. UNCHANGED <<inbox, delayed, pending>>
    BY <1>3 DEF queues
  <2>2. ASSUME NEW u PROVE u \in WaitingTasks' <=> u \in WaitingTasks
    BY <2>1, SeenIs, SeenNext
  <2> QED
    BY <2>2
<1>4. UNCHANGED pc => UNCHANGED SomeStopped
  BY DEF SomeStopped
<1> QED
  BY <1>1, <1>2, <1>3, <1>4

LEMMA Redated ==
    ASSUME Typed, NEW t \in Tasks, NEW d \in Nat, due' = [due EXCEPT ![t] = d]
    PROVE  Timer!SetDue(t)
BY ClockAssumption DEF Typed, Timer!SetDue

LEMMA PromiseDefer ==
    ASSUME IInv, NEW w \in Workers, NEW t \in Tasks, DeferTask(w, t)
    PROVE  Timer!Defer(t)
<1>1. Typed /\ PlaceInv /\ NewInv /\ source[t] = Null
  BY DEF IInv, DeferTask
<1>2. Timer!SetDue(t)
  <2>1. PICK d \in DueTimes : due' = [due EXCEPT ![t] = d]
    BY DEF DeferTask
  <2>2. d \in Nat
    BY <1>1, ClockAssumption DEF DueTimes, Typed
  <2> QED
    BY <1>1, <2>1, <2>2, Redated
<1>3. UNCHANGED <<now, pending, cur, pc>>
  BY DEF DeferTask, flow
<1>4. t \notin MadeTasks /\ MadeTasks' = MadeTasks \cup {t}
  <2>1. source'[t] = w /\ \A u \in Tasks \ {t} : source'[u] = source[u]
    BY <1>1 DEF DeferTask, Typed
  <2>2. w # Null
    BY ClockAssumption
  <2> QED
    BY <1>1, <2>1, <2>2, SeenIs, SeenNext
<1>5. WaitingTasks' = WaitingTasks \cup {t}
  <2>1. CASE Keep(w, t)
    <3>1. inbox' = inbox /\ \A v \in Workers : delayed'[v] = IF v = w THEN delayed[v] \cup {t} ELSE delayed[v]
      BY <1>1, <2>1 DEF Keep, Typed
    <3> QED
      <4>1. ASSUME NEW u PROVE u \in WaitingTasks' <=> u \in (WaitingTasks \cup {t})
        BY <1>3, <3>1, SeenIs, SeenNext
      <4> QED
        BY <4>1
  <2>2. CASE ScheduleTask(w, t)
    <3>0. PICK x \in Workers : x = TargetOf(DeferredTasksHandlingGroups, w)
      BY <1>1, <2>2, Target DEF ScheduleTask, Schedule
    <3>1. /\ delayed' = delayed
          /\ \A v \in Workers : inbox'[v] = IF v = x THEN Append(inbox[v], t) ELSE inbox[v]
      BY <1>1, <2>2, <3>0 DEF ScheduleTask, Schedule, Typed
    <3>2. inbox[x] \in Seq(Tasks)
      BY <1>1 DEF Typed
    <3>3. Range(inbox'[x]) = Range(inbox[x]) \cup {t}
      BY <3>1, <3>2, RangeAppend
    <3> QED
      BY <1>3, <3>1, <3>3, SeenIs, SeenNext
  <2> QED
    BY <2>1, <2>2 DEF DeferTask
<1> QED
  BY <1>2, <1>3, <1>4, <1>5, SeenFrame, TimerActions

LEMMA PromiseAgain ==
    ASSUME IInv, NEW w \in Workers, DeferTaskAgain(w)
    PROVE  \E t \in Tasks : Timer!Again(t)
<1>1. Typed /\ PlaceInv
  BY DEF IInv
<1>0. PICK t \in Tasks : t = cur[w] /\ refs[t] = 1
  BY <1>1 DEF DeferTaskAgain, Typed
<1>2. Timer!SetDue(t)
  <2>1. PICK d \in (DueTimes \ {0}) \cup {due[t]} : due' = [due EXCEPT ![t] = d]
    BY <1>0 DEF DeferTaskAgain
  <2>2. d \in Nat
    BY <1>1, ClockAssumption DEF DueTimes, Typed
  <2> QED
    BY <1>1, <2>1, <2>2, Redated
<1>3. UNCHANGED <<now, inbox, delayed, cur, source, pc>>
  BY DEF DeferTaskAgain, flow
<1>4. t \in DispatchedTasks \ WaitingTasks
  <2>1. OnlyIn(w, {"cur"}, t)
    BY <1>0, <1>1, BeingDispatched, InIs
  <2>2. \A v \in Workers : t \notin Range(inbox[v]) /\ t \notin delayed[v] /\ t \notin Range(pending[v])
    BY <2>1, OnlyInIs
  <2> QED
    BY <1>0, <2>2, SeenIs
<1>5. WaitingTasks' = WaitingTasks \cup {t}
  <2>1. /\ \A v \in Workers : pending'[v] = IF v = w THEN Append(pending[v], t) ELSE pending[v]
        /\ pending[w] \in Seq(Tasks)
    BY <1>0, <1>1 DEF DeferTaskAgain, Typed
  <2>2. Range(pending'[w]) = Range(pending[w]) \cup {t}
    BY <2>1, RangeAppend
  <2> QED
    BY <1>3, <2>1, <2>2, SeenIs, SeenNext
<1>6. Timer!Again(t)
  BY <1>2, <1>3, <1>4, <1>5, SeenFrame, TimerActions
<1> QED
  BY <1>6

(* A task that leaves a queue to be dispatched.                            *)
LEMMA PromiseDispatch ==
    ASSUME NEW w \in Workers, NEW t \in Tasks, due[t] <= now, UNCHANGED <<now, due, pc, source>>,
           t \in WaitingTasks \ DispatchedTasks, WaitingTasks' = WaitingTasks \ {t},
           \A v \in Workers : cur'[v] = IF v = w THEN t ELSE cur[v],
           cur[w] = Null
    PROVE  Timer!Dispatch(t)
<1>1. DispatchedTasks' = DispatchedTasks \cup {t}
  BY ClockAssumption, SeenIs, SeenNext
<1> QED
  BY <1>1, SeenFrame, TimerActions

LEMMA OnTime ==
    ASSUME IInv, NEW w \in Workers, NEW t \in Tasks, due[t] <= at[w]
    PROVE  due[t] <= now
<1>1. due[t] \in Nat /\ at[w] \in Nat /\ now \in Nat /\ at[w] <= now
  BY ClockAssumption DEF IInv, Typed, LoopInv
<1> QED
  BY <1>1

LEMMA PromisePop ==
    ASSUME IInv, NEW w \in Workers, PopInbox(w)
    PROVE  (\E t \in Tasks : Timer!Dispatch(t)) \/ UNCHANGED <<now, Seen>>
<1>1. Typed /\ PlaceInv
  BY DEF IInv
<1>0. PICK t \in Tasks : t = Head(inbox[w])
  BY <1>1, RangeTail DEF PopInbox, Typed
<1>2. /\ inbox[w] # <<>> /\ inbox[w] \in Seq(Tasks) /\ Single(inbox[w])
      /\ cur[w] = Null /\ UNCHANGED <<now, due, pending, source, pc>>
      /\ \A v \in Workers : inbox'[v] = IF v = w THEN Tail(inbox[v]) ELSE inbox[v]
  BY <1>1 DEF PopInbox, Typed, PlaceInv, Idle, flow
<1>3. Range(inbox[w]) = Range(inbox'[w]) \cup {t} /\ t \notin Range(inbox'[w])
  BY <1>0, <1>2, RangeTail
<1>4. \A v \in Workers :
         /\ (t \in Range(inbox[v]) <=> v = w) /\ t \notin delayed[v]
         /\ t \notin Range(pending[v]) /\ cur[v] # t
  <2>1. OnlyIn(w, {"inbox"}, t)
    BY <1>1, <1>3, InIs, Queued
  <2> QED
    BY <2>1, OnlyInIs
<1>5. CASE UNCHANGED cur /\ \A v \in Workers : delayed'[v] = IF v = w THEN delayed[v] \cup {t} ELSE delayed[v]
  <2>1. WaitingTasks' = WaitingTasks
    <3>1. ASSUME NEW u PROVE u \in WaitingTasks' <=> u \in WaitingTasks
      BY <1>2, <1>3, <1>5, SeenIs, SeenNext
    <3> QED
      BY <3>1
  <2> QED
    BY <1>2, <1>5, <2>1, SeenFrame DEF Seen
<1>6. CASE /\ UNCHANGED delayed /\ due[t] <= at[w]
           /\ \A v \in Workers : cur'[v] = IF v = w THEN t ELSE cur[v]
  <2>1. WaitingTasks' = WaitingTasks \ {t}
    BY <1>2, <1>3, <1>4, <1>6, SeenIs, SeenNext
  <2>2. t \in WaitingTasks \ DispatchedTasks
    BY <1>4, SeenIs
  <2>3. due[t] <= now
    BY <1>6, OnTime
  <2>4. Timer!Dispatch(t)
    BY <1>2, <1>6, <2>1, <2>2, <2>3, PromiseDispatch
  <2> QED
    BY <2>4
<1> QED
  BY <1>0, <1>1, <1>5, <1>6 DEF PopInbox, Dispatch, Typed

LEMMA PromiseRun ==
    ASSUME IInv, NEW w \in Workers, RunTop(w)
    PROVE  \E t \in Tasks : Timer!Dispatch(t)
<1>1. Typed /\ PlaceInv
  BY DEF IInv
<1>0. PICK t \in Tasks : /\ t \in delayed[w] /\ delayed' = [delayed EXCEPT ![w] = @ \ {t}]
                         /\ Dispatch(w, t) /\ due[t] <= at[w]
  BY <1>1 DEF RunTop, Typed
<1>2. /\ cur[w] = Null /\ UNCHANGED <<now, due, inbox, pending, source, pc>>
      /\ \A v \in Workers : /\ delayed'[v] = IF v = w THEN delayed[v] \ {t} ELSE delayed[v]
                            /\ cur'[v] = IF v = w THEN t ELSE cur[v]
  BY <1>0, <1>1 DEF RunTop, Dispatch, Typed, Idle, flow
<1>3. \A v \in Workers : /\ t \notin Range(inbox[v]) /\ (t \in delayed[v] <=> v = w)
                         /\ t \notin Range(pending[v]) /\ cur[v] # t
  <2>1. OnlyIn(w, {"delayed"}, t)
    BY <1>0, <1>1, InIs, Queued
  <2> QED
    BY <2>1, OnlyInIs
<1>4. WaitingTasks' = WaitingTasks \ {t}
  <2>1. ASSUME NEW u PROVE u \in WaitingTasks' <=> u \in WaitingTasks \ {t}
    BY ZenonT(40), <1>2, <1>3, SeenIs, SeenNext
  <2> QED
    BY <2>1
<1>5. t \in WaitingTasks \ DispatchedTasks
  BY <1>3, SeenIs
<1>6. due[t] <= now
  BY <1>0, OnTime
<1>7. Timer!Dispatch(t)
  BY <1>2, <1>4, <1>5, <1>6, PromiseDispatch
<1> QED
  BY <1>7

LEMMA PromiseEnter ==
    ASSUME IInv, NEW w \in Workers, EnterLocal(w)
    PROVE  UNCHANGED <<now, Seen>>
<1>1. Typed /\ pc[w] \in {"loop", "inbox"} /\ UNCHANGED <<now, due, inbox, cur, source>>
  BY DEF IInv, EnterLocal, MovePending
<1>2. WaitingTasks' = WaitingTasks
  <2>1. \A v \in Workers : /\ delayed'[v] = IF v = w THEN delayed[v] \cup Range(pending[v]) ELSE delayed[v]
                           /\ pending'[v] = IF v = w THEN <<>> ELSE pending[v]
    BY <1>1 DEF EnterLocal, MovePending, Typed
  <2>2. Range(pending'[w]) = {}
    BY <2>1, RangeEmpty
  <2> QED
    <3>1. ASSUME NEW u PROVE u \in WaitingTasks' <=> u \in WaitingTasks
      BY <1>1, <2>1, <2>2, SeenIs, SeenNext
    <3> QED
      BY <3>1
<1>3. SomeStopped' <=> SomeStopped
  <2>1. \A v \in Workers : pc'[v] = IF v = w THEN "delayed" ELSE pc[v]
    BY <1>1 DEF EnterLocal, MovePending, Typed
  <2> QED
    BY <1>1, <2>1 DEF SomeStopped
<1> QED
  BY <1>1, <1>2, <1>3, SeenFrame DEF Seen

LEMMA PromiseEnd ==
    ASSUME IInv, NEW w \in Workers, EndDispatch(w)
    PROVE  \E t \in Tasks : Timer!Return(t)
<1>1. Typed /\ PlaceInv /\ UNCHANGED <<now, due, queues, source, pc>>
  BY DEF IInv, EndDispatch, flow
<1>0. PICK t \in Tasks : t = cur[w]
  BY <1>1 DEF EndDispatch, Typed
<1>2. \A v \in Workers : cur'[v] = IF v = w THEN Null ELSE cur[v]
  BY <1>1 DEF EndDispatch, Typed
<1>3. \A v \in Workers : cur[v] = t => v = w
  BY <1>0, <1>1, BeingDispatched, InIs, OnlyInIs
<1>4. t \in DispatchedTasks /\ DispatchedTasks' = DispatchedTasks \ {t}
  BY <1>0, <1>2, <1>3, ClockAssumption, SeenIs, SeenNext
<1>5. Timer!Return(t)
  BY <1>1, <1>4, SeenFrame, TimerActions
<1> QED
  BY <1>5

LEMMA PromiseStop ==
    ASSUME IInv, NEW w \in Workers, StopWorker(w) \/ Join(w)
    PROVE  Timer!Stop
<1>1. Typed /\ UNCHANGED <<now, due, pending, cur, source>>
  BY DEF IInv, StopWorker, Join
<1>2. pc'[w] \in {"stopped", "joined"}
  BY <1>1 DEF StopWorker, Join, Typed
<1>3. SomeStopped' <=> TRUE
  BY <1>2 DEF SomeStopped
<1>4. WaitingTasks' \subseteq WaitingTasks
  <2>1. CASE StopWorker(w)
    <3>1. inbox' = inbox /\ \A v \in Workers : delayed'[v] \subseteq delayed[v]
      BY <1>1, <2>1 DEF StopWorker, Typed
    <3> QED
      BY <1>1, <3>1, SeenIs, SeenNext
  <2>2. CASE Join(w)
    <3>1. delayed' = delayed /\ \A v \in Workers : inbox'[v] = IF v = w THEN <<>> ELSE inbox[v]
      BY <1>1, <2>2 DEF Join, Typed
    <3>2. Range(inbox'[w]) = {}
      BY <3>1, RangeEmpty
    <3> QED
      BY <1>1, <3>1, <3>2, SeenIs, SeenNext
  <2> QED
    BY <2>1, <2>2
<1> QED
  BY <1>1, <1>3, <1>4, SeenFrame, TimerActions

(* The steps that the promise does not see.                                *)
LEMMA PromiseRest ==
    ASSUME IInv, NEW w \in Workers, EnterGlobal(w) \/ EndLocal(w)
    PROVE  UNCHANGED <<now, Seen>>
<1>1. Typed /\ pc[w] \in {"loop", "delayed"} /\ UNCHANGED <<now, due, queues, cur, source>>
  BY DEF IInv, EnterGlobal, EndLocal
<1>2. \A v \in Workers : v # w => pc'[v] = pc[v]
  BY <1>1 DEF EnterGlobal, EndLocal, Typed
<1>3. pc'[w] \in {"inbox", "loop"}
  BY <1>1 DEF EnterGlobal, EndLocal, Typed
<1>4. SomeStopped' <=> SomeStopped
  BY <1>1, <1>2, <1>3 DEF SomeStopped
<1> QED
  BY <1>1, <1>4, SeenFrame DEF Seen

LEMMA PromiseStep == IInv /\ [Next]_vars => [Timer!Next]_(Timer!vars)
<1> SUFFICES ASSUME IInv, [Next]_vars PROVE Timer!Next \/ UNCHANGED Timer!vars
  OBVIOUS
<1>0. UNCHANGED <<now, Seen>> => UNCHANGED Timer!vars
  BY TimerActions
<1>1. CASE Advance
  <2>1. Timer!Advance
    BY <1>1, SeenFrame, TimerActions DEF Advance, flow, Seen
  <2> QED
    BY <2>1 DEF Timer!Next
<1>2. CASE UNCHANGED vars \/ \E g \in AllGroups : StopGroup(g)
  <2>1. UNCHANGED <<now, due, queues, cur, source, pc>>
    BY <1>2 DEF vars, StopGroup, flow, queues
  <2> QED
    BY <1>0, <2>1, SeenFrame DEF Seen
<1>3. ASSUME NEW w \in Workers, NEW t \in Tasks, DeferTask(w, t) PROVE Timer!Next
  BY <1>3, PromiseDefer DEF Timer!Next
<1>4. ASSUME NEW w \in Workers, DeferTaskAgain(w) \/ RunTop(w) \/ EndDispatch(w) \/ StopWorker(w) \/ Join(w)
      PROVE  Timer!Next
  BY <1>4, PromiseAgain, PromiseRun, PromiseEnd, PromiseStop DEF Timer!Next
<1>5. ASSUME NEW w \in Workers, PopInbox(w) \/ EnterLocal(w) \/ EnterGlobal(w) \/ EndLocal(w)
      PROVE  Timer!Next \/ UNCHANGED Timer!vars
  BY <1>0, <1>5, PromisePop, PromiseEnter, PromiseRest DEF Timer!Next
<1> QED
  BY <1>1, <1>2, <1>3, <1>4, <1>5 DEF Next, Handle

(* Seen from outside, what the threads do with their queues is what        *)
(* DeferredExecution promises: every deferral is dispatched at most once,  *)
(* by one thread, and not before it is due, whichever way the task went;   *)
(* what waits is lost only when workers stop.                              *)
THEOREM KeepsTheTimerPromise == Spec => KeepsPromise
BY Inductive, PromiseInit, PromiseStep, PTL DEF Spec, KeepsPromise, Timer!Spec

-----------------------------------------------------------------------------
(***************************************************************************)
(* The delayed tasks of async objects, of AODDelayed.  The variables are   *)
(* those of DelayedQueues again, and the spec is the other one.            *)
(***************************************************************************)
AsyncTyped ==
    /\ now \in 0 .. MaxNow
    /\ due \in [Tasks -> 0 .. MaxNow]
    /\ source \in [Tasks -> Workers \cup {Null}]
    /\ inbox \in [Workers -> Seq(Tasks)]
    /\ delayed \in [Workers -> SUBSET Tasks]
    /\ index \in [Workers -> (0 .. Wrap - 1) \X (0 .. Wrap - 1)]
    /\ running \in SUBSET AllGroups
    /\ pc \in [Workers -> {"loop", "inbox", "delayed", "stopped", "joined"}]
    /\ at \in [Workers -> 0 .. MaxNow]
    /\ sent \in [Tasks -> Nat]
    /\ freed \in [Tasks -> Nat]

AsyncLoop ==
    \A w \in Workers :
        /\ at[w] <= now
        /\ pc[w] \in {"stopped", "joined"} => delayed[w] = {}
        /\ pc[w] = "joined" => inbox[w] = <<>> /\ \A v \in Workers : pc[v] \in {"stopped", "joined"}

LEMMA AsyncTarget ==
    ASSUME DeferredAODGroups # <<>>, AsyncTyped, NEW w \in Workers
    PROVE  TargetOf(DeferredAODGroups, w) \in Workers
<1>1. index[w][1] \in Nat /\ index[w][2] \in Nat
  BY TagAssumption DEF AsyncTyped
<1>2. TargetGroup(DeferredAODGroups, index[w][1]) \in AllGroups
  BY <1>1, ListedGroups DEF DeferredAODGroups, DeferredTasksHandlingGroups
<1> QED
  BY <1>1, <1>2, TeamWorkers DEF TargetOf

(* Where a task may be, for the contents I of the inboxes and D of the     *)
(* queues of the workers.  Whose group is active keeps its own tasks.      *)
Absent(I, D, t)     == \A v \in Workers : t \notin Range(I[v]) /\ t \notin D[v]
Inboxed(I, D, w, t) == \A v \in Workers : (t \in Range(I[v]) <=> v = w) /\ t \notin D[v]
Kept(I, D, w, t)    == \A v \in Workers : t \notin Range(I[v]) /\ (t \in D[v] <=> v = w)

Waits(I, D, s, t) ==
    \E w \in Workers :
        \/ Inboxed(I, D, w, t) /\ GroupOf(s) \notin Active
        \/ Kept(I, D, w, t) /\ (GroupOf(s) \in Active => w = s)

(* Not delayed yet; waiting; or handed over, in time, or released.         *)
Fate(t) ==
    \/ source[t] = Null /\ sent[t] = 0 /\ freed[t] = 0 /\ Absent(inbox, delayed, t)
    \/ source[t] # Null /\ sent[t] = 0 /\ freed[t] = 0 /\ Waits(inbox, delayed, source[t], t)
    \/ /\ source[t] # Null /\ sent[t] + freed[t] = 1 /\ Absent(inbox, delayed, t)
       /\ sent[t] = 1 => due[t] <= now

FatesInv == (\A w \in Workers : Single(inbox[w])) /\ \A t \in Tasks : Fate(t)

AsyncInv == AsyncTyped /\ AsyncLoop /\ FatesInv

LEMMA AsyncInit == AODInit => AsyncInv
<1> SUFFICES ASSUME AODInit PROVE AsyncInv
  OBVIOUS
<1>1. /\ now = 0 /\ due = [t \in Tasks |-> 0] /\ source = [t \in Tasks |-> Null]
      /\ inbox = [w \in Workers |-> <<>>] /\ delayed = [w \in Workers |-> {}]
      /\ index = [w \in Workers |-> <<0, 0>>] /\ running = AllGroups
      /\ pc = [w \in Workers |-> "loop"] /\ at = [w \in Workers |-> 0]
      /\ sent = [t \in Tasks |-> 0] /\ freed = [t \in Tasks |-> 0]
  BY DEF AODInit, QueuesInit
<1>2. AsyncTyped
  BY <1>1, TagAssumption, ClockAssumption DEF AsyncTyped
<1>3. AsyncLoop
  BY <1>1 DEF AsyncLoop
<1>4. FatesInv
  BY <1>1, RangeEmpty DEF FatesInv, Fate, Absent
<1> QED
  BY <1>2, <1>3, <1>4 DEF AsyncInv

(* What holds a task says where it is and that it is neither sent nor freed. *)
LEMMA FromInbox ==
    ASSUME NEW t, Fate(t), NEW w \in Workers, t \in Range(inbox[w])
    PROVE  /\ source[t] # Null /\ sent[t] = 0 /\ freed[t] = 0
           /\ Inboxed(inbox, delayed, w, t) /\ GroupOf(source[t]) \notin Active
BY DEF Fate, Absent, Waits, Inboxed, Kept

LEMMA FromQueue ==
    ASSUME NEW t, Fate(t), NEW w \in Workers, t \in delayed[w]
    PROVE  /\ source[t] # Null /\ sent[t] = 0 /\ freed[t] = 0
           /\ Kept(inbox, delayed, w, t) /\ (GroupOf(source[t]) \in Active => w = source[t])
BY DEF Fate, Absent, Waits, Inboxed, Kept

LEMMA FateKept ==
    ASSUME AsyncTyped, NEW t \in Tasks, Fate(t), now' \in Nat, now <= now',
           source'[t] = source[t], sent'[t] = sent[t], freed'[t] = freed[t], due'[t] = due[t],
           \A v \in Workers : /\ t \in Range(inbox'[v]) <=> t \in Range(inbox[v])
                              /\ t \in delayed'[v] <=> t \in delayed[v]
    PROVE  Fate(t)'
<1>1. Absent(inbox, delayed, t) => Absent(inbox', delayed', t)
  BY DEF Absent
<1>2. \A s : Waits(inbox, delayed, s, t) => Waits(inbox', delayed', s, t)
  BY DEF Waits, Inboxed, Kept
<1>3. due[t] <= now => due'[t] <= now'
  BY ClockAssumption DEF AsyncTyped
<1> QED
  BY <1>1, <1>2, <1>3 DEF Fate

LEMMA FateWaits ==
    ASSUME NEW t, source'[t] # Null, sent'[t] = 0, freed'[t] = 0, Waits(inbox', delayed', source'[t], t)
    PROVE  Fate(t)'
BY DEF Fate

LEMMA FateOver ==
    ASSUME NEW t, source'[t] # Null, sent'[t] + freed'[t] = 1, Absent(inbox', delayed', t),
           sent'[t] = 1 => due'[t] <= now'
    PROVE  Fate(t)'
BY DEF Fate

LEMMA AsyncDelay ==
    ASSUME AsyncInv, NEW w \in Workers, NEW t \in Tasks, DelayTask(w, t)
    PROVE  AsyncInv'
<1>1. AsyncTyped /\ AsyncLoop /\ FatesInv
  BY DEF AsyncInv
<1>2. /\ pc[w] \notin {"stopped", "joined"} /\ source[t] = Null
      /\ UNCHANGED <<now, running, pc, at, sent, freed>>
      /\ \E d \in Delays : now + d <= MaxNow /\ due' = [due EXCEPT ![t] = now + d]
      /\ \/ GroupOf(w) \in Active /\ Keep(w, t)
         \/ GroupOf(w) \notin Active /\ AODScheduleTask(w, t)
  BY DEF DelayTask, fates
<1>3. /\ source' \in [Tasks -> Workers \cup {Null}]
      /\ source'[t] = w /\ w # Null /\ \A u \in Tasks \ {t} : source'[u] = source[u]
  BY <1>1, ClockAssumption DEF AsyncTyped, DelayTask
<1>4. due' \in [Tasks -> 0 .. MaxNow] /\ \A u \in Tasks \ {t} : due'[u] = due[u]
  <2>1. PICK d \in Delays : now + d <= MaxNow /\ due' = [due EXCEPT ![t] = now + d]
    BY <1>2
  <2>2. now + d \in 0 .. MaxNow
    BY <1>1, <2>1, ClockAssumption DEF AsyncTyped
  <2> QED
    BY <1>1, <2>1, <2>2 DEF AsyncTyped
<1>5. Absent(inbox, delayed, t) /\ sent[t] = 0 /\ freed[t] = 0
  BY <1>1, <1>2 DEF FatesInv, Fate
<1>6. now \in Nat /\ now' = now
  BY <1>1, <1>2, ClockAssumption DEF AsyncTyped
<1>7. \A v \in Workers : pc[v] # "joined"
  BY <1>1, <1>2 DEF AsyncLoop
<1>8. CASE GroupOf(w) \in Active /\ Keep(w, t)
  <2>1. /\ UNCHANGED <<inbox, index>> /\ delayed' \in [Workers -> SUBSET Tasks]
        /\ \A v \in Workers : delayed'[v] = IF v = w THEN delayed[v] \cup {t} ELSE delayed[v]
    BY <1>1, <1>8 DEF Keep, AsyncTyped
  <2>2. AsyncTyped'
    BY <1>1, <1>2, <1>3, <1>4, <2>1 DEF AsyncTyped
  <2>3. AsyncLoop'
    BY <1>1, <1>2, <1>7, <2>1 DEF AsyncLoop
  <2>4. Fate(t)'
    <3>1. Kept(inbox', delayed', w, t)
      BY <1>5, <2>1 DEF Absent, Kept
    <3>2. Waits(inbox', delayed', source'[t], t)
      BY <1>3, <3>1 DEF Waits
    <3> QED
      BY <1>2, <1>3, <1>5, <3>2, FateWaits
  <2>5. ASSUME NEW u \in Tasks \ {t} PROVE Fate(u)'
    BY <1>1, <1>2, <1>3, <1>4, <1>6, <2>1, FateKept DEF FatesInv
  <2> QED
    BY <1>1, <2>1, <2>2, <2>3, <2>4, <2>5 DEF AsyncInv, FatesInv
<1>9. CASE GroupOf(w) \notin Active /\ AODScheduleTask(w, t)
  <2>2. PICK x \in Workers : inbox' = [inbox EXCEPT ![x] = Append(@, t)]
    <3>1. TargetOf(DeferredAODGroups, w) \in Workers
      BY <1>1, <1>9, AsyncTarget DEF AODScheduleTask, Schedule
    <3> QED
      BY <1>9, <3>1 DEF AODScheduleTask, Schedule
  <2>3. index' \in [Workers -> (0 .. Wrap - 1) \X (0 .. Wrap - 1)] /\ UNCHANGED delayed
    <3>1. Following(index[w][1]) \in 0 .. Wrap - 1 /\ Following(index[w][2]) \in 0 .. Wrap - 1
      BY <1>1, FollowingIndex DEF AsyncTyped
    <3>2. index' = [index EXCEPT ![w] = <<Following(index[w][1]), Following(index[w][2])>>]
      BY <1>9 DEF AODScheduleTask, Schedule
    <3> QED
      BY <1>1, <1>9, <3>1, <3>2 DEF AsyncTyped, AODScheduleTask, Schedule
  <2>4. \A v \in Workers : inbox'[v] = IF v = x THEN Append(inbox[v], t) ELSE inbox[v]
    BY <1>1, <2>2 DEF AsyncTyped
  <2>5. inbox[x] \in Seq(Tasks) /\ Single(inbox[x]) /\ t \notin Range(inbox[x])
    BY <1>1, <1>5 DEF AsyncTyped, FatesInv, Absent
  <2>6. Range(inbox'[x]) = Range(inbox[x]) \cup {t} /\ Single(inbox'[x])
    BY <2>4, <2>5, RangeAppend
  <2>7. AsyncTyped'
    <3>1. inbox' \in [Workers -> Seq(Tasks)]
      BY <1>1, <2>2 DEF AsyncTyped
    <3> QED
      BY <1>1, <1>2, <1>3, <1>4, <2>3, <3>1 DEF AsyncTyped
  <2>8. AsyncLoop'
    BY <1>1, <1>2, <1>7, <2>3 DEF AsyncLoop
  <2>9. Fate(t)'
    <3>1. Inboxed(inbox', delayed', x, t)
      BY <1>5, <2>3, <2>4, <2>6 DEF Absent, Inboxed
    <3>2. Waits(inbox', delayed', source'[t], t)
      BY <1>3, <1>9, <3>1 DEF Waits
    <3> QED
      BY <1>2, <1>3, <1>5, <3>2, FateWaits
  <2>10. ASSUME NEW u \in Tasks \ {t} PROVE Fate(u)'
    <3>1. \A v \in Workers : u \in Range(inbox'[v]) <=> u \in Range(inbox[v])
      BY <2>4, <2>6
    <3> QED
      BY <1>1, <1>2, <1>3, <1>4, <1>6, <2>3, <3>1, FateKept DEF FatesInv
  <2>11. \A v \in Workers : Single(inbox'[v])
    BY <1>1, <2>4, <2>6 DEF FatesInv
  <2> QED
    BY <2>7, <2>8, <2>9, <2>10, <2>11 DEF AsyncInv, FatesInv
<1> QED
  BY <1>2, <1>8, <1>9

LEMMA AsyncPop ==
    ASSUME AsyncInv, NEW w \in Workers, AODPopInbox(w)
    PROVE  AsyncInv'
<1>1. AsyncTyped /\ AsyncLoop /\ FatesInv
  BY DEF AsyncInv
<1>0. PICK t \in Tasks : t = Head(inbox[w])
  BY <1>1, RangeTail DEF AODPopInbox, AsyncTyped
<1>2. /\ inbox[w] # <<>> /\ inbox[w] \in Seq(Tasks) /\ Single(inbox[w])
      /\ pc[w] = "inbox" /\ UNCHANGED <<now, due, source, index, running, pc, at, freed>>
      /\ \A v \in Workers : inbox'[v] = IF v = w THEN Tail(inbox[v]) ELSE inbox[v]
  BY <1>1 DEF AODPopInbox, clock, AsyncTyped, FatesInv
<1>3. /\ Range(inbox[w]) = Range(inbox'[w]) \cup {t} /\ t \notin Range(inbox'[w])
      /\ Single(inbox'[w]) /\ Tail(inbox[w]) \in Seq(Tasks) /\ t \in Range(inbox[w])
  BY <1>0, <1>2, RangeTail
<1>4. /\ source[t] # Null /\ sent[t] = 0 /\ freed[t] = 0
      /\ Inboxed(inbox, delayed, w, t) /\ GroupOf(source[t]) \notin Active
  BY <1>1, <1>3, FromInbox DEF FatesInv
<1>5. inbox' \in [Workers -> Seq(Tasks)] /\ \A v \in Workers : Single(inbox'[v])
  BY <1>1, <1>2, <1>3 DEF AODPopInbox, AsyncTyped, FatesInv
<1>6. now \in Nat /\ now' = now /\ due[t] \in Nat /\ at[w] \in Nat /\ at[w] <= now
  BY <1>1, <1>2, ClockAssumption DEF AsyncTyped, AsyncLoop
<1>7. \A v \in Workers : pc[v] = "joined" => inbox'[v] = <<>>
  BY <1>1, <1>2 DEF AsyncLoop
<1>8. CASE due[t] <= at[w] /\ Send(t) /\ UNCHANGED delayed
  <2>1. /\ sent' \in [Tasks -> Nat] /\ sent'[t] = 1
        /\ \A u \in Tasks \ {t} : sent'[u] = sent[u]
    BY <1>1, <1>4, <1>8 DEF Send, AsyncTyped
  <2>2. AsyncTyped' /\ AsyncLoop'
    BY <1>1, <1>2, <1>5, <1>7, <1>8, <2>1 DEF AsyncTyped, AsyncLoop
  <2>3. Fate(t)'
    <3>1. Absent(inbox', delayed', t)
      BY <1>2, <1>3, <1>4, <1>8 DEF Absent, Inboxed
    <3>2. due'[t] <= now'
      BY <1>2, <1>6, <1>8
    <3> QED
      BY <1>2, <1>4, <2>1, <3>1, <3>2, FateOver
  <2>4. ASSUME NEW u \in Tasks \ {t} PROVE Fate(u)'
    <3>1. \A v \in Workers : u \in Range(inbox'[v]) <=> u \in Range(inbox[v])
      BY <1>2, <1>3
    <3> QED
      BY <1>1, <1>2, <1>6, <1>8, <2>1, <3>1, FateKept DEF FatesInv
  <2> QED
    BY <1>5, <2>2, <2>3, <2>4 DEF AsyncInv, FatesInv
<1>9. CASE UNCHANGED sent /\ delayed' = [delayed EXCEPT ![w] = @ \cup {t}]
  <2>1. /\ delayed' \in [Workers -> SUBSET Tasks]
        /\ \A v \in Workers : delayed'[v] = IF v = w THEN delayed[v] \cup {t} ELSE delayed[v]
    BY <1>1, <1>9 DEF AsyncTyped
  <2>2. AsyncTyped'
    BY <1>1, <1>2, <1>5, <1>9, <2>1 DEF AsyncTyped
  <2>3. AsyncLoop'
    BY <1>1, <1>2, <1>7, <2>1 DEF AsyncLoop
  <2>4. Fate(t)'
    <3>1. Kept(inbox', delayed', w, t)
      BY <1>2, <1>3, <1>4, <2>1 DEF Kept, Inboxed
    <3>2. Waits(inbox', delayed', source'[t], t)
      BY <1>2, <1>4, <3>1 DEF Waits
    <3> QED
      BY <1>2, <1>4, <1>9, <3>2, FateWaits
  <2>5. ASSUME NEW u \in Tasks \ {t} PROVE Fate(u)'
    <3>1. \A v \in Workers : u \in Range(inbox'[v]) <=> u \in Range(inbox[v])
      BY <1>2, <1>3
    <3> QED
      BY <1>1, <1>2, <1>6, <1>9, <2>1, <3>1, FateKept DEF FatesInv
  <2> QED
    BY <1>5, <2>2, <2>3, <2>4, <2>5 DEF AsyncInv, FatesInv
<1> QED
  BY <1>0, <1>8, <1>9 DEF AODPopInbox

LEMMA AsyncRun ==
    ASSUME AsyncInv, NEW w \in Workers, AODRunTop(w)
    PROVE  AsyncInv'
<1>1. AsyncTyped /\ AsyncLoop /\ FatesInv
  BY DEF AsyncInv
<1>0. PICK t \in Tasks : /\ t \in delayed[w] /\ due[t] <= at[w]
                         /\ delayed' = [delayed EXCEPT ![w] = @ \ {t}] /\ Send(t)
  BY <1>1 DEF AODRunTop, AsyncTyped
<1>2. /\ UNCHANGED <<now, due, source, inbox, index, running, pc, at, freed>>
      /\ delayed' \in [Workers -> SUBSET Tasks]
      /\ \A v \in Workers : delayed'[v] = IF v = w THEN delayed[v] \ {t} ELSE delayed[v]
  BY <1>0, <1>1 DEF AODRunTop, clock, AsyncTyped
<1>3. source[t] # Null /\ sent[t] = 0 /\ freed[t] = 0 /\ Kept(inbox, delayed, w, t)
  BY <1>0, <1>1, FromQueue DEF FatesInv
<1>4. sent' \in [Tasks -> Nat] /\ sent'[t] = 1 /\ \A u \in Tasks \ {t} : sent'[u] = sent[u]
  BY <1>0, <1>1, <1>3 DEF Send, AsyncTyped
<1>5. AsyncTyped' /\ AsyncLoop'
  BY <1>1, <1>2, <1>4 DEF AsyncTyped, AsyncLoop
<1>6. now \in Nat /\ now' = now /\ due[t] \in Nat /\ at[w] \in Nat /\ at[w] <= now
  BY <1>1, <1>2, ClockAssumption DEF AsyncTyped, AsyncLoop
<1>7. Fate(t)'
  <2>1. Absent(inbox', delayed', t)
    BY <1>2, <1>3 DEF Absent, Kept
  <2>2. due'[t] <= now'
    BY <1>0, <1>2, <1>6
  <2> QED
    BY <1>2, <1>3, <1>4, <2>1, <2>2, FateOver
<1>8. ASSUME NEW u \in Tasks \ {t} PROVE Fate(u)'
  BY <1>1, <1>2, <1>4, <1>6, FateKept DEF FatesInv
<1> QED
  BY <1>1, <1>2, <1>5, <1>7, <1>8 DEF AsyncInv, FatesInv

LEMMA FreeIs ==
    ASSUME AsyncTyped, NEW lost, Free(lost)
    PROVE  /\ freed' \in [Tasks -> Nat]
           /\ \A t \in Tasks : freed'[t] = IF t \in lost THEN freed[t] + 1 ELSE freed[t]
BY DEF AsyncTyped, Free

LEMMA AsyncStop ==
    ASSUME AsyncInv, NEW w \in Workers, AODStopWorker(w)
    PROVE  AsyncInv'
<1>1. AsyncTyped /\ AsyncLoop /\ FatesInv
  BY DEF AsyncInv
<1>2. /\ UNCHANGED <<now, due, source, inbox, index, running, at, sent>> /\ pc[w] = "loop"
      /\ delayed' \in [Workers -> SUBSET Tasks]
      /\ \A v \in Workers : delayed'[v] = IF v = w THEN {} ELSE delayed[v]
      /\ pc' \in [Workers -> {"loop", "inbox", "delayed", "stopped", "joined"}]
      /\ \A v \in Workers : pc'[v] = IF v = w THEN "stopped" ELSE pc[v]
  BY <1>1 DEF AODStopWorker, clock, AsyncTyped
<1>3. /\ freed' \in [Tasks -> Nat]
      /\ \A t \in Tasks : freed'[t] = IF t \in delayed[w] THEN freed[t] + 1 ELSE freed[t]
  BY <1>1, FreeIs DEF AODStopWorker
<1>4. AsyncTyped' /\ AsyncLoop'
  BY <1>1, <1>2, <1>3 DEF AsyncTyped, AsyncLoop
<1>5. now \in Nat /\ now' = now
  BY <1>1, <1>2, ClockAssumption DEF AsyncTyped
<1>6. ASSUME NEW t \in Tasks, t \in delayed[w] PROVE Fate(t)'
  <2>1. source[t] # Null /\ sent[t] = 0 /\ freed[t] = 0 /\ Kept(inbox, delayed, w, t)
    BY <1>1, <1>6, FromQueue DEF FatesInv
  <2>2. Absent(inbox', delayed', t)
    BY <1>2, <2>1 DEF Absent, Kept
  <2>3. freed'[t] = 1 /\ sent'[t] = 0 /\ source'[t] # Null
    BY <1>2, <1>3, <1>6, <2>1
  <2> QED
    BY <2>2, <2>3, FateOver
<1>7. ASSUME NEW t \in Tasks, t \notin delayed[w] PROVE Fate(t)'
  BY <1>1, <1>2, <1>3, <1>5, <1>7, FateKept DEF FatesInv
<1> QED
  BY <1>1, <1>2, <1>4, <1>6, <1>7 DEF AsyncInv, FatesInv

LEMMA AsyncJoin ==
    ASSUME AsyncInv, NEW w \in Workers, AODJoin(w)
    PROVE  AsyncInv'
<1>1. AsyncTyped /\ AsyncLoop /\ FatesInv
  BY DEF AsyncInv
<1>2. /\ UNCHANGED <<now, due, source, delayed, index, running, at, sent>> /\ pc[w] = "stopped"
      /\ \A v \in Workers : pc[v] \in {"stopped", "joined"}
      /\ inbox' \in [Workers -> Seq(Tasks)]
      /\ \A v \in Workers : inbox'[v] = IF v = w THEN <<>> ELSE inbox[v]
      /\ pc' \in [Workers -> {"loop", "inbox", "delayed", "stopped", "joined"}]
      /\ \A v \in Workers : pc'[v] = IF v = w THEN "joined" ELSE pc[v]
  BY <1>1 DEF AODJoin, clock, AsyncTyped
<1>3. /\ freed' \in [Tasks -> Nat]
      /\ \A t \in Tasks : freed'[t] = IF t \in Range(inbox[w]) THEN freed[t] + 1 ELSE freed[t]
  BY <1>1, FreeIs DEF AODJoin
<1>4. AsyncTyped' /\ AsyncLoop'
  BY <1>1, <1>2, <1>3 DEF AsyncTyped, AsyncLoop
<1>5. now \in Nat /\ now' = now
  BY <1>1, <1>2, ClockAssumption DEF AsyncTyped
<1>6. Range(inbox'[w]) = {} /\ \A v \in Workers : Single(inbox'[v])
  BY <1>1, <1>2, RangeEmpty DEF FatesInv
<1>7. ASSUME NEW t \in Tasks, t \in Range(inbox[w]) PROVE Fate(t)'
  <2>1. source[t] # Null /\ sent[t] = 0 /\ freed[t] = 0 /\ Inboxed(inbox, delayed, w, t)
    BY <1>1, <1>7, FromInbox DEF FatesInv
  <2>2. Absent(inbox', delayed', t)
    BY <1>2, <1>6, <2>1 DEF Absent, Inboxed
  <2>3. freed'[t] = 1 /\ sent'[t] = 0 /\ source'[t] # Null
    BY <1>2, <1>3, <1>7, <2>1
  <2> QED
    BY <2>2, <2>3, FateOver
<1>8. ASSUME NEW t \in Tasks, t \notin Range(inbox[w]) PROVE Fate(t)'
  <2>1. \A v \in Workers : t \in Range(inbox'[v]) <=> t \in Range(inbox[v])
    BY <1>2, <1>6, <1>8
  <2> QED
    BY <1>1, <1>2, <1>3, <1>5, <1>8, <2>1, FateKept DEF FatesInv
<1> QED
  BY <1>4, <1>6, <1>7, <1>8 DEF AsyncInv, FatesInv

(* The steps that leave the queues and the tasks alone.                    *)
LEMMA AsyncRest ==
    ASSUME AsyncInv,
           \/ AODAdvance \/ UNCHANGED aodVars \/ \E g \in AllGroups : AODStopGroup(g)
           \/ \E w \in Workers : AODEnterGlobal(w) \/ AODEnterLocal(w) \/ AODEndLocal(w)
    PROVE  AsyncInv'
<1>1. AsyncTyped /\ AsyncLoop /\ FatesInv
  BY DEF AsyncInv
<1>2. UNCHANGED <<due, source, inbox, delayed, index, sent, freed>>
  BY DEF AODAdvance, aodVars, AODStopGroup, AODEnterGlobal, AODEnterLocal, AODEndLocal,
         clock, aodQueues, fates
<1>3. now \in Nat /\ now' \in 0 .. MaxNow /\ now <= now' /\ now' \in Nat
  <2>1. CASE AODAdvance
    BY <1>1, <2>1, ClockAssumption DEF AODAdvance, AsyncTyped
  <2>2. CASE now' = now
    BY <1>1, <2>2, ClockAssumption DEF AsyncTyped
  <2> QED
    BY <2>1, <2>2 DEF aodVars, AODStopGroup, AODEnterGlobal, AODEnterLocal, AODEndLocal, clock
<1> DEFINE Moved ==
       /\ at' \in [Workers -> 0 .. MaxNow] /\ \A v \in Workers : at'[v] <= now'
       /\ pc' \in [Workers -> {"loop", "inbox", "delayed", "stopped", "joined"}]
       /\ \A v \in Workers : pc'[v] = pc[v] \/ {pc[v], pc'[v]} \subseteq {"loop", "inbox", "delayed"}
<1>4. Moved
  <2>1. CASE UNCHANGED <<at, pc>>
    BY <1>1, <1>3, <2>1, ClockAssumption DEF AsyncTyped, AsyncLoop
  <2>2. ASSUME NEW w \in Workers, AODEnterGlobal(w) \/ AODEnterLocal(w)
        PROVE  Moved
    <3>1. PICK q \in {"inbox", "delayed"} : pc' = [pc EXCEPT ![w] = q]
      BY <2>2 DEF AODEnterGlobal, AODEnterLocal
    <3>2. pc[w] \in {"loop", "inbox"} /\ at' = [at EXCEPT ![w] = now] /\ now' = now
      BY <2>2 DEF AODEnterGlobal, AODEnterLocal, clock
    <3> QED
      BY <1>1, <1>3, <3>1, <3>2 DEF AsyncTyped, AsyncLoop
  <2>3. ASSUME NEW w \in Workers, AODEndLocal(w)
        PROVE  Moved
    BY <1>1, <1>3, <2>3 DEF AODEndLocal, AsyncTyped, AsyncLoop, clock
  <2> QED
    BY <2>1, <2>2, <2>3 DEF AODAdvance, aodVars, AODStopGroup
<1>5. running' \in SUBSET AllGroups
  BY <1>1 DEF AODAdvance, aodVars, AODStopGroup, AODEnterGlobal, AODEnterLocal, AODEndLocal,
              AsyncTyped
<1>6. AsyncTyped'
  BY <1>1, <1>2, <1>3, <1>4, <1>5 DEF AsyncTyped
<1>7. AsyncLoop'
  BY <1>1, <1>2, <1>4 DEF AsyncLoop
<1>8. FatesInv'
  BY <1>1, <1>2, <1>3, FateKept DEF FatesInv
<1> QED
  BY <1>6, <1>7, <1>8 DEF AsyncInv

LEMMA AsyncNext == AsyncInv /\ [AODNext]_aodVars => AsyncInv'
<1> SUFFICES ASSUME AsyncInv, [AODNext]_aodVars PROVE AsyncInv'
  OBVIOUS
<1> QED
  BY AsyncDelay, AsyncPop, AsyncRun, AsyncStop, AsyncJoin, AsyncRest DEF AODNext, AODHandle

LEMMA AsyncInductive == AODSpec => []AsyncInv
BY AsyncInit, AsyncNext, PTL DEF AODSpec

(* The places of a task, as pairs of a worker and a position.              *)
LEMMA PlacesAre ==
    ASSUME AsyncTyped, NEW t \in Tasks
    PROVE  \A p : p \in Places(t) <=>
              \E w \in Workers :
                 \/ t \in delayed[w] /\ p = <<w, 0>>
                 \/ \E i \in DOMAIN inbox[w] : inbox[w][i] = t /\ p = <<w, i>>
<1>1. \A w \in Workers : DOMAIN inbox[w] = 1 .. Len(inbox[w]) /\ Len(inbox[w]) \in Nat
  BY DEF AsyncTyped
<1>2. \A p : p \in Places(t) <=>
         \E w \in Workers : \E i \in 0 .. Len(inbox[w]) :
            p = <<w, i>> /\ IF i = 0 THEN t \in delayed[w] ELSE inbox[w][i] = t
  BY DEF Places
<1> QED
  BY <1>1, <1>2

LEMMA FateInvHolds == AsyncInv => FateInv
<1> SUFFICES ASSUME AsyncInv PROVE FateInv
  OBVIOUS
<1>1. AsyncTyped /\ AsyncLoop /\ FatesInv
  BY DEF AsyncInv
<1>2. \A t \in Tasks : sent[t] \in 0 .. 1 /\ freed[t] \in 0 .. 1
  BY <1>1 DEF FatesInv, Fate, AsyncTyped
<1>3. AODTypeOK
  BY <1>1, <1>2 DEF AODTypeOK, QueuesTypeOK, AsyncTyped
<1>4. NotEarly
  BY <1>1, <1>2 DEF NotEarly, FatesInv, Fate
<1>5. ASSUME NEW t \in Tasks, Absent(inbox, delayed, t)
      PROVE  Places(t) = {} /\ Cardinality(Places(t)) = 0
  <2>1. Places(t) = {}
    BY <1>1, <1>5, PlacesAre DEF Absent, Range
  <2> QED
    BY <2>1, FS_EmptySet
<1>6. ASSUME NEW t \in Tasks, Waits(inbox, delayed, source[t], t)
      PROVE  Cardinality(Places(t)) = 1 /\ ~ \A w \in Workers : pc[w] = "joined"
  <2>1. PICK w \in Workers : Inboxed(inbox, delayed, w, t) \/ Kept(inbox, delayed, w, t)
    BY <1>6 DEF Waits
  <2>2. \E p : Places(t) = {p}
    <3>1. CASE Kept(inbox, delayed, w, t)
      <4>1. \A p : p \in Places(t) <=> p = <<w, 0>>
        BY <1>1, <3>1, PlacesAre DEF Kept, Range
      <4>2. Places(t) = {<<w, 0>>}
        BY <4>1
      <4> QED
        BY <4>2
    <3>2. CASE Inboxed(inbox, delayed, w, t)
      <4>1. PICK i \in DOMAIN inbox[w] : inbox[w][i] = t
        BY <3>2 DEF Inboxed, Range
      <4>2. \A v \in Workers : \A j \in DOMAIN inbox[v] : inbox[v][j] = t => v = w /\ j = i
        BY <1>1, <3>2, <4>1 DEF Inboxed, Range, FatesInv, Single
      <4>3. \A p : p \in Places(t) <=> p = <<w, i>>
        BY <1>1, <3>2, <4>1, <4>2, PlacesAre DEF Inboxed
      <4>4. Places(t) = {<<w, i>>}
        BY <4>3
      <4> QED
        BY <4>4
    <3> QED
      BY <2>1, <3>1, <3>2
  <2>3. pc[w] # "joined"
    BY <1>1, <2>1, RangeEmpty DEF AsyncLoop, Inboxed, Kept
  <2> QED
    BY <2>2, <2>3, FS_Singleton
<1>7. OneFate
  <2> SUFFICES ASSUME NEW t \in Tasks
               PROVE  /\ Cardinality(Places(t)) + sent[t] + freed[t] = IF source[t] = Null THEN 0 ELSE 1
                      /\ (\A w \in Workers : pc[w] = "joined") => Places(t) = {}
    BY DEF OneFate
  <2>1. Fate(t) /\ sent[t] \in Nat /\ freed[t] \in Nat
    BY <1>1 DEF FatesInv, AsyncTyped
  <2> QED
    BY <1>5, <1>6, <2>1 DEF Fate
<1> QED
  BY <1>3, <1>4, <1>7 DEF FateInv

LEMMA SameThreadHolds == AsyncInv => SameThread
<1> SUFFICES ASSUME AsyncInv, NEW t \in Tasks, source[t] # Null, GroupOf(source[t]) \in Active,
                    NEW p \in Places(t)
             PROVE  p[1] = source[t] /\ p[2] = 0
  BY DEF SameThread
<1>1. AsyncTyped /\ Fate(t)
  BY DEF AsyncInv, FatesInv
<1>2. PICK w \in Workers :
         \/ t \in delayed[w] /\ p = <<w, 0>>
         \/ \E i \in DOMAIN inbox[w] : inbox[w][i] = t /\ p = <<w, i>>
  BY <1>1, PlacesAre
<1>3. t \notin Range(inbox[w])
  BY <1>1, FromInbox
<1>4. t \in delayed[w] /\ p = <<w, 0>>
  BY <1>2, <1>3 DEF Range
<1>5. w = source[t]
  BY <1>1, <1>4, FromQueue
<1> QED
  BY <1>4, <1>5

(* A delayed task of an object is in one queue until it is handed to its   *)
(* object, once and not early, or is released, once; when all workers are  *)
(* joined none is left.                                                    *)
THEOREM AsyncFates == AODSpec => []FateInv
BY AsyncInductive, FateInvHolds, PTL

(* A delayed task that a worker of an active group makes stays with it.    *)
THEOREM AsyncStaysWithThread == AODSpec => []SameThread
BY AsyncInductive, SameThreadHolds, PTL
=============================================================================
