----------------------- MODULE ServerLifecycleProofs -----------------------
(***************************************************************************)
(* For all groups, workers, services and settings, that is for all sets of *)
(* calls that may fail: the counters of the server, the order of its hooks *)
(* and the promises of ServerLifetime.                                     *)
(*                                                                         *)
(* The invariant says, besides the types, who was spawned (SpawnInv), what *)
(* the counters count (CountInv, GroupsInv), what an open latch means      *)
(* (LatchInv), who was the last of his group (LastInv), how far a stop is  *)
(* (WalkInv), who answered TRUE (OkInv) and what was called (HookInv).     *)
(***************************************************************************)
EXTENDS ServerLifecycle, FiniteSetTheorems, SequenceTheorems, TLAPS

Up        == Starting \cup Running
Ending    == Stopping \cup Stopped
Labels    == BeforeCount \cup Up \cup Ending
HookNames == {"beforeStart", "started", "beforeStop", "servicesStopped", "stopped", "afterStop"}

(* The types that do not depend on what the counters count.                *)
Typed ==
    /\ \E s \in Settings : faults = s[1] /\ master = s[2]
    /\ main \in {"new", "starting", "joining", "final", "failed"}
    /\ started \in 0 .. NumGroups
    /\ running \in BOOLEAN /\ groupRunning \in [Groups -> BOOLEAN]
    /\ runningWorkers \in [Groups -> Int]
    /\ activeGroups \in Int /\ totalRunning \in Int /\ startup \in Int /\ shutdown \in Int
    /\ pc \in [Workers -> Labels]
    /\ ok \in [Workers -> BOOLEAN] /\ last \in [Workers -> BOOLEAN]
    /\ service \in [Services -> {"up", "pending", "down"}]
    /\ servicesLeft \in Int /\ servicesLeft <= NumServices
    /\ NumServices = 0 => servicesLeft = 0
    /\ stop \in {"idle", "services", "groups"}
    /\ stopAt \in Groups \cup Services
    /\ stop = "services" => stopAt \in Services
    /\ stop = "groups" => stopAt \in Groups
    /\ stopBy \in Workers \cup {None}
    /\ signals \in 0 .. MaxSignals
    /\ hooks \in Seq(HookNames)

(* Workers are spawned with their group, the master worker after all.      *)
SpawnInv ==
    /\ main \in {"new", "failed"} => started = 0
    /\ \A w \in Workers : pc[w] # "none" => GroupOf[w] <= started
    /\ master # None /\ main \in {"new", "failed", "starting"} => pc[master] = "none"
    /\ \A w \in Workers : pc[w] = "dead" => "threadInit" \in faults

(* What the counters count, and the two latches.                           *)
CountIn(S, f, P) == Cardinality({w \in S : f[w] \in P})

Totalled   == (Starting \ {"started"}) \cup Running \cup {"stopped"}
Untotalled == {"stopHandler", "arriveStop"} \cup Stopped

CountInv ==
    /\ \A g \in Groups : runningWorkers[g] = CountIn(Members(g), pc, Up)
    /\ startup = CountIn(Workers, pc, BeforeCount \cup Starting)
    /\ shutdown <= Cardinality(Workers)
    /\ shutdown >= CountIn(Workers, pc, Labels \ Stopped)
    /\ "stopHandler" \notin faults => shutdown = CountIn(Workers, pc, Labels \ Stopped)
    /\ totalRunning <= CountIn(Workers, pc, Totalled)
    /\ -totalRunning <= CountIn(Workers, pc, Untotalled)
    /\ "workerStart" \notin faults => totalRunning = CountIn(Workers, pc, Totalled)

LatchInv ==
    /\ StartBarrier
    /\ \A w \in Workers : pc[w] = "groupStopped" \/ (pc[w] = "gone" /\ "stopHandler" \notin faults)
          => \A v \in Workers : pc[v] \in Stopped

(* The last worker of a group to be counted in, and to be counted out.     *)
LastInv ==
    /\ \A w \in Workers : pc[w] \in BeforeCount => ~last[w]
    /\ \A w \in Workers : pc[w] \in {"acceptors", "groupStarted", "groupStopped"} => last[w]
    /\ \A w, v \in Workers : last[w] /\ GroupOf[v] = GroupOf[w] =>
          /\ pc[w] \in Up => pc[v] \notin BeforeCount
          /\ pc[w] \in Ending => pc[v] \in Ending
          /\ last[v] /\ pc[w] \in Up /\ pc[v] \in Up => w = v
          /\ last[v] /\ pc[w] \in Ending /\ pc[v] \in Ending => w = v
    /\ \A g \in Groups : (\A v \in Members(g) : pc[v] \in Up) \/ (\A v \in Members(g) : pc[v] \in Ending)
          => \E w \in Members(g) : last[w]

(* What ActiveWorkerGroups counts: up to the start the groups whose last   *)
(* worker has reported, from the stop on all but those whose last has.     *)
CountedIn  == {g \in Groups : \E w \in Members(g) : last[w] /\ pc[w] \in {"arriveStart"} \cup Running}
CountedOut == {g \in Groups : Ended(g)}
AllStart   == "workerStart" \notin faults /\ "startHandler" \notin faults
AllStop    == AllStart /\ "stopHandler" \notin faults

GroupsInv ==
    /\ startup > 0 => /\ 0 <= activeGroups /\ activeGroups <= Cardinality(CountedIn)
                      /\ AllStart => activeGroups = Cardinality(CountedIn)
    /\ startup = 0 => /\ -Cardinality(CountedOut) <= activeGroups /\ activeGroups <= NumGroups
                      /\ AllStop /\ shutdown > 0 => activeGroups = NumGroups
                      /\ AllStop /\ shutdown = 0 => activeGroups = Cardinality(Groups \ CountedOut)

(* Where the stop is.                                                      *)
AllDown   == \A s \in Services : service[s] = "down"
Untouched ==
    /\ stop = "idle" /\ servicesLeft = NumServices
    /\ \A s \in Services : service[s] = "up"
    /\ \A g \in 1 .. started : groupRunning[g]
    /\ ~Called("beforeStop") /\ ~Called("servicesStopped")
Remaining  == CountIn(Services, service, {"up", "pending"})
GroupStops == stop = "groups" \/ \E g \in 1 .. started : ~groupRunning[g]

WalkInv ==
    /\ main = "new" => ~running /\ hooks = <<>> /\ Untouched
    /\ running /\ ~Called("stopped") => Untouched
    /\ ~Called("beforeStop") => Untouched
    /\ GroupStops => Called("servicesStopped")
    /\ RanFirst =>
          /\ GroupStops \/ Called("stopped") => AllDown
          /\ servicesLeft = Remaining
          /\ stop = "services" => \A s \in stopAt .. NumServices : service[s] = "up"

(* Who answered what, and who left his loop because his group stopped.     *)
NotYet == BeforeCount \cup {"started", "startHandler", "acceptors", "groupStarted", "signal"}

OkInv ==
    \A w \in Workers :
        /\ ok[w] => pc[w] \notin NotYet
        /\ ok[w] /\ pc[w] \in {"decrement"} \cup Ending => ~groupRunning[GroupOf[w]]
        /\ AllStart /\ "serverStart" \notin faults /\ pc[w] \in {"arriveStart"} \cup Running \cup Ending
              => ok[w]
        /\ pc[w] = "run" => ok[w]

(* Which hooks were called.                                                *)
InTurn == RanFirst /\ Only({"beforeStart", "serverStart", "beforeStop"}) => InSequence

CalledInv ==
    /\ main # "new" => Called("beforeStart")
    /\ Called("started") => startup = 0 \/ activeGroups = NumGroups
    /\ AllStart /\ (startup = 0 \/ activeGroups = NumGroups) => Called("started")
    /\ Called("stopped") => activeGroups <= 0
    /\ AllStop /\ shutdown = 0 /\ activeGroups = 0 => Called("stopped")
    /\ Called("afterStop") => IF master = None THEN Called("stopped") ELSE main = "final"

HookInv == CalledInv /\ StoppedAfterAll /\ InTurn

IInv == Typed /\ SpawnInv /\ CountInv /\ LatchInv /\ LastInv /\ GroupsInv /\ WalkInv /\ OkInv /\ HookInv

-----------------------------------------------------------------------------
(***************************************************************************)
(* Counting.                                                               *)
(***************************************************************************)
LEMMA CountType ==
    ASSUME NEW S, IsFiniteSet(S), NEW f, NEW P
    PROVE  /\ CountIn(S, f, P) \in 0 .. Cardinality(S)
           /\ CountIn(S, f, P) = 0 <=> \A v \in S : f[v] \notin P
           /\ CountIn(S, f, P) = Cardinality(S) <=> \A v \in S : f[v] \in P
<1> DEFINE T == {v \in S : f[v] \in P}
<1>1. IsFiniteSet(T) /\ Cardinality(T) <= Cardinality(S) /\ (Cardinality(S) = Cardinality(T) => S = T)
  BY FS_Subset
<1>2. Cardinality(T) \in Nat /\ Cardinality(S) \in Nat
  BY <1>1, FS_CardinalityType
<1>3. Cardinality(T) = 0 <=> T = {}
  BY <1>1, FS_EmptySet
<1>4. (\A v \in S : f[v] \in P) => S = T
  OBVIOUS
<1> QED
  BY <1>1, <1>2, <1>3, <1>4 DEF CountIn

(* A count changes by one if one worker enters or leaves what is counted.  *)
LEMMA CountMoves ==
    ASSUME NEW S, IsFiniteSet(S), NEW f, NEW h, NEW P, NEW w \in S,
           \A v \in S : v # w => h[v] = f[v]
    PROVE  /\ (f[w] \in P <=> h[w] \in P) => CountIn(S, h, P) = CountIn(S, f, P)
           /\ f[w] \in P /\ h[w] \notin P => CountIn(S, h, P) = CountIn(S, f, P) - 1
           /\ f[w] \notin P /\ h[w] \in P => CountIn(S, h, P) = CountIn(S, f, P) + 1
<1> DEFINE T == {v \in S : f[v] \in P}
           U == {v \in S : h[v] \in P}
<1>1. IsFiniteSet(T) /\ IsFiniteSet(U)
  BY FS_Subset
<1>2. Cardinality(T) \in Nat
  BY <1>1, FS_CardinalityType
<1>3. ASSUME f[w] \in P <=> h[w] \in P
      PROVE  U = T
  BY <1>3
<1>4. ASSUME f[w] \in P, h[w] \notin P
      PROVE  U = T \ {w} /\ w \in T
  BY <1>4
<1>5. ASSUME f[w] \notin P, h[w] \in P
      PROVE  U = T \cup {w} /\ w \notin T
  BY <1>5
<1>6. Cardinality(T \ {w}) = IF w \in T THEN Cardinality(T) - 1 ELSE Cardinality(T)
  BY <1>1, FS_RemoveElement
<1>7. Cardinality(T \cup {w}) = IF w \in T THEN Cardinality(T) ELSE Cardinality(T) + 1
  BY <1>1, FS_AddElement
<1> QED
  BY <1>2, <1>3, <1>4, <1>5, <1>6, <1>7 DEF CountIn

LEMMA CountSame ==
    ASSUME NEW S, NEW f, NEW h, NEW P, \A v \in S : f[v] \in P <=> h[v] \in P
    PROVE  CountIn(S, h, P) = CountIn(S, f, P)
<1>1. {v \in S : f[v] \in P} = {v \in S : h[v] \in P}
  OBVIOUS
<1> QED
  BY <1>1 DEF CountIn

LEMMA FiniteSets ==
    /\ IsFiniteSet(Workers) /\ Cardinality(Workers) \in Nat
    /\ IsFiniteSet(Groups) /\ Cardinality(Groups) = NumGroups
    /\ IsFiniteSet(Services) /\ Cardinality(Services) = NumServices
    /\ NumGroups \in Nat /\ NumGroups >= 1 /\ NumServices \in Nat
    /\ Workers # {}
    /\ \A g \in Groups : Members(g) \subseteq Workers /\ IsFiniteSet(Members(g)) /\ Members(g) # {}
    /\ \A w \in Workers : GroupOf[w] \in Groups /\ w \in Members(GroupOf[w])
<1>1. NumGroups \in Nat /\ NumGroups >= 1 /\ NumServices \in Nat /\ IsFiniteSet(Workers)
  BY ServerAssumption
<1>2. IsFiniteSet(Groups) /\ Cardinality(Groups) = NumGroups
  BY <1>1, FS_Interval DEF Groups
<1>3. IsFiniteSet(Services) /\ Cardinality(Services) = NumServices
  BY <1>1, FS_Interval DEF Services
<1>4. \A w \in Workers : GroupOf[w] \in Groups /\ w \in Members(GroupOf[w])
  BY ServerAssumption DEF Members
<1>5. \A g \in Groups : Members(g) \subseteq Workers /\ IsFiniteSet(Members(g)) /\ Members(g) # {}
  BY ServerAssumption, <1>1, FS_Subset DEF Members
<1>6. Workers # {}
  BY <1>1, <1>5 DEF Groups
<1> QED
  BY <1>1, <1>2, <1>3, <1>4, <1>5, <1>6, FS_CardinalityType

(***************************************************************************)
(* The hooks that were called.                                             *)
(***************************************************************************)
Has(hs, h) == \E i \in DOMAIN hs : hs[i] = h

LEMMA HasAppend ==
    ASSUME NEW hs \in Seq(HookNames), NEW x \in HookNames
    PROVE  /\ Append(hs, x) \in Seq(HookNames)
           /\ \A h : Has(Append(hs, x), h) <=> Has(hs, h) \/ h = x
<1>1. Len(hs) \in Nat /\ Append(hs, x) \in Seq(HookNames) /\ Len(Append(hs, x)) = Len(hs) + 1
      /\ DOMAIN hs = 1 .. Len(hs) /\ DOMAIN Append(hs, x) = 1 .. Len(hs) + 1
  OBVIOUS
<1>2. \A i \in 1 .. Len(hs) : Append(hs, x)[i] = hs[i]
  OBVIOUS
<1>3. Append(hs, x)[Len(hs) + 1] = x
  OBVIOUS
<1> QED
  BY <1>1, <1>2, <1>3 DEF Has

LEMMA AppendTwo ==
    ASSUME NEW hs \in Seq(HookNames), NEW x \in HookNames, NEW y \in HookNames
    PROVE  /\ hs \o <<x, y>> = Append(Append(hs, x), y)
           /\ hs \o <<x>> = Append(hs, x)
<1>1. hs \o <<x>> = Append(hs, x)
  OBVIOUS
<1>2. hs \o <<x, y>> = Append(Append(hs, x), y)
  OBVIOUS
<1> QED
  BY <1>1, <1>2

(* What a call of a hook adds.                                             *)
LEMMA CallAdds ==
    ASSUME hooks \in Seq(HookNames), NEW x \in HookNames, Call(x)
    PROVE  hooks' \in Seq(HookNames) /\ \A h : Called(h)' <=> Called(h) \/ h = x
BY HasAppend DEF Call, Called, Has

(* The first part of SignalToStop, in the four ways it can go.             *)
LEMMA BeginWays ==
    ASSUME hooks \in Seq(HookNames), NEW by, NEW force, Begin(by, force)
    PROVE  /\ running' = FALSE /\ UNCHANGED <<service, servicesLeft>>
           /\ hooks' \in Seq(HookNames)
           /\ \/ /\ ~running /\ UNCHANGED <<stop, stopAt, stopBy, hooks>>
              \/ /\ running /\ "beforeStop" \in faults
                 /\ UNCHANGED <<stop, stopAt, stopBy>>
                 /\ hooks' = Append(hooks, "beforeStop")
                 /\ \A h : Called(h)' <=> Called(h) \/ h = "beforeStop"
              \/ /\ running /\ servicesLeft # 0
                 /\ stop' = "services" /\ stopAt' = 1 /\ stopBy' = by
                 /\ hooks' = Append(hooks, "beforeStop")
                 /\ \A h : Called(h)' <=> Called(h) \/ h = "beforeStop"
              \/ /\ running /\ servicesLeft = 0
                 /\ stop' = "groups" /\ stopAt' = 1 /\ stopBy' = by
                 /\ hooks' = Append(Append(hooks, "beforeStop"), "servicesStopped")
                 /\ \A h : Called(h)' <=> Called(h) \/ h \in {"beforeStop", "servicesStopped"}
<1> DEFINE one == Append(hooks, "beforeStop")
           two == Append(one, "servicesStopped")
<1>1. "beforeStop" \in HookNames /\ "servicesStopped" \in HookNames
  BY DEF HookNames
<1>2. one \in Seq(HookNames) /\ \A h : Has(one, h) <=> Has(hooks, h) \/ h = "beforeStop"
  BY <1>1, HasAppend
<1>3. two \in Seq(HookNames) /\ \A h : Has(two, h) <=> Has(one, h) \/ h = "servicesStopped"
  BY <1>1, <1>2, HasAppend
<1>4. hooks \o <<"beforeStop", "servicesStopped">> = two
  BY <1>1, AppendTwo
<1>5. \A h : Called(h) <=> Has(hooks, h)
  BY DEF Called, Has
<1>6. \A h : Called(h)' <=> Has(hooks', h)
  BY DEF Called, Has
<1> HIDE DEF one, two
<1>7. Call("beforeStop") => hooks' = one
  BY DEF Call, one
<1>8. running' = FALSE /\ UNCHANGED <<service, servicesLeft>>
  BY DEF Begin
<1>9. \/ ~running /\ UNCHANGED <<stop, stopAt, stopBy, hooks>>
      \/ running /\ "beforeStop" \in faults /\ hooks' = one /\ UNCHANGED <<stop, stopAt, stopBy>>
      \/ running /\ servicesLeft # 0 /\ hooks' = one /\ stop' = "services" /\ stopAt' = 1 /\ stopBy' = by
      \/ running /\ servicesLeft = 0 /\ hooks' = two /\ stop' = "groups" /\ stopAt' = 1 /\ stopBy' = by
  BY <1>4, <1>7 DEF Begin, StopGroups
<1>10. hooks' \in Seq(HookNames)
  BY <1>9, <1>2, <1>3
<1>11. hooks' = one => \A h : Called(h)' <=> Called(h) \/ h = "beforeStop"
  BY <1>2, <1>5, <1>6
<1>12. hooks' = two => \A h : Called(h)' <=> Called(h) \/ h \in {"beforeStop", "servicesStopped"}
  BY <1>2, <1>3, <1>5, <1>6
<1> QED
  BY <1>8, <1>9, <1>10, <1>11, <1>12 DEF one, two

(* OnServerStopped, with OnAfterServerStopped if there is no master.       *)
LEMMA StoppedAdds ==
    ASSUME hooks \in Seq(HookNames),
           hooks' = hooks \o (IF master = None THEN <<"stopped", "afterStop">> ELSE <<"stopped">>)
    PROVE  /\ hooks' \in Seq(HookNames)
           /\ hooks' = IF master = None THEN Append(Append(hooks, "stopped"), "afterStop")
                       ELSE Append(hooks, "stopped")
           /\ \A h : Called(h)' <=> \/ Called(h) \/ h = "stopped"
                                    \/ h = "afterStop" /\ master = None
<1> DEFINE one == Append(hooks, "stopped")
           two == Append(one, "afterStop")
<1>1. "stopped" \in HookNames /\ "afterStop" \in HookNames
  BY DEF HookNames
<1>2. one \in Seq(HookNames) /\ \A h : Has(one, h) <=> Has(hooks, h) \/ h = "stopped"
  BY <1>1, HasAppend
<1>3. two \in Seq(HookNames) /\ \A h : Has(two, h) <=> Has(one, h) \/ h = "afterStop"
  BY <1>1, <1>2, HasAppend
<1>4. hooks \o <<"stopped", "afterStop">> = two /\ hooks \o <<"stopped">> = one
  BY <1>1, AppendTwo
<1>5. \A h : Called(h) <=> Has(hooks, h)
  BY DEF Called, Has
<1>6. \A h : Called(h)' <=> Has(hooks', h)
  BY DEF Called, Has
<1> HIDE DEF one, two
<1>7. CASE master = None
  <2>1. hooks' = two
    BY <1>4, <1>7
  <2> QED
    BY <1>2, <1>3, <1>5, <1>6, <1>7, <2>1 DEF one, two
<1>8. CASE master # None
  <2>1. hooks' = one
    BY <1>4, <1>8
  <2> QED
    BY <1>2, <1>5, <1>6, <1>8, <2>1 DEF one
<1> QED
  BY <1>7, <1>8

(***************************************************************************)
(* The types.                                                              *)
(***************************************************************************)
LEMMA TypedInit == Init => Typed
<1> SUFFICES ASSUME Init PROVE Typed
  OBVIOUS
<1>1. Cardinality(Workers) \in Nat /\ NumGroups \in Nat /\ NumServices \in Nat /\ MaxSignals \in Nat /\ NumGroups >= 1
  BY FiniteSets, ServerAssumption
<1>2. hooks \in Seq(HookNames)
  BY DEF Init
<1>3. pc \in [Workers -> Labels] /\ ok \in [Workers -> BOOLEAN] /\ last \in [Workers -> BOOLEAN]
      /\ service \in [Services -> {"up", "pending", "down"}]
      /\ groupRunning \in [Groups -> BOOLEAN] /\ runningWorkers \in [Groups -> Int]
  BY DEF Init, Labels, BeforeCount
<1>4. \E s \in Settings : faults = s[1] /\ master = s[2]
  BY DEF Init
<1>5. started \in 0 .. NumGroups /\ signals \in 0 .. MaxSignals /\ stopAt \in Groups
  BY <1>1 DEF Init, Groups
<1>6. main \in {"new", "starting", "joining", "final", "failed"} /\ running \in BOOLEAN
  BY DEF Init
<1>7. activeGroups \in Int /\ totalRunning \in Int /\ startup \in Int /\ shutdown \in Int
      /\ servicesLeft \in Int /\ servicesLeft <= NumServices /\ (NumServices = 0 => servicesLeft = 0)
  BY <1>1 DEF Init
<1>8. stop \in {"idle", "services", "groups"} /\ stopAt \in Groups \cup Services
      /\ (stop = "services" => stopAt \in Services) /\ (stop = "groups" => stopAt \in Groups)
      /\ stopBy \in Workers \cup {None}
  BY <1>5 DEF Init
<1> QED
  BY <1>2, <1>3, <1>4, <1>5, <1>6, <1>7, <1>8 DEF Typed

(* The steps of the main thread and of SignalToStop.                       *)
LEMMA TypedOthers ==
    ASSUME Typed, \/ Main \/ \E force \in BOOLEAN : SignalToStop(force)
                  \/ StopService \/ StopGroup \/ \E s \in Services : OnServiceStopped(s)
    PROVE  Typed'
<1> USE FiniteSets
<1>1. CASE StartServer
  <2>1. hooks' \in Seq(HookNames)
    BY <1>1, CallAdds DEF StartServer, Typed, HookNames
  <2> QED
    BY <1>1, <2>1 DEF StartServer, Typed, counters, workerVars, stopVars
<1>2. CASE StartGroup
  <2>1. pc' \in [Workers -> Labels]
    BY <1>2 DEF StartGroup, Typed, Labels, BeforeCount
  <2>2. started' \in 0 .. NumGroups /\ groupRunning' \in [Groups -> BOOLEAN]
    BY <1>2 DEF StartGroup, Typed, Groups
  <2> QED
    BY <1>2, <2>1, <2>2 DEF StartGroup, Typed, counters, stopVars
<1>3. CASE RunMaster
  <2>1. pc' \in [Workers -> Labels]
    BY <1>3 DEF RunMaster, Typed, Labels, BeforeCount
  <2> QED
    BY <1>3, <2>1 DEF RunMaster, Typed, counters, stopVars
<1>4. CASE JoinAllGroups
  <2>1. hooks' \in Seq(HookNames)
    BY <1>4, CallAdds DEF JoinAllGroups, Typed, HookNames
  <2> QED
    BY <1>4, <2>1 DEF JoinAllGroups, Typed, counters, workerVars, stopVars
<1>5. ASSUME NEW force \in BOOLEAN, SignalToStop(force)
      PROVE  Typed'
  <2>1. Begin(None, force) /\ hooks \in Seq(HookNames)
    BY <1>5 DEF SignalToStop, Typed
  <2>2. hooks' \in Seq(HookNames) /\ running' = FALSE /\ UNCHANGED <<service, servicesLeft>>
    BY <2>1, BeginWays
  <2>3. \/ UNCHANGED <<stop, stopAt, stopBy>>
        \/ servicesLeft # 0 /\ stop' = "services" /\ stopAt' = 1 /\ stopBy' = None
        \/ stop' = "groups" /\ stopAt' = 1 /\ stopBy' = None
    BY <2>1, BeginWays
  <2>4. signals' \in 0 .. MaxSignals
    BY <1>5, ServerAssumption DEF SignalToStop, Typed
  <2>5. /\ stop' \in {"idle", "services", "groups"} /\ stopAt' \in Groups \cup Services
        /\ stop' = "services" => stopAt' \in Services
        /\ stop' = "groups" => stopAt' \in Groups
        /\ stopBy' \in Workers \cup {None}
    BY <2>3 DEF Typed, Groups, Services
  <2>6. UNCHANGED <<mainVars, groupRunning, counters, workerVars>>
    BY <1>5 DEF SignalToStop
  <2> QED
    BY <2>2, <2>4, <2>5, <2>6 DEF Typed, mainVars, counters, workerVars
<1>6. ASSUME NEW s \in Services, CountService(s, stopBy) \/ CountService(s, None)
      PROVE  /\ hooks' \in Seq(HookNames)
             /\ service' \in [Services -> {"up", "pending", "down"}]
             /\ servicesLeft' \in Int /\ servicesLeft' <= NumServices /\ NumServices # 0
             /\ servicesLeft = 1 => stop' = "groups" /\ stopAt' = 1 /\ stopBy' \in Workers \cup {None}
  <2>1. hooks' \in Seq(HookNames)
    BY <1>6, CallAdds DEF CountService, Typed, HookNames
  <2>2. service' \in [Services -> {"up", "pending", "down"}]
    BY <1>6 DEF CountService, Typed
  <2> QED
    BY <1>6, <2>1, <2>2 DEF CountService, StopGroups, Typed, Services
<1>7. CASE StopService
  <2>1. stopAt \in Services /\ NumServices # 0
    BY <1>7 DEF StopService, Typed, Services
  <2>2. NextService(stopAt) => /\ stop' \in {"idle", "services"}
                               /\ stop' = "services" => stopAt' \in Services
                               /\ stopAt' \in Groups \cup Services
                               /\ stopBy' \in Workers \cup {None}
    BY <1>7, <2>1 DEF NextService, StopService, Typed, Services, Groups
  <2>3. CASE CountService(stopAt, stopBy) /\ (servicesLeft # 1 => NextService(stopAt))
    BY <1>6, <1>7, <2>1, <2>2, <2>3 DEF StopService, Typed, mainVars, counters, workerVars, Groups
  <2>4. CASE service' = [service EXCEPT ![stopAt] = "pending"] /\ NextService(stopAt) /\ UNCHANGED <<servicesLeft, hooks>>
    <3>1. service' \in [Services -> {"up", "pending", "down"}]
      BY <2>4 DEF Typed
    <3> QED
      BY <1>7, <2>1, <2>2, <2>4, <3>1 DEF StopService, Typed, mainVars, counters, workerVars
  <2> QED
    BY <1>7, <2>3, <2>4 DEF StopService
<1>8. CASE StopGroup
  <2>1. groupRunning' \in [Groups -> BOOLEAN]
    BY <1>8 DEF StopGroup, Typed
  <2>2. /\ stop' \in {"idle", "groups"}
        /\ stop' = "groups" => stopAt' \in Groups
        /\ stopAt' \in Groups \cup Services
        /\ stopBy' \in Workers \cup {None}
    BY <1>8 DEF StopGroup, NextGroup, Typed, Services, Groups
  <2> QED
    BY <1>8, <2>1, <2>2 DEF StopGroup, Typed, mainVars, counters, workerVars
<1>9. ASSUME NEW s \in Services, OnServiceStopped(s)
      PROVE  Typed'
  <2>1. CountService(s, None) /\ (servicesLeft # 1 => UNCHANGED <<stop, stopAt, stopBy>>)
    BY <1>9 DEF OnServiceStopped
  <2> QED
    BY <1>6, <1>9, <2>1 DEF OnServiceStopped, Typed, mainVars, counters, workerVars, Groups
<1> QED
  BY <1>1, <1>2, <1>3, <1>4, <1>5, <1>7, <1>8, <1>9 DEF Main

(* The steps of a worker.                                                  *)
LEMMA TypedStep ==
    ASSUME Typed, NEW w \in Workers, Step(w)
    PROVE  Typed'
<1> USE FiniteSets
<1>1. pc' \in [Workers -> Labels]
  <2>1. ASSUME NEW l \in Labels, Goto(w, l)
        PROVE  pc' \in [Workers -> Labels]
    BY <2>1 DEF Goto, Typed
  <2> QED
    BY <2>1 DEF Step, Begins, IncrementRunning, OnWorkerStarted, StartHandler, StartAcceptors,
                OnWorkerGroupStarted, ArriveStart, WaitStart, LeaveLoop, SignalFailure, DecrementRunning,
                OnWorkerStopped, StopHandler, ArriveStop, WaitStop, OnWorkerGroupStopped,
                Labels, Up, Ending, BeforeCount, Starting, Running, Stopping, Stopped
<1>2. ok' \in [Workers -> BOOLEAN]
  <2>1. ASSUME NEW a \in BOOLEAN, Answer(w, a)
        PROVE  ok' \in [Workers -> BOOLEAN]
    BY <2>1 DEF Answer, Typed
  <2>2. UNCHANGED ok \/ Answer(w, TRUE) \/ Answer(w, FALSE)
    BY DEF Step, Begins, IncrementRunning, OnWorkerStarted, StartHandler, StartAcceptors,
           OnWorkerGroupStarted, ArriveStart, WaitStart, LeaveLoop, SignalFailure, DecrementRunning,
           OnWorkerStopped, StopHandler, ArriveStop, WaitStop, OnWorkerGroupStopped
  <2> QED
    BY <2>1, <2>2 DEF Typed
<1>3. ASSUME Begin(w, TRUE)
      PROVE  /\ hooks' \in Seq(HookNames) /\ running' = FALSE /\ UNCHANGED <<service, servicesLeft>>
             /\ \/ UNCHANGED <<stop, stopAt, stopBy>>
                \/ servicesLeft # 0 /\ stop' = "services" /\ stopAt' = 1 /\ stopBy' = w
                \/ stop' = "groups" /\ stopAt' = 1 /\ stopBy' = w
  <2>1. hooks \in Seq(HookNames)
    BY DEF Typed
  <2> QED
    BY <1>3, <2>1, BeginWays
<1>4. CASE Begins(w) \/ StartHandler(w) \/ WaitStart(w) \/ LeaveLoop(w) \/ StopHandler(w) \/ WaitStop(w)
  <2>1. UNCHANGED <<mainVars, running, groupRunning, counters, last, stopVars, signals, hooks>>
    BY <1>4 DEF Begins, StartHandler, WaitStart, LeaveLoop, StopHandler, WaitStop
  <2> QED
    BY <1>1, <1>2, <2>1 DEF Typed, mainVars, counters, stopVars
<1>5. CASE IncrementRunning(w) \/ DecrementRunning(w)
  <2>1. last' \in [Workers -> BOOLEAN]
    BY <1>5 DEF IncrementRunning, DecrementRunning, Typed
  <2>2. runningWorkers' \in [Groups -> Int]
    BY <1>5 DEF IncrementRunning, DecrementRunning, Typed
  <2> QED
    BY <1>1, <1>5, <2>1, <2>2 DEF IncrementRunning, DecrementRunning, Typed, mainVars, stopVars
<1>6. CASE OnWorkerStarted(w) \/ ArriveStart(w) \/ OnWorkerStopped(w) \/ ArriveStop(w)
  <2>1. totalRunning' \in Int /\ startup' \in Int /\ shutdown' \in Int
    <3>1. totalRunning \in Int /\ startup \in Int /\ shutdown \in Int
      BY DEF Typed
    <3>2. \/ totalRunning' = totalRunning + 1 \/ totalRunning' = totalRunning - 1 \/ totalRunning' = totalRunning
      BY <1>6 DEF OnWorkerStarted, ArriveStart, OnWorkerStopped, ArriveStop
    <3>3. (startup' = startup - 1 \/ startup' = startup) /\ (shutdown' = shutdown - 1 \/ shutdown' = shutdown)
      BY <1>6 DEF OnWorkerStarted, ArriveStart, OnWorkerStopped, ArriveStop
    <3> QED
      BY <3>1, <3>2, <3>3
  <2>2. UNCHANGED <<mainVars, running, groupRunning, runningWorkers, activeGroups, last, stopVars, signals, hooks>>
    BY <1>6 DEF OnWorkerStarted, ArriveStart, OnWorkerStopped, ArriveStop
  <2> QED
    BY <1>1, <1>2, <2>1, <2>2 DEF Typed, mainVars, stopVars
<1>7. CASE StartAcceptors(w)
  <2>1. CASE UNCHANGED <<running, stopVars, hooks>>
    BY <1>1, <1>7, <2>1 DEF StartAcceptors, Typed, mainVars, counters, stopVars
  <2>2. CASE Begin(w, TRUE)
    BY <1>1, <1>3, <1>7, <2>2 DEF StartAcceptors, Typed, mainVars, counters, Groups, Services
  <2> QED
    BY <1>7, <2>1, <2>2 DEF StartAcceptors
<1>8. CASE SignalFailure(w)
  <2>1. Begin(w, TRUE)
    BY <1>8 DEF SignalFailure
  <2> QED
    BY SMTT(30), <1>1, <1>3, <1>8, <2>1 DEF SignalFailure, Typed, mainVars, counters, Groups, Services
<1>9. CASE OnWorkerGroupStarted(w)
  <2>1. hooks' \in Seq(HookNames)
    BY <1>9, CallAdds DEF OnWorkerGroupStarted, Typed, HookNames
  <2> QED
    BY <1>1, <1>2, <1>9, <2>1 DEF OnWorkerGroupStarted, Typed, mainVars, stopVars
<1>10. CASE OnWorkerGroupStopped(w)
  <2>1. hooks' \in Seq(HookNames) /\ running' \in BOOLEAN
    BY <1>10, StoppedAdds DEF OnWorkerGroupStopped, Typed
  <2> QED
    BY <1>1, <1>10, <2>1 DEF OnWorkerGroupStopped, Typed, mainVars, stopVars
<1> QED
  BY <1>4, <1>5, <1>6, <1>7, <1>8, <1>9, <1>10 DEF Step

(***************************************************************************)
(* Who was spawned.  No step but those of the workers changes more of them *)
(* than to spawn some.                                                     *)
(***************************************************************************)
Others == \/ Main \/ \E force \in BOOLEAN : SignalToStop(force)
          \/ StopService \/ StopGroup \/ \E s \in Services : OnServiceStopped(s)
          \/ UNCHANGED vars

Spawns ==
    /\ \A w \in Workers : pc'[w] = pc[w] \/ (pc[w] = "none" /\ pc'[w] = "spawned")
    /\ UNCHANGED <<faults, master, runningWorkers, activeGroups, totalRunning, startup, shutdown, ok, last>>

LEMMA NextCases == [Next]_vars <=> Others \/ \E w \in Workers : Step(w)
BY DEF Next, Others

LEMMA OthersSpawn ==
    ASSUME Typed, SpawnInv, Others
    PROVE  Spawns
<1>1. CASE StartGroup
  <2>1. \A w \in Workers : GroupOf[w] = started + 1 => pc[w] = "none"
    BY FiniteSets DEF Typed, SpawnInv, Groups
  <2> QED
    BY <1>1, <2>1 DEF StartGroup, Spawns, Typed, counters
<1>2. CASE RunMaster
  <2>1. \A w \in Workers : w = master => pc[w] = "none"
    BY <1>2, ServerAssumption DEF RunMaster, SpawnInv
  <2> QED
    BY <1>2, <2>1 DEF RunMaster, Spawns, Typed, counters
<1>3. CASE StartServer \/ JoinAllGroups \/ StopService \/ StopGroup \/ UNCHANGED vars
  BY <1>3 DEF StartServer, JoinAllGroups, StopService, StopGroup, vars, Spawns, mainVars, counters, workerVars
<1>4. CASE \E force \in BOOLEAN : SignalToStop(force)
  BY <1>4 DEF SignalToStop, Spawns, mainVars, counters, workerVars
<1>5. CASE \E s \in Services : OnServiceStopped(s)
  BY <1>5 DEF OnServiceStopped, Spawns, mainVars, counters, workerVars
<1> QED
  BY <1>1, <1>2, <1>3, <1>4, <1>5 DEF Others, Main

(* Where a step of a worker takes it: never back.                          *)
LEMMA StepMoves ==
    ASSUME Typed, NEW w \in Workers, Step(w)
    PROVE  /\ \A v \in Workers : v # w => pc'[v] = pc[v]
           /\ pc[w] # "none" /\ pc'[w] # "none"
           /\ pc'[w] = "dead" => "threadInit" \in faults
           /\ pc[w] \notin BeforeCount => pc'[w] \notin BeforeCount
           /\ UNCHANGED mainVars
<1>1. \A l : Goto(w, l) => pc'[w] = l /\ \A v \in Workers : v # w => pc'[v] = pc[v]
  BY DEF Goto, Typed
<1>2. UNCHANGED mainVars
  BY DEF Step, Begins, IncrementRunning, OnWorkerStarted, StartHandler, StartAcceptors,
         OnWorkerGroupStarted, ArriveStart, WaitStart, LeaveLoop, SignalFailure, DecrementRunning,
         OnWorkerStopped, StopHandler, ArriveStop, WaitStop, OnWorkerGroupStopped
<1>3. \/ pc[w] = "spawned" /\ Goto(w, "increment")
      \/ pc[w] = "spawned" /\ "threadInit" \in faults /\ Goto(w, "dead")
      \/ pc[w] \notin {"none", "spawned", "dead"}
         /\ \E l \in Labels \ {"none", "spawned", "increment", "dead"} : Goto(w, l)
  BY DEF Step, Begins, IncrementRunning, OnWorkerStarted, StartHandler, StartAcceptors,
              OnWorkerGroupStarted, ArriveStart, WaitStart, LeaveLoop, SignalFailure, DecrementRunning,
              OnWorkerStopped, StopHandler, ArriveStop, WaitStop, OnWorkerGroupStopped, At,
         Labels, Up, Ending, BeforeCount, Starting, Running, Stopping, Stopped
<1> QED
  BY <1>1, <1>2, <1>3 DEF BeforeCount

LEMMA SpawnInit == Init => SpawnInv
BY ServerAssumption DEF Init, SpawnInv, Groups

LEMMA SpawnStep ==
    ASSUME Typed, SpawnInv, [Next]_vars
    PROVE  SpawnInv'
<1>0. master \in Workers \cup {None} /\ \A w \in Workers : GroupOf[w] \in Nat
  <2>1. master \in Workers \cup {None}
    BY ServerAssumption DEF Typed
  <2> QED
    BY <2>1, FiniteSets DEF Groups
<1>1. CASE StartGroup
  BY <1>1, <1>0, FiniteSets DEF StartGroup, SpawnInv, Typed, Groups
<1>2. CASE RunMaster
  BY <1>2, <1>0, FiniteSets DEF RunMaster, SpawnInv, Typed, Groups
<1>3. CASE StartServer \/ JoinAllGroups \/ StopService \/ StopGroup \/ UNCHANGED vars
  BY <1>3, <1>0 DEF StartServer, JoinAllGroups, StopService, StopGroup, vars, SpawnInv, mainVars, workerVars
<1>4. CASE \E force \in BOOLEAN : SignalToStop(force)
  BY <1>4, <1>0 DEF SignalToStop, SpawnInv, mainVars, workerVars
<1>5. CASE \E s \in Services : OnServiceStopped(s)
  BY <1>5, <1>0 DEF OnServiceStopped, SpawnInv, mainVars, workerVars
<1>6. ASSUME NEW w \in Workers, Step(w)
      PROVE  SpawnInv'
  BY <1>6, <1>0, StepMoves DEF SpawnInv, mainVars
<1> QED
  BY <1>1, <1>2, <1>3, <1>4, <1>5, <1>6 DEF Next, Main

(***************************************************************************)
(* What the counters count.                                                *)
(***************************************************************************)
(* What a worker's move from a to b adds to a count of those in P.         *)
Diff(P, a, b) == (IF b \in P THEN 1 ELSE 0) - (IF a \in P THEN 1 ELSE 0)

Recounted(w, a, b) ==
    /\ \A g \in Groups : CountIn(Members(g), pc', Up) =
          CountIn(Members(g), pc, Up) + IF g = GroupOf[w] THEN Diff(Up, a, b) ELSE 0
    /\ CountIn(Workers, pc', BeforeCount \cup Starting) =
          CountIn(Workers, pc, BeforeCount \cup Starting) + Diff(BeforeCount \cup Starting, a, b)
    /\ CountIn(Workers, pc', Labels \ Stopped) =
          CountIn(Workers, pc, Labels \ Stopped) + Diff(Labels \ Stopped, a, b)
    /\ CountIn(Workers, pc', Totalled) = CountIn(Workers, pc, Totalled) + Diff(Totalled, a, b)
    /\ CountIn(Workers, pc', Untotalled) = CountIn(Workers, pc, Untotalled) + Diff(Untotalled, a, b)

CountsAreInts ==
    /\ \A g \in Groups : CountIn(Members(g), pc, Up) \in Int
    /\ CountIn(Workers, pc, BeforeCount \cup Starting) \in Int
    /\ CountIn(Workers, pc, Labels \ Stopped) \in Int
    /\ CountIn(Workers, pc, Totalled) \in Int
    /\ CountIn(Workers, pc, Untotalled) \in Int

LEMMA CountTypes == CountsAreInts
<1>1. \A S, P : IsFiniteSet(S) => CountIn(S, pc, P) \in Int
  <2> TAKE S, P
  <2> HAVE IsFiniteSet(S)
  <2>1. Cardinality(S) \in Nat /\ CountIn(S, pc, P) \in 0 .. Cardinality(S)
    BY CountType, FS_CardinalityType
  <2> QED
    BY <2>1
<1> QED
  BY <1>1, FiniteSets DEF CountsAreInts

LEMMA Recount ==
    ASSUME Typed, NEW w \in Workers, NEW l, Goto(w, l)
    PROVE  Recounted(w, pc[w], l)
<1>1. pc'[w] = l /\ \A v \in Workers : v # w => pc'[v] = pc[v]
  BY DEF Goto, Typed
<1>2. \A S, P : IsFiniteSet(S) /\ S \subseteq Workers /\ w \in S =>
         CountIn(S, pc', P) = CountIn(S, pc, P) + Diff(P, pc[w], l)
  <2> TAKE S, P
  <2> HAVE IsFiniteSet(S) /\ S \subseteq Workers /\ w \in S
  <2>1. Cardinality(S) \in Nat /\ CountIn(S, pc, P) \in 0 .. Cardinality(S)
    BY CountType, FS_CardinalityType
  <2>2. /\ (pc[w] \in P <=> pc'[w] \in P) => CountIn(S, pc', P) = CountIn(S, pc, P)
        /\ pc[w] \in P /\ pc'[w] \notin P => CountIn(S, pc', P) = CountIn(S, pc, P) - 1
        /\ pc[w] \notin P /\ pc'[w] \in P => CountIn(S, pc', P) = CountIn(S, pc, P) + 1
    BY <1>1, CountMoves
  <2> QED
    BY <1>1, <2>1, <2>2 DEF Diff
<1>3. ASSUME NEW g \in Groups, g # GroupOf[w]
      PROVE  CountIn(Members(g), pc', Up) = CountIn(Members(g), pc, Up)
  <2>1. \A v \in Members(g) : pc[v] \in Up <=> pc'[v] \in Up
    BY <1>1, <1>3 DEF Members
  <2> QED
    BY <2>1, CountSame
<1> QED
  BY <1>2, <1>3, FiniteSets, CountTypes DEF Recounted, CountsAreInts

LEMMA CountInit == Init => CountInv
<1> SUFFICES ASSUME Init PROVE CountInv
  OBVIOUS
<1>1. \A w \in Workers : pc[w] = "none"
  BY DEF Init
<1>2. \A g \in Groups : CountIn(Members(g), pc, Up) = 0
  <2> TAKE g \in Groups
  <2>1. \A v \in Members(g) : pc[v] \notin Up
    BY <1>1, FiniteSets DEF Up, Starting, Running
  <2> QED
    BY <2>1, CountType, FiniteSets
<1>3. CountIn(Workers, pc, BeforeCount \cup Starting) = Cardinality(Workers)
  BY <1>1, CountType, FiniteSets DEF BeforeCount
<1>4. CountIn(Workers, pc, Labels \ Stopped) = Cardinality(Workers)
  BY <1>1, CountType, FiniteSets DEF BeforeCount, Stopped, Labels
<1>5. CountIn(Workers, pc, Totalled) = 0
  BY <1>1, CountType, FiniteSets DEF Totalled, Starting, Running
<1>6. CountIn(Workers, pc, Untotalled) = 0
  BY <1>1, CountType, FiniteSets DEF Untotalled, Stopped
<1> QED
  BY <1>2, <1>3, <1>4, <1>5, <1>6, FiniteSets DEF Init, CountInv

LEMMA CountOthers ==
    ASSUME CountInv, Spawns
    PROVE  CountInv'
<1>1. \A w \in Workers : pc'[w] = pc[w] \/ (pc[w] = "none" /\ pc'[w] = "spawned")
  BY DEF Spawns
<1>2. \A g \in Groups : CountIn(Members(g), pc', Up) = CountIn(Members(g), pc, Up)
  <2> TAKE g \in Groups
  <2>1. \A v \in Members(g) : pc[v] \in Up <=> pc'[v] \in Up
    BY <1>1, FiniteSets DEF Up, Starting, Running
  <2> QED
    BY <2>1, CountSame
<1>3. CountIn(Workers, pc', BeforeCount \cup Starting) = CountIn(Workers, pc, BeforeCount \cup Starting)
  BY <1>1, CountSame DEF BeforeCount
<1>4. CountIn(Workers, pc', Labels \ Stopped) = CountIn(Workers, pc, Labels \ Stopped)
  <2>1. \A v \in Workers : pc[v] \in Labels \ Stopped <=> pc'[v] \in Labels \ Stopped
    BY <1>1 DEF Labels, BeforeCount, Stopped
  <2> QED
    BY <2>1, CountSame
<1>5. CountIn(Workers, pc', Totalled) = CountIn(Workers, pc, Totalled)
  <2>1. \A v \in Workers : pc[v] \in Totalled <=> pc'[v] \in Totalled
    BY <1>1 DEF Totalled, Starting, Running
  <2> QED
    BY <2>1, CountSame
<1>6. CountIn(Workers, pc', Untotalled) = CountIn(Workers, pc, Untotalled)
  <2>1. \A v \in Workers : pc[v] \in Untotalled <=> pc'[v] \in Untotalled
    BY <1>1 DEF Untotalled, Stopped
  <2> QED
    BY <2>1, CountSame
<1> QED
  BY <1>2, <1>3, <1>4, <1>5, <1>6 DEF Spawns, CountInv

(* By how much a move from a to b changes each of the counts.              *)
Differs(a, b, up, counted, latched, total, untotalled) ==
    /\ Diff(Up, a, b) = up
    /\ Diff(BeforeCount \cup Starting, a, b) = counted
    /\ Diff(Labels \ Stopped, a, b) = latched
    /\ Diff(Totalled, a, b) = total
    /\ Diff(Untotalled, a, b) = untotalled

(* The counters follow a move of worker w from a to b.                     *)
Follows(w, a, b) ==
    /\ faults' = faults
    /\ \A g \in Groups :
          runningWorkers'[g] = runningWorkers[g] + IF g = GroupOf[w] THEN Diff(Up, a, b) ELSE 0
    /\ startup' = startup + Diff(BeforeCount \cup Starting, a, b)
    /\ shutdown' \in Int /\ shutdown' <= shutdown
    /\ shutdown' >= shutdown + Diff(Labels \ Stopped, a, b)
    /\ "stopHandler" \notin faults => shutdown' = shutdown + Diff(Labels \ Stopped, a, b)
    /\ totalRunning' \in Int
    /\ totalRunning' <= totalRunning + Diff(Totalled, a, b)
    /\ -totalRunning' <= -totalRunning + Diff(Untotalled, a, b)
    /\ "workerStart" \notin faults => totalRunning' = totalRunning + Diff(Totalled, a, b)

LEMMA CountFollows ==
    ASSUME Typed, CountInv, NEW w \in Workers, NEW b, Goto(w, b), Follows(w, pc[w], b)
    PROVE  CountInv'
<1> DEFINE up == Diff(Up, pc[w], b)
           counted == Diff(BeforeCount \cup Starting, pc[w], b)
           latched == Diff(Labels \ Stopped, pc[w], b)
           total == Diff(Totalled, pc[w], b)
           untotalled == Diff(Untotalled, pc[w], b)
<1>0. /\ up \in Int /\ counted \in Int /\ latched \in Int /\ total \in Int /\ untotalled \in Int
      /\ faults' = faults
      /\ \A g \in Groups : runningWorkers'[g] = runningWorkers[g] + IF g = GroupOf[w] THEN up ELSE 0
      /\ startup' = startup + counted
      /\ shutdown' \in Int /\ shutdown' <= shutdown /\ shutdown' >= shutdown + latched
      /\ "stopHandler" \notin faults => shutdown' = shutdown + latched
      /\ totalRunning' \in Int /\ totalRunning' <= totalRunning + total
      /\ -totalRunning' <= -totalRunning + untotalled
      /\ "workerStart" \notin faults => totalRunning' = totalRunning + total
  BY DEF Follows, Diff
<1> USE CountTypes, FiniteSets DEF CountsAreInts
<1>1. /\ \A g \in Groups : CountIn(Members(g), pc', Up)
            = CountIn(Members(g), pc, Up) + IF g = GroupOf[w] THEN up ELSE 0
      /\ CountIn(Workers, pc', BeforeCount \cup Starting)
            = CountIn(Workers, pc, BeforeCount \cup Starting) + counted
      /\ CountIn(Workers, pc', Labels \ Stopped) = CountIn(Workers, pc, Labels \ Stopped) + latched
      /\ CountIn(Workers, pc', Totalled) = CountIn(Workers, pc, Totalled) + total
      /\ CountIn(Workers, pc', Untotalled) = CountIn(Workers, pc, Untotalled) + untotalled
  BY Recount DEF Recounted
<1> HIDE DEF up, counted, latched, total, untotalled
<1>2. /\ startup \in Int /\ shutdown \in Int /\ totalRunning \in Int
      /\ \A g \in Groups : runningWorkers[g] \in Int
  BY DEF Typed
<1>3. \A g \in Groups : runningWorkers'[g] = CountIn(Members(g), pc', Up)
  BY <1>0, <1>1, <1>2 DEF CountInv
<1>4. startup' = CountIn(Workers, pc', BeforeCount \cup Starting)
  BY <1>0, <1>1, <1>2 DEF CountInv
<1>5. /\ shutdown' <= Cardinality(Workers)
      /\ shutdown' >= CountIn(Workers, pc', Labels \ Stopped)
      /\ "stopHandler" \notin faults' => shutdown' = CountIn(Workers, pc', Labels \ Stopped)
  <2>1. Cardinality(Workers) \in Int
    BY FS_CardinalityType
  <2> QED
    BY <1>0, <1>1, <1>2, <2>1 DEF CountInv
<1>6. /\ totalRunning' <= CountIn(Workers, pc', Totalled)
      /\ "workerStart" \notin faults' => totalRunning' = CountIn(Workers, pc', Totalled)
  BY <1>0, <1>1, <1>2 DEF CountInv
<1>7. -totalRunning' <= CountIn(Workers, pc', Untotalled)
  <2>1. -totalRunning <= CountIn(Workers, pc, Untotalled)
    BY DEF CountInv
  <2>2. -totalRunning \in Int /\ -totalRunning' \in Int
    BY <1>0, <1>2
  <2> QED
    BY <1>0, <1>1, <2>1, <2>2
<1> QED
  BY <1>3, <1>4, <1>5, <1>6, <1>7 DEF CountInv

(* Most moves change none of them.                                         *)
LEMMA CountStays ==
    ASSUME Typed, CountInv, NEW w \in Workers, NEW b, Goto(w, b), Differs(pc[w], b, 0, 0, 0, 0, 0),
           UNCHANGED <<faults, runningWorkers, startup, shutdown, totalRunning>>
    PROVE  CountInv'
<1>1. /\ startup \in Int /\ shutdown \in Int /\ totalRunning \in Int
      /\ \A g \in Groups : runningWorkers[g] \in Int
  BY DEF Typed
<1>2. Follows(w, pc[w], b)
  BY <1>1 DEF Follows, Differs
<1> QED
  BY <1>2, CountFollows

LEMMA CountStep ==
    ASSUME Typed, CountInv, NEW w \in Workers, Step(w)
    PROVE  CountInv'
<1>1. /\ startup \in Int /\ shutdown \in Int /\ totalRunning \in Int
      /\ runningWorkers \in [Groups -> Int] /\ GroupOf[w] \in Groups
  BY FiniteSets DEF Typed
<1>2. CASE Begins(w)
  <2>1. \A b \in {"increment", "dead"} : Differs("spawned", b, 0, 0, 0, 0, 0)
    BY DEF Differs, Diff, Up, Totalled, Untotalled, Labels, BeforeCount,
       Starting, Running, Ending, Stopping, Stopped
  <2>2. /\ pc[w] = "spawned" /\ UNCHANGED <<faults, runningWorkers, startup, shutdown, totalRunning>>
        /\ \E b \in {"increment", "dead"} : Goto(w, b)
    BY <1>2 DEF Begins, At, mainVars, counters
  <2> QED
    BY <2>1, <2>2, CountStays
<1>3. CASE IncrementRunning(w)
  <2>1. Differs("increment", "started", 1, 0, 0, 0, 0)
    BY DEF Differs, Diff, Up, Totalled, Untotalled, Labels, BeforeCount,
       Starting, Running, Ending, Stopping, Stopped
  <2>2. /\ pc[w] = "increment" /\ Goto(w, "started")
        /\ runningWorkers' = [runningWorkers EXCEPT ![GroupOf[w]] = @ + 1]
        /\ UNCHANGED <<faults, startup, shutdown, totalRunning>>
    BY <1>3 DEF IncrementRunning, At, mainVars, counters
  <2>3. \A g \in Groups : runningWorkers'[g] = runningWorkers[g] + IF g = GroupOf[w] THEN 1 ELSE 0
    BY <1>1, <2>2
  <2>4. /\ startup' = startup + 0 /\ shutdown' \in Int /\ shutdown' <= shutdown
        /\ shutdown' = shutdown + 0 /\ shutdown' >= shutdown + 0
        /\ totalRunning' \in Int /\ totalRunning' = totalRunning + 0
        /\ totalRunning' <= totalRunning + 0 /\ -totalRunning' <= -totalRunning + 0
    BY <1>1, <2>2
  <2>5. Follows(w, pc[w], "started")
    BY <2>1, <2>2, <2>3, <2>4 DEF Follows, Differs
  <2> QED
    BY <2>2, <2>5, CountFollows
<1>4. CASE OnWorkerStarted(w)
  <2>1. \A b \in {"startHandler", "arriveStart"} : Differs("started", b, 0, 0, 0, 1, 0)
    BY DEF Differs, Diff, Up, Totalled, Untotalled, Labels, BeforeCount,
       Starting, Running, Ending, Stopping, Stopped
  <2>2. pc[w] = "started" /\ UNCHANGED <<faults, runningWorkers, startup, shutdown>>
    BY <1>4 DEF OnWorkerStarted, At, mainVars, counters
  <2>3. CASE Goto(w, "startHandler") /\ totalRunning' = totalRunning + 1
    <3>1. /\ \A g \in Groups : runningWorkers'[g] = runningWorkers[g] + IF g = GroupOf[w] THEN 0 ELSE 0
          /\ startup' = startup + 0 /\ shutdown' \in Int /\ shutdown' <= shutdown
          /\ shutdown' = shutdown + 0 /\ shutdown' >= shutdown + 0
      BY <1>1, <2>2
    <3>2. totalRunning' \in Int /\ totalRunning' <= totalRunning + 1 /\ -totalRunning' <= -totalRunning + 0
      BY <1>1, <2>3
    <3>3. Follows(w, pc[w], "startHandler")
      BY <1>1, <2>1, <2>2, <2>3, <3>1, <3>2 DEF Follows, Differs
    <3> QED
      BY <2>3, <3>3, CountFollows
  <2>4. CASE Goto(w, "arriveStart") /\ "workerStart" \in faults /\ UNCHANGED totalRunning
    <3>1. /\ \A g \in Groups : runningWorkers'[g] = runningWorkers[g] + IF g = GroupOf[w] THEN 0 ELSE 0
          /\ startup' = startup + 0 /\ shutdown' \in Int /\ shutdown' <= shutdown
          /\ shutdown' = shutdown + 0 /\ shutdown' >= shutdown + 0
      BY <1>1, <2>2
    <3>2. totalRunning' \in Int /\ totalRunning' <= totalRunning + 1 /\ -totalRunning' <= -totalRunning + 0
      BY <1>1, <2>4
    <3>3. Follows(w, pc[w], "arriveStart")
      BY <1>1, <2>1, <2>2, <2>4, <3>1, <3>2 DEF Follows, Differs
    <3> QED
      BY <2>4, <3>3, CountFollows
  <2> QED
    BY <1>4, <2>3, <2>4 DEF OnWorkerStarted
<1>5. CASE StartHandler(w)
  <2>1. \A b \in {"acceptors", "arriveStart"} : Differs("startHandler", b, 0, 0, 0, 0, 0)
    BY DEF Differs, Diff, Up, Totalled, Untotalled, Labels, BeforeCount,
       Starting, Running, Ending, Stopping, Stopped
  <2>2. /\ pc[w] = "startHandler" /\ UNCHANGED <<faults, runningWorkers, startup, shutdown, totalRunning>>
        /\ \E b \in {"acceptors", "arriveStart"} : Goto(w, b)
    BY <1>5 DEF StartHandler, At, mainVars, counters
  <2> QED
    BY <2>1, <2>2, CountStays
<1>6. CASE StartAcceptors(w)
  <2>1. \A b \in {"groupStarted"} : Differs("acceptors", b, 0, 0, 0, 0, 0)
    BY DEF Differs, Diff, Up, Totalled, Untotalled, Labels, BeforeCount,
       Starting, Running, Ending, Stopping, Stopped
  <2>2. /\ pc[w] = "acceptors" /\ UNCHANGED <<faults, runningWorkers, startup, shutdown, totalRunning>>
        /\ \E b \in {"groupStarted"} : Goto(w, b)
    BY <1>6 DEF StartAcceptors, At, mainVars, counters
  <2> QED
    BY <2>1, <2>2, CountStays
<1>7. CASE OnWorkerGroupStarted(w)
  <2>1. \A b \in {"arriveStart"} : Differs("groupStarted", b, 0, 0, 0, 0, 0)
    BY DEF Differs, Diff, Up, Totalled, Untotalled, Labels, BeforeCount,
       Starting, Running, Ending, Stopping, Stopped
  <2>2. /\ pc[w] = "groupStarted" /\ UNCHANGED <<faults, runningWorkers, startup, shutdown, totalRunning>>
        /\ \E b \in {"arriveStart"} : Goto(w, b)
    BY <1>7 DEF OnWorkerGroupStarted, At, mainVars, counters
  <2> QED
    BY <2>1, <2>2, CountStays
<1>8. CASE ArriveStart(w)
  <2>1. Differs("arriveStart", "waitStart", 0, -1, 0, 0, 0)
    BY DEF Differs, Diff, Up, Totalled, Untotalled, Labels, BeforeCount,
       Starting, Running, Ending, Stopping, Stopped
  <2>2. pc[w] = "arriveStart" /\ Goto(w, "waitStart") /\ startup' = startup - 1 /\ UNCHANGED <<faults, runningWorkers, shutdown, totalRunning>>
    BY <1>8 DEF ArriveStart, At, mainVars, counters
  <2>3. /\ startup' = startup + (-1) /\ shutdown' \in Int /\ shutdown' <= shutdown
        /\ shutdown' = shutdown + 0 /\ shutdown' >= shutdown + 0
        /\ totalRunning' \in Int /\ totalRunning' = totalRunning + 0
        /\ totalRunning' <= totalRunning + 0 /\ -totalRunning' <= -totalRunning + 0
    BY <1>1, <2>2
  <2>4. \A g \in Groups : runningWorkers'[g] = runningWorkers[g] + IF g = GroupOf[w] THEN 0 ELSE 0
    BY <1>1, <2>2
  <2>5. Follows(w, pc[w], "waitStart")
    BY <2>1, <2>2, <2>3, <2>4 DEF Follows, Differs
  <2> QED
    BY <2>2, <2>5, CountFollows
<1>9. CASE WaitStart(w)
  <2>1. \A b \in {"run", "signal"} : Differs("waitStart", b, 0, 0, 0, 0, 0)
    BY DEF Differs, Diff, Up, Totalled, Untotalled, Labels, BeforeCount,
       Starting, Running, Ending, Stopping, Stopped
  <2>2. /\ pc[w] = "waitStart" /\ UNCHANGED <<faults, runningWorkers, startup, shutdown, totalRunning>>
        /\ \E b \in {"run", "signal"} : Goto(w, b)
    BY <1>9 DEF WaitStart, At, mainVars, counters
  <2> QED
    BY <2>1, <2>2, CountStays
<1>10. CASE LeaveLoop(w)
  <2>1. \A b \in {"decrement"} : Differs("run", b, 0, 0, 0, 0, 0)
    BY DEF Differs, Diff, Up, Totalled, Untotalled, Labels, BeforeCount,
       Starting, Running, Ending, Stopping, Stopped
  <2>2. /\ pc[w] = "run" /\ UNCHANGED <<faults, runningWorkers, startup, shutdown, totalRunning>>
        /\ \E b \in {"decrement"} : Goto(w, b)
    BY <1>10 DEF LeaveLoop, At, mainVars, counters
  <2> QED
    BY <2>1, <2>2, CountStays
<1>11. CASE SignalFailure(w)
  <2>1. \A b \in {"decrement"} : Differs("signal", b, 0, 0, 0, 0, 0)
    BY DEF Differs, Diff, Up, Totalled, Untotalled, Labels, BeforeCount,
       Starting, Running, Ending, Stopping, Stopped
  <2>2. /\ pc[w] = "signal" /\ UNCHANGED <<faults, runningWorkers, startup, shutdown, totalRunning>>
        /\ \E b \in {"decrement"} : Goto(w, b)
    BY <1>11 DEF SignalFailure, At, mainVars, counters
  <2> QED
    BY <2>1, <2>2, CountStays
<1>12. CASE DecrementRunning(w)
  <2>1. Differs("decrement", "stopped", -1, 0, 0, 0, 0)
    BY DEF Differs, Diff, Up, Totalled, Untotalled, Labels, BeforeCount,
       Starting, Running, Ending, Stopping, Stopped
  <2>2. /\ pc[w] = "decrement" /\ Goto(w, "stopped")
        /\ runningWorkers' = [runningWorkers EXCEPT ![GroupOf[w]] = @ - 1]
        /\ UNCHANGED <<faults, startup, shutdown, totalRunning>>
    BY <1>12 DEF DecrementRunning, At, mainVars, counters
  <2>3. \A g \in Groups : runningWorkers'[g] = runningWorkers[g] + IF g = GroupOf[w] THEN -1 ELSE 0
    BY <1>1, <2>2
  <2>4. /\ startup' = startup + 0 /\ shutdown' \in Int /\ shutdown' <= shutdown
        /\ shutdown' = shutdown + 0 /\ shutdown' >= shutdown + 0
        /\ totalRunning' \in Int /\ totalRunning' = totalRunning + 0
        /\ totalRunning' <= totalRunning + 0 /\ -totalRunning' <= -totalRunning + 0
    BY <1>1, <2>2
  <2>5. Follows(w, pc[w], "stopped")
    BY <2>1, <2>2, <2>3, <2>4 DEF Follows, Differs
  <2> QED
    BY <2>2, <2>5, CountFollows
<1>13. CASE OnWorkerStopped(w)
  <2>1. Differs("stopped", "stopHandler", 0, 0, 0, -1, 1)
    BY DEF Differs, Diff, Up, Totalled, Untotalled, Labels, BeforeCount,
       Starting, Running, Ending, Stopping, Stopped
  <2>2. pc[w] = "stopped" /\ Goto(w, "stopHandler") /\ totalRunning' = totalRunning - 1 /\ UNCHANGED <<faults, runningWorkers, startup, shutdown>>
    BY <1>13 DEF OnWorkerStopped, At, mainVars, counters
  <2>3. /\ startup' = startup + 0 /\ shutdown' \in Int /\ shutdown' <= shutdown
        /\ shutdown' = shutdown + 0 /\ shutdown' >= shutdown + 0
        /\ totalRunning' \in Int /\ totalRunning' = totalRunning + (-1)
        /\ totalRunning' <= totalRunning + (-1) /\ -totalRunning' <= -totalRunning + 1
    BY <1>1, <2>2
  <2>4. \A g \in Groups : runningWorkers'[g] = runningWorkers[g] + IF g = GroupOf[w] THEN 0 ELSE 0
    BY <1>1, <2>2
  <2>5. Follows(w, pc[w], "stopHandler")
    BY <2>1, <2>2, <2>3, <2>4 DEF Follows, Differs
  <2> QED
    BY <2>2, <2>5, CountFollows
<1>14. CASE StopHandler(w)
  <2>1. /\ Differs("stopHandler", "arriveStop", 0, 0, 0, 0, 0)
        /\ Differs("stopHandler", "gone", 0, 0, -1, 0, 0)
    BY DEF Differs, Diff, Up, Totalled, Untotalled, Labels, BeforeCount,
       Starting, Running, Ending, Stopping, Stopped
  <2>2. /\ pc[w] = "stopHandler"
        /\ UNCHANGED <<faults, runningWorkers, startup, shutdown, totalRunning>>
    BY <1>14 DEF StopHandler, At, mainVars, counters
  <2>3. CASE Goto(w, "arriveStop")
    BY <2>1, <2>2, <2>3, CountStays
  <2>4. CASE Goto(w, "gone") /\ "stopHandler" \in faults
    <3>1. Follows(w, pc[w], "gone")
      BY <1>1, <2>1, <2>2, <2>4 DEF Follows, Differs
    <3> QED
      BY <2>4, <3>1, CountFollows
  <2> QED
    BY <1>14, <2>3, <2>4 DEF StopHandler
<1>15. CASE ArriveStop(w)
  <2>1. Differs("arriveStop", "waitStop", 0, 0, -1, 0, 0)
    BY DEF Differs, Diff, Up, Totalled, Untotalled, Labels, BeforeCount,
       Starting, Running, Ending, Stopping, Stopped
  <2>2. pc[w] = "arriveStop" /\ Goto(w, "waitStop") /\ shutdown' = shutdown - 1 /\ UNCHANGED <<faults, runningWorkers, startup, totalRunning>>
    BY <1>15 DEF ArriveStop, At, mainVars, counters
  <2>3. /\ startup' = startup + 0 /\ shutdown' \in Int /\ shutdown' <= shutdown
        /\ shutdown' = shutdown + (-1) /\ shutdown' >= shutdown + (-1)
        /\ totalRunning' \in Int /\ totalRunning' = totalRunning + 0
        /\ totalRunning' <= totalRunning + 0 /\ -totalRunning' <= -totalRunning + 0
    BY <1>1, <2>2
  <2>4. \A g \in Groups : runningWorkers'[g] = runningWorkers[g] + IF g = GroupOf[w] THEN 0 ELSE 0
    BY <1>1, <2>2
  <2>5. Follows(w, pc[w], "waitStop")
    BY <2>1, <2>2, <2>3, <2>4 DEF Follows, Differs
  <2> QED
    BY <2>2, <2>5, CountFollows
<1>16. CASE WaitStop(w)
  <2>1. \A b \in {"groupStopped", "gone"} : Differs("waitStop", b, 0, 0, 0, 0, 0)
    BY DEF Differs, Diff, Up, Totalled, Untotalled, Labels, BeforeCount,
       Starting, Running, Ending, Stopping, Stopped
  <2>2. /\ pc[w] = "waitStop" /\ UNCHANGED <<faults, runningWorkers, startup, shutdown, totalRunning>>
        /\ \E b \in {"groupStopped", "gone"} : Goto(w, b)
    BY <1>16 DEF WaitStop, At, mainVars, counters
  <2> QED
    BY <2>1, <2>2, CountStays
<1>17. CASE OnWorkerGroupStopped(w)
  <2>1. \A b \in {"gone"} : Differs("groupStopped", b, 0, 0, 0, 0, 0)
    BY DEF Differs, Diff, Up, Totalled, Untotalled, Labels, BeforeCount,
       Starting, Running, Ending, Stopping, Stopped
  <2>2. /\ pc[w] = "groupStopped" /\ UNCHANGED <<faults, runningWorkers, startup, shutdown, totalRunning>>
        /\ \E b \in {"gone"} : Goto(w, b)
    BY <1>17 DEF OnWorkerGroupStopped, At, mainVars, counters
  <2> QED
    BY <2>1, <2>2, CountStays
<1> QED
  BY <1>2, <1>3, <1>4, <1>5, <1>6, <1>7, <1>8, <1>9, <1>10, <1>11, <1>12, <1>13, <1>14, <1>15, <1>16,
     <1>17 DEF Step

(***************************************************************************)
(* The latches.                                                            *)
(***************************************************************************)
LEMMA StartupZero ==
    ASSUME CountInv
    PROVE  /\ startup \in 0 .. Cardinality(Workers)
           /\ startup = 0 <=> \A w \in Workers : pc[w] \notin BeforeCount \cup Starting
BY CountType, FiniteSets DEF CountInv

LEMMA ShutdownZero ==
    ASSUME Typed, CountInv
    PROVE  /\ shutdown \in 0 .. Cardinality(Workers)
           /\ shutdown = 0 => \A w \in Workers : pc[w] \in Stopped
           /\ "stopHandler" \notin faults /\ (\A w \in Workers : pc[w] \in Stopped) => shutdown = 0
<1>1. /\ CountIn(Workers, pc, Labels \ Stopped) \in 0 .. Cardinality(Workers)
      /\ CountIn(Workers, pc, Labels \ Stopped) = 0 <=> \A w \in Workers : pc[w] \notin Labels \ Stopped
  BY CountType, FiniteSets
<1>2. \A w \in Workers : pc[w] \in Labels
  BY DEF Typed
<1>3. shutdown \in Int
  BY DEF Typed
<1>4. shutdown <= Cardinality(Workers) /\ shutdown >= CountIn(Workers, pc, Labels \ Stopped)
      /\ ("stopHandler" \notin faults => shutdown = CountIn(Workers, pc, Labels \ Stopped))
  BY DEF CountInv
<1> QED
  BY <1>1, <1>2, <1>3, <1>4, FiniteSets

(* Where a worker can go, by the classes of its labels.                    *)
LEMMA StepClasses ==
    ASSUME Typed, CountInv, NEW w \in Workers, Step(w)
    PROVE  /\ pc[w] \notin BeforeCount \cup Starting => pc'[w] \notin BeforeCount \cup Starting
           /\ pc'[w] \in (Running \ {"waitStart"}) \cup Ending =>
                 \/ pc[w] \in (Running \ {"waitStart"}) \cup Ending
                 \/ startup = 0
           /\ pc[w] \in Stopped => pc'[w] \in Stopped
           /\ pc'[w] \in {"groupStopped", "gone"} =>
                 \/ shutdown = 0
                 \/ pc[w] = "groupStopped"
                 \/ pc'[w] = "gone" /\ "stopHandler" \in faults
<1>1. \A l : Goto(w, l) => pc'[w] = l
  BY DEF Goto, Typed
<1>2. CASE Begins(w) \/ IncrementRunning(w) \/ OnWorkerStarted(w) \/ StartHandler(w) \/ StartAcceptors(w)
           \/ OnWorkerGroupStarted(w) \/ ArriveStart(w)
  BY <1>1, <1>2 DEF Begins, IncrementRunning, OnWorkerStarted, StartHandler, StartAcceptors,
              OnWorkerGroupStarted, ArriveStart, At,
              Up, Ending, BeforeCount, Starting, Running, Stopping, Stopped
<1>3. CASE WaitStart(w) \/ LeaveLoop(w) \/ SignalFailure(w) \/ DecrementRunning(w) \/ OnWorkerStopped(w)
           \/ StopHandler(w) \/ ArriveStop(w) \/ WaitStop(w) \/ OnWorkerGroupStopped(w)
  BY <1>1, <1>3 DEF WaitStart, LeaveLoop, SignalFailure, DecrementRunning,
              OnWorkerStopped, StopHandler, ArriveStop, WaitStop, OnWorkerGroupStopped, At,
              Up, Ending, BeforeCount, Starting, Running, Stopping, Stopped
<1> QED
  BY <1>2, <1>3 DEF Step

LEMMA LatchInit == Init => LatchInv
BY DEF Init, LatchInv, StartBarrier, Running, Stopping, Stopped

LEMMA LatchOthers ==
    ASSUME LatchInv, Spawns
    PROVE  LatchInv'
<1>1. \A w \in Workers : pc'[w] = pc[w] \/ (pc[w] = "none" /\ pc'[w] = "spawned")
  BY DEF Spawns
<1>2. StartBarrier'
  BY <1>1 DEF LatchInv, StartBarrier, BeforeCount, Starting, Running, Stopping, Stopped
<1>3. \A w \in Workers : pc'[w] = "groupStopped" \/ (pc'[w] = "gone" /\ "stopHandler" \notin faults)
          => \A v \in Workers : pc'[v] \in Stopped
  BY <1>1 DEF LatchInv, Stopped
<1> QED
  BY <1>2, <1>3 DEF LatchInv, Spawns

LEMMA LatchStep ==
    ASSUME Typed, CountInv, LatchInv, NEW w \in Workers, Step(w)
    PROVE  LatchInv'
<1>1. /\ \A v \in Workers : v # w => pc'[v] = pc[v]
      /\ faults' = faults
  BY StepMoves DEF mainVars
<1>2. StartBarrier'
  <2> SUFFICES ASSUME NEW v \in Workers, pc'[v] \in (Running \ {"waitStart"}) \cup Stopping \cup Stopped
               PROVE  \A u \in Workers : pc'[u] \notin BeforeCount \cup Starting
    BY DEF StartBarrier
  <2>1. \A u \in Workers : pc[u] \notin BeforeCount \cup Starting
    <3>1. CASE startup = 0
      BY <3>1, StartupZero
    <3>2. CASE startup # 0
      <4>1. pc[v] \in (Running \ {"waitStart"}) \cup Stopping \cup Stopped
        BY <1>1, <3>2, StepClasses DEF Ending
      <4> QED
        BY <4>1 DEF LatchInv, StartBarrier
    <3> QED
      BY <3>1, <3>2
  <2> QED
    BY <1>1, <2>1, StepClasses
<1>3. ASSUME NEW v \in Workers, pc'[v] = "groupStopped" \/ (pc'[v] = "gone" /\ "stopHandler" \notin faults)
      PROVE  \A u \in Workers : pc'[u] \in Stopped
  <2>1. \A u \in Workers : pc[u] \in Stopped
    <3>1. CASE shutdown = 0
      BY <3>1, ShutdownZero
    <3>2. CASE shutdown # 0
      <4>1. pc[v] = "groupStopped" \/ (pc[v] = "gone" /\ "stopHandler" \notin faults)
        BY <1>1, <1>3, <3>2, StepClasses
      <4> QED
        BY <4>1 DEF LatchInv
    <3> QED
      BY <3>1, <3>2
  <2> QED
    BY <1>1, <2>1, StepClasses
<1> QED
  BY <1>1, <1>2, <1>3 DEF LatchInv

(***************************************************************************)
(* The last of a group to be counted.                                      *)
(***************************************************************************)
LEMMA StepSameClass ==
    ASSUME Typed, NEW w \in Workers, Step(w), ~IncrementRunning(w), ~DecrementRunning(w)
    PROVE  /\ last' = last
           /\ pc'[w] \in BeforeCount <=> pc[w] \in BeforeCount
           /\ pc'[w] \in Up <=> pc[w] \in Up
           /\ pc'[w] \in Ending <=> pc[w] \in Ending
           /\ pc'[w] \in {"acceptors", "groupStarted", "groupStopped"} =>
                 last[w] \/ pc[w] \in {"acceptors", "groupStarted", "groupStopped"}
<1>1. \A l : Goto(w, l) => pc'[w] = l
  BY DEF Goto, Typed
<1>2. CASE Begins(w) \/ OnWorkerStarted(w) \/ StartHandler(w) \/ StartAcceptors(w)
           \/ OnWorkerGroupStarted(w) \/ ArriveStart(w)
  BY <1>1, <1>2 DEF Begins, OnWorkerStarted, StartHandler, StartAcceptors,
              OnWorkerGroupStarted, ArriveStart, At,
              Up, Ending, BeforeCount, Starting, Running, Stopping, Stopped
<1>3. CASE WaitStart(w) \/ LeaveLoop(w) \/ SignalFailure(w) \/ OnWorkerStopped(w)
           \/ StopHandler(w) \/ ArriveStop(w) \/ WaitStop(w) \/ OnWorkerGroupStopped(w)
  BY <1>1, <1>3 DEF WaitStart, LeaveLoop, SignalFailure,
              OnWorkerStopped, StopHandler, ArriveStop, WaitStop, OnWorkerGroupStopped, At,
              Up, Ending, BeforeCount, Starting, Running, Stopping, Stopped
<1> QED
  BY <1>2, <1>3 DEF Step

LEMMA LastInit == Init => LastInv
<1> SUFFICES ASSUME Init PROVE LastInv
  OBVIOUS
<1>1. \A w \in Workers : pc[w] = "none" /\ last[w] = FALSE
  BY DEF Init
<1>2. \A g \in Groups : \E v \in Members(g) : pc[v] \notin Up /\ pc[v] \notin Ending
  BY <1>1, FiniteSets DEF Up, Ending, Starting, Running, Stopping, Stopped
<1> QED
  BY <1>1, <1>2 DEF LastInv

(* The classes of the labels are disjoint and there is no other.           *)
LEMMA Classes ==
    /\ \A l \in Labels : l \in BeforeCount \/ l \in Up \/ l \in Ending
    /\ \A l : l \in BeforeCount => l \notin Up /\ l \notin Ending
    /\ \A l : l \in Up => l \notin Ending
BY DEF Labels, Up, Ending, BeforeCount, Starting, Running, Stopping, Stopped

LEMMA LastOthers ==
    ASSUME LastInv, Spawns
    PROVE  LastInv'
<1>1. \A w \in Workers : /\ pc'[w] \in BeforeCount <=> pc[w] \in BeforeCount
                         /\ pc'[w] \in Up <=> pc[w] \in Up
                         /\ pc'[w] \in Ending <=> pc[w] \in Ending
  BY DEF Spawns, Up, Ending, BeforeCount, Starting, Running, Stopping, Stopped
<1>2. \A w \in Workers : pc'[w] \in {"acceptors", "groupStarted", "groupStopped"} =>
          pc[w] \in {"acceptors", "groupStarted", "groupStopped"}
  BY DEF Spawns
<1>3. last' = last
  BY DEF Spawns
<1>4. \A g \in Groups : Members(g) \subseteq Workers
  BY FiniteSets
<1> QED
  BY <1>1, <1>2, <1>3, <1>4 DEF LastInv

LEMMA LastIncrement ==
    ASSUME Typed, CountInv, LastInv, NEW w \in Workers, IncrementRunning(w), CountInv'
    PROVE  LastInv'
<1> DEFINE g == GroupOf[w]
<1>1. /\ pc[w] = "increment" /\ pc'[w] = "started"
      /\ \A v \in Workers : v # w => pc'[v] = pc[v] /\ last'[v] = last[v]
      /\ last'[w] <=> runningWorkers'[g] = Cardinality(Members(g))
  BY FiniteSets DEF IncrementRunning, At, Goto, Typed
<1>2. pc[w] \in BeforeCount /\ pc'[w] \in Up
  BY <1>1 DEF BeforeCount, Up, Starting
<1>3. last'[w] <=> \A v \in Members(g) : pc'[v] \in Up
  <2>1. runningWorkers'[g] = CountIn(Members(g), pc', Up)
    BY FiniteSets DEF CountInv
  <2> QED
    BY <1>1, <2>1, CountType, FiniteSets
<1>4. \A v \in Members(g) : v # w => ~last[v]
  BY <1>1, <1>2, FiniteSets, Classes DEF LastInv, Members, Typed
<1>5. \A v \in Workers : pc[v] \in Labels
  BY DEF Typed
<1>6. \A u \in Workers : pc'[u] \in BeforeCount => ~last'[u]
  BY <1>1, <1>2, Classes DEF LastInv
<1>7. \A u \in Workers : pc'[u] \in {"acceptors", "groupStarted", "groupStopped"} => last'[u]
  BY <1>1 DEF LastInv
<1>8. ASSUME NEW u \in Workers, NEW v \in Workers, last'[u], GroupOf[v] = GroupOf[u]
      PROVE  /\ pc'[u] \in Up => pc'[v] \notin BeforeCount
             /\ pc'[u] \in Ending => pc'[v] \in Ending
             /\ last'[v] /\ pc'[u] \in Up /\ pc'[v] \in Up => u = v
             /\ last'[v] /\ pc'[u] \in Ending /\ pc'[v] \in Ending => u = v
  <2>1. CASE GroupOf[u] = g
    <3>1. u = w /\ v \in Members(g) /\ pc'[v] \in Up
      BY <1>1, <1>3, <1>4, <1>8, <2>1 DEF Members
    <3>2. last'[v] => v = w
      BY <1>1, <1>4, <3>1
    <3> QED
      BY <1>2, <3>1, <3>2, Classes
  <2>2. CASE GroupOf[u] # g
    BY <1>1, <1>8, <2>2 DEF LastInv
  <2> QED
    BY <2>1, <2>2
<1>9. ASSUME NEW h \in Groups, (\A v \in Members(h) : pc'[v] \in Up) \/ (\A v \in Members(h) : pc'[v] \in Ending)
      PROVE  \E u \in Members(h) : last'[u]
  <2>1. CASE h = g
    BY <1>2, <1>3, <1>9, <2>1, FiniteSets, Classes
  <2>2. CASE h # g
    <3>1. \A v \in Members(h) : v \in Workers /\ v # w
      BY <2>2 DEF Members
    <3> QED
      BY <1>1, <1>9, <3>1 DEF LastInv
  <2> QED
    BY <2>1, <2>2
<1> QED
  BY <1>6, <1>7, <1>8, <1>9 DEF LastInv

LEMMA LastDecrement ==
    ASSUME Typed, CountInv, LatchInv, LastInv, NEW w \in Workers, DecrementRunning(w), CountInv'
    PROVE  LastInv'
<1> DEFINE g == GroupOf[w]
<1>1. /\ pc[w] = "decrement" /\ pc'[w] = "stopped"
      /\ \A v \in Workers : v # w => pc'[v] = pc[v] /\ last'[v] = last[v]
      /\ last'[w] <=> runningWorkers'[g] = 0
  <2>1. g \in Groups /\ runningWorkers[g] \in Int /\ runningWorkers'[g] = runningWorkers[g] - 1
    BY FiniteSets DEF DecrementRunning, Typed
  <2>2. (last'[w] <=> runningWorkers[g] = 1) /\ \A v \in Workers : v # w => last'[v] = last[v]
    BY DEF DecrementRunning, Typed
  <2>3. pc[w] = "decrement" /\ pc'[w] = "stopped" /\ \A v \in Workers : v # w => pc'[v] = pc[v]
    BY DEF DecrementRunning, At, Goto, Typed
  <2> QED
    BY <2>1, <2>2, <2>3
<1>2. pc[w] \in Up /\ pc'[w] \in Ending
  BY <1>1 DEF Ending, Up, Running, Stopping
<1>3. \A v \in Workers : pc[v] \notin BeforeCount /\ pc'[v] \in Labels /\ pc'[v] \notin BeforeCount
  <2>1. \A v \in Workers : pc[v] \notin BeforeCount
    BY <1>1 DEF LatchInv, StartBarrier, Running
  <2>2. \A v \in Workers : pc[v] \in Labels
    BY DEF Typed
  <2>3. pc'[w] \in Labels
    BY <1>1 DEF Labels, Ending, Stopping
  <2> QED
    BY <1>1, <1>2, <2>1, <2>2, <2>3, Classes
<1>4. last'[w] <=> \A v \in Members(g) : pc'[v] \in Ending
  <2>1. runningWorkers'[g] = CountIn(Members(g), pc', Up)
    BY FiniteSets DEF CountInv
  <2>2. last'[w] <=> \A v \in Members(g) : pc'[v] \notin Up
    BY <1>1, <2>1, CountType, FiniteSets
  <2> QED
    BY <1>3, <2>2, Classes, FiniteSets
<1>5. \A v \in Members(g) : v # w /\ last[v] => pc[v] \notin Ending
  BY <1>2, FiniteSets, Classes DEF LastInv, Members
<1>6. \A u \in Workers : pc'[u] \in {"acceptors", "groupStarted", "groupStopped"} => last'[u]
  BY <1>1 DEF LastInv
<1>7. ASSUME NEW u \in Workers, NEW v \in Workers, last'[u], GroupOf[v] = GroupOf[u]
      PROVE  /\ pc'[u] \in Ending => pc'[v] \in Ending
             /\ last'[v] /\ pc'[u] \in Up /\ pc'[v] \in Up => u = v
             /\ last'[v] /\ pc'[u] \in Ending /\ pc'[v] \in Ending => u = v
  <2>0. u \in Members(GroupOf[u]) /\ v \in Members(GroupOf[u])
    BY <1>7 DEF Members
  <2>1. pc'[u] \in Ending => pc'[v] \in Ending
    <3>1. CASE u = w
      BY <1>4, <1>7, <2>0, <3>1
    <3>2. CASE u # w
      BY <1>1, <1>2, <1>5, <1>7, <2>0, <3>2, Classes DEF LastInv
    <3> QED
      BY <3>1, <3>2
  <2>2. last'[v] /\ pc'[u] \in Up /\ pc'[v] \in Up => u = v
    BY <1>1, <1>2, <1>7, Classes DEF LastInv
  <2>3. last'[v] /\ pc'[u] \in Ending /\ pc'[v] \in Ending => u = v
    BY <1>1, <1>2, <1>5, <1>7, <2>0, Classes DEF LastInv
  <2> QED
    BY <2>1, <2>2, <2>3
<1>8. ASSUME NEW h \in Groups, (\A v \in Members(h) : pc'[v] \in Up) \/ (\A v \in Members(h) : pc'[v] \in Ending)
      PROVE  \E u \in Members(h) : last'[u]
  <2>1. CASE h = g
    BY <1>2, <1>4, <1>8, <2>1, FiniteSets, Classes
  <2>2. CASE h # g
    <3>1. \A v \in Members(h) : v \in Workers /\ v # w
      BY <2>2 DEF Members
    <3> QED
      BY <1>1, <1>8, <3>1 DEF LastInv
  <2> QED
    BY <2>1, <2>2
<1> QED
  BY <1>3, <1>6, <1>7, <1>8 DEF LastInv

LEMMA LastStep ==
    ASSUME Typed, CountInv, LatchInv, LastInv, NEW w \in Workers, Step(w), CountInv'
    PROVE  LastInv'
<1>1. CASE IncrementRunning(w)
  BY <1>1, LastIncrement
<1>2. CASE DecrementRunning(w)
  BY <1>2, LastDecrement
<1>3. CASE ~IncrementRunning(w) /\ ~DecrementRunning(w)
  <2>1. /\ last' = last
        /\ pc'[w] \in BeforeCount <=> pc[w] \in BeforeCount
        /\ pc'[w] \in Up <=> pc[w] \in Up
        /\ pc'[w] \in Ending <=> pc[w] \in Ending
        /\ pc'[w] \in {"acceptors", "groupStarted", "groupStopped"} => last[w]
    BY <1>3, StepSameClass DEF LastInv
  <2>2. \A v \in Workers : v # w => pc'[v] = pc[v]
    BY StepMoves
  <2>3. \A v \in Workers : /\ pc'[v] \in BeforeCount <=> pc[v] \in BeforeCount
                           /\ pc'[v] \in Up <=> pc[v] \in Up
                           /\ pc'[v] \in Ending <=> pc[v] \in Ending
    BY <2>1, <2>2
  <2>4. \A g \in Groups : Members(g) \subseteq Workers
    BY FiniteSets
  <2> QED
    BY <2>1, <2>2, <2>3, <2>4 DEF LastInv
<1> QED
  BY <1>1, <1>2, <1>3

(***************************************************************************)
(* The groups that are counted in and counted out.                         *)
(***************************************************************************)
In == {"arriveStart"} \cup Running

GroupSetsFinite ==
    /\ CountedIn \subseteq Groups /\ IsFiniteSet(CountedIn) /\ Cardinality(CountedIn) \in 0 .. NumGroups
    /\ Cardinality(CountedIn) = NumGroups => CountedIn = Groups
    /\ CountedOut \subseteq Groups /\ IsFiniteSet(CountedOut) /\ Cardinality(CountedOut) \in 0 .. NumGroups
    /\ IsFiniteSet(Groups \ CountedOut) /\ Cardinality(Groups \ CountedOut) \in 0 .. NumGroups

LEMMA GroupSets == GroupSetsFinite
<1>1. CountedIn \subseteq Groups /\ CountedOut \subseteq Groups /\ Groups \ CountedOut \subseteq Groups
  BY DEF CountedIn, CountedOut
<1>2. \A T \in SUBSET Groups : IsFiniteSet(T) /\ Cardinality(T) \in 0 .. NumGroups
                               /\ (Cardinality(T) = NumGroups => T = Groups)
  BY FiniteSets, FS_Subset, FS_CardinalityType
<1> QED
  BY <1>1, <1>2 DEF GroupSetsFinite

LEMMA GroupSetsNext == GroupSetsFinite'
BY GroupSets, PTL

(* Who is in the run loop has met all the others at the first latch.       *)
LEMMA LateMeansStarted ==
    ASSUME CountInv, LatchInv, NEW w \in Workers, pc[w] \in (Running \ {"waitStart"}) \cup Ending
    PROVE  startup = 0
BY StartupZero DEF LatchInv, StartBarrier, Ending

(* The last arrival at the first latch finds the others waiting, and every *)
(* group counted in.                                                       *)
LEMMA LastArrival ==
    ASSUME Typed, CountInv, LatchInv, LastInv, NEW w \in Workers, ArriveStart(w), CountInv', startup' = 0
    PROVE  CountedIn = Groups
<1>1. pc[w] = "arriveStart" /\ \A v \in Workers : v # w => pc'[v] = pc[v]
  BY DEF ArriveStart, At, Goto, Typed
<1>2. \A v \in Workers : pc'[v] \notin BeforeCount \cup Starting
  <2>1. CountIn(Workers, pc', BeforeCount \cup Starting) = 0
    BY DEF CountInv
  <2> QED
    BY <2>1, CountType, FiniteSets
<1>3. startup # 0
  BY <1>1, StartupZero DEF Starting
<1>4. ASSUME NEW v \in Workers
      PROVE  pc[v] \in In
  <2>1. CASE v = w
    BY <1>1, <2>1 DEF In
  <2>2. CASE v # w
    <3>1. pc[v] \in Labels /\ pc[v] \notin BeforeCount \cup Starting
      BY <1>1, <1>2, <2>2 DEF Typed
    <3>2. pc[v] \notin (Running \ {"waitStart"}) \cup Ending
      BY <1>3, LateMeansStarted
    <3> QED
      BY <3>1, <3>2 DEF Labels, Up, Ending, In, Running
  <2> QED
    BY <2>1, <2>2
<1>5. ASSUME NEW g \in Groups
      PROVE  g \in CountedIn
  <2>1. \A v \in Members(g) : v \in Workers /\ pc[v] \in In /\ pc[v] \in Up
    BY <1>4, FiniteSets DEF In, Up, Starting, Running
  <2>2. PICK v \in Members(g) : last[v]
    BY <2>1 DEF LastInv
  <2> QED
    BY <2>1, <2>2 DEF CountedIn, In
<1> QED
  BY <1>5, GroupSets DEF GroupSetsFinite

LEMMA GroupsInit == Init => GroupsInv
<1> SUFFICES ASSUME Init PROVE GroupsInv
  OBVIOUS
<1>1. startup = Cardinality(Workers) /\ startup > 0 /\ activeGroups = 0
  <2>1. Cardinality(Workers) \in Nat /\ Cardinality(Workers) # 0
    BY FiniteSets, FS_EmptySet
  <2> QED
    BY <2>1 DEF Init
<1>2. CountedIn = {}
  BY FiniteSets DEF Init, CountedIn
<1> QED
  BY <1>1, <1>2, FS_EmptySet DEF GroupsInv

LEMMA GroupsOthers ==
    ASSUME Typed, GroupsInv, Spawns
    PROVE  GroupsInv'
<1>1. CountedIn' = CountedIn
  <2>1. \A g \in Groups : \A v \in Members(g) : pc'[v] \in In <=> pc[v] \in In
    BY FiniteSets DEF Spawns, In, Running
  <2> QED
    BY <2>1 DEF CountedIn, Spawns, In
<1>2. CountedOut' = CountedOut
  BY FiniteSets DEF CountedOut, Ended, Spawns
<1> QED
  BY <1>1, <1>2 DEF GroupsInv, Spawns, AllStart, AllStop

(* A step before the first latch opens.                                    *)
LEMMA GroupsStarting ==
    ASSUME Typed, CountInv, LatchInv, LastInv, GroupsInv, NEW w \in Workers, CountInv',
           \/ Begins(w) \/ IncrementRunning(w) \/ OnWorkerStarted(w) \/ StartHandler(w) \/ StartAcceptors(w)
    PROVE  GroupsInv'
<1>1. /\ \A v \in Workers : v # w => pc'[v] = pc[v] /\ last'[v] = last[v]
      /\ UNCHANGED <<faults, activeGroups, startup>>
      /\ pc[w] \in (BeforeCount \cup Starting) \ {"arriveStart"}
      /\ AllStart => ~(last'[w] /\ pc'[w] \in In)
  <2>1. \A l : Goto(w, l) => pc'[w] = l /\ \A v \in Workers : v # w => pc'[v] = pc[v]
    BY DEF Goto, Typed
  <2>2. CASE Begins(w) \/ OnWorkerStarted(w) \/ StartHandler(w) \/ StartAcceptors(w)
    <3>1. UNCHANGED <<faults, activeGroups, startup, last>>
      BY <2>2 DEF Begins, OnWorkerStarted, StartHandler, StartAcceptors, mainVars, counters
    <3>2. pc[w] \in {"spawned", "started", "startHandler", "acceptors"}
      BY <2>2 DEF Begins, OnWorkerStarted, StartHandler, StartAcceptors, At
    <3>3. \/ Goto(w, "increment") \/ Goto(w, "dead") \/ Goto(w, "startHandler") \/ Goto(w, "acceptors")
          \/ Goto(w, "groupStarted")
          \/ Goto(w, "arriveStart") /\ (AllStart => ~last[w])
      BY <2>2 DEF Begins, OnWorkerStarted, StartHandler, StartAcceptors, AllStart
    <3>4. (\A v \in Workers : v # w => pc'[v] = pc[v]) /\ (AllStart => ~(last[w] /\ pc'[w] \in In))
      BY <2>1, <3>3 DEF In, Running
    <3> QED
      BY <3>1, <3>2, <3>4 DEF BeforeCount, Starting
  <2>3. CASE IncrementRunning(w)
    <3>1. \A v \in Workers : v # w => last'[v] = last[v]
      BY <2>3 DEF IncrementRunning, Typed
    <3> QED
      BY <2>1, <2>3, <3>1 DEF IncrementRunning, At, mainVars, BeforeCount, Starting, In, Running
  <2> QED
    BY <2>2, <2>3
<1>2. startup > 0 /\ startup \in Nat
  BY <1>1, StartupZero, FiniteSets
<1>3. CountedIn \subseteq CountedIn'
  <2>1. pc[w] \notin In
    BY <1>1 DEF In, BeforeCount, Starting, Running
  <2> QED
    BY <1>1, <2>1, FiniteSets DEF CountedIn, In
<1>4. AllStart => CountedIn' = CountedIn
  <2>1. AllStart => CountedIn' \subseteq CountedIn
    BY <1>1, FiniteSets DEF CountedIn, In
  <2> QED
    BY <1>3, <2>1
<1>5. Cardinality(CountedIn) <= Cardinality(CountedIn')
      /\ Cardinality(CountedIn) \in Int /\ Cardinality(CountedIn') \in Int
  BY <1>3, GroupSets, GroupSetsNext, FS_Subset DEF GroupSetsFinite
<1>6. AllStart' <=> AllStart
  BY <1>1 DEF AllStart
<1> QED
  BY <1>1, <1>2, <1>4, <1>5, <1>6 DEF GroupsInv, Typed

LEMMA GroupsStarted ==
    ASSUME Typed, CountInv, LatchInv, LastInv, GroupsInv, NEW w \in Workers, OnWorkerGroupStarted(w)
    PROVE  GroupsInv' /\ activeGroups < NumGroups /\ startup > 0
<1> DEFINE g == GroupOf[w]
<1>1. /\ pc[w] = "groupStarted" /\ pc'[w] = "arriveStart"
      /\ \A v \in Workers : v # w => pc'[v] = pc[v]
      /\ last' = last /\ activeGroups' = activeGroups + 1
      /\ UNCHANGED <<faults, startup>>
  BY DEF OnWorkerGroupStarted, At, Goto, Typed, mainVars
<1>2. startup > 0 /\ startup \in Nat
  BY <1>1, StartupZero, FiniteSets DEF Starting
<1>3. last[w] /\ g \in Groups /\ w \in Members(g)
  BY <1>1, FiniteSets DEF LastInv
<1>4. g \notin CountedIn
  <2> SUFFICES ASSUME NEW v \in Members(g), last[v], pc[v] \in In
               PROVE  FALSE
    BY DEF CountedIn, In
  <2>1. pc[v] \in Up /\ pc[w] \in Up /\ v # w /\ v \in Workers /\ GroupOf[v] = GroupOf[w]
    BY <1>1 DEF In, Up, Starting, Running, Members
  <2> QED
    BY <1>3, <2>1 DEF LastInv
<1>5. CountedIn' = CountedIn \cup {g}
  <2>1. \A h \in Groups : \A v \in Members(h) : v = w => h = g
    BY DEF Members
  <2>2. CountedIn' \subseteq CountedIn \cup {g}
    BY <1>1, <2>1, FiniteSets DEF CountedIn
  <2>3. g \in CountedIn'
    BY <1>1, <1>3 DEF CountedIn
  <2>4. CountedIn \subseteq CountedIn'
    <3>1. pc[w] \notin {"arriveStart"} \cup Running
      BY <1>1 DEF Running
    <3> QED
      BY <1>1, <3>1, FiniteSets DEF CountedIn
  <2> QED
    BY <2>2, <2>3, <2>4
<1>6. Cardinality(CountedIn') = Cardinality(CountedIn) + 1 /\ Cardinality(CountedIn) \in Int
  <2>1. IsFiniteSet(CountedIn) /\ Cardinality(CountedIn) \in Int
    BY GroupSets DEF GroupSetsFinite
  <2>2. Cardinality(CountedIn \cup {g}) = Cardinality(CountedIn) + 1
    BY <1>4, <2>1, FS_AddElement
  <2> QED
    BY <1>5, <2>1, <2>2
<1>7. AllStart' <=> AllStart
  BY <1>1 DEF AllStart
<1>8. activeGroups < NumGroups
  <2>1. Cardinality(CountedIn) # NumGroups /\ Cardinality(CountedIn) <= NumGroups
    BY <1>3, <1>4, GroupSets, FiniteSets DEF GroupSetsFinite
  <2>2. activeGroups <= Cardinality(CountedIn) /\ activeGroups \in Int
    BY <1>2 DEF GroupsInv, Typed
  <2> QED
    BY <1>6, <2>1, <2>2, FiniteSets
<1> QED
  BY <1>1, <1>2, <1>6, <1>7, <1>8 DEF GroupsInv, Typed

LEMMA GroupsArrive ==
    ASSUME Typed, CountInv, LatchInv, LastInv, GroupsInv, NEW w \in Workers, ArriveStart(w), Typed', CountInv'
    PROVE  /\ GroupsInv'
           /\ startup' = 0 /\ AllStart => activeGroups = NumGroups
<1>1. /\ pc[w] = "arriveStart" /\ pc'[w] = "waitStart"
      /\ \A v \in Workers : v # w => pc'[v] = pc[v]
      /\ startup' = startup - 1 /\ UNCHANGED <<faults, last, activeGroups, shutdown>>
  BY DEF ArriveStart, At, Goto, Typed, mainVars
<1>2. startup > 0 /\ startup \in Nat
  BY <1>1, StartupZero, FiniteSets DEF Starting
<1>3. CountedIn' = CountedIn
  <2>1. \A v \in Workers : pc'[v] \in In <=> pc[v] \in In
    BY <1>1 DEF In, Running
  <2> QED
    BY <1>1, <2>1, FiniteSets DEF CountedIn, In
<1>4. /\ 0 <= activeGroups /\ activeGroups <= Cardinality(CountedIn) /\ activeGroups \in Int
      /\ AllStart => activeGroups = Cardinality(CountedIn)
      /\ Cardinality(CountedIn) \in 0 .. NumGroups
  BY <1>2, GroupSets DEF GroupsInv, GroupSetsFinite, Typed
<1>5. (AllStart' <=> AllStart) /\ (AllStop' <=> AllStop) /\ (AllStop => AllStart)
  BY <1>1 DEF AllStart, AllStop
<1>6. CASE startup' > 0
  BY <1>1, <1>2, <1>3, <1>4, <1>5, <1>6 DEF GroupsInv
<1>7. CASE startup' = 0
  <2>1. CountedIn = Groups
    BY <1>7, LastArrival
  <2>2. Cardinality(CountedIn) = NumGroups
    BY <2>1, FiniteSets
  <2>3. AllStart => activeGroups = NumGroups
    BY <1>4, <2>2
  <2>4. shutdown' # 0
    <3>1. \/ shutdown' # 0
          \/ \A v \in Workers : pc'[v] \in Stopped
      <4>1. /\ CountIn(Workers, pc', Labels \ Stopped) \in 0 .. Cardinality(Workers)
            /\ CountIn(Workers, pc', Labels \ Stopped) = 0 <=> \A v \in Workers : pc'[v] \notin Labels \ Stopped
        BY CountType, FiniteSets
      <4>2. shutdown' \in Int /\ shutdown' >= CountIn(Workers, pc', Labels \ Stopped)
        BY DEF CountInv, Typed
      <4>3. \A v \in Workers : pc'[v] \in Labels
        BY DEF Typed
      <4> QED
        BY <4>1, <4>2, <4>3, FiniteSets
    <3> QED
      BY <1>1, <3>1 DEF Stopped
  <2>5. Cardinality(CountedOut') \in 0 .. NumGroups
    BY GroupSetsNext DEF GroupSetsFinite
  <2>6. -Cardinality(CountedOut') <= activeGroups' /\ activeGroups' <= NumGroups
    BY <1>1, <1>4, <2>5, FiniteSets
  <2>7. GroupsInv'
    BY <1>1, <1>5, <1>7, <2>3, <2>4, <2>6 DEF GroupsInv
  <2> QED
    BY <2>3, <2>7
<1> QED
  BY <1>1, <1>2, <1>6, <1>7

(* A step after the first latch has opened.                                *)
LEMMA GroupsEnding ==
    ASSUME Typed, CountInv, LatchInv, LastInv, GroupsInv, NEW w \in Workers,
           \/ WaitStart(w) \/ LeaveLoop(w) \/ SignalFailure(w) \/ DecrementRunning(w) \/ OnWorkerStopped(w)
           \/ StopHandler(w) \/ WaitStop(w)
    PROVE  GroupsInv'
<1>1. \A l : Goto(w, l) => pc'[w] = l /\ \A v \in Workers : v # w => pc'[v] = pc[v]
  BY DEF Goto, Typed
<1>2. UNCHANGED <<faults, activeGroups, startup, shutdown>>
  BY DEF WaitStart, LeaveLoop, SignalFailure, DecrementRunning, OnWorkerStopped, StopHandler, WaitStop,
         mainVars, counters
<1>3. startup = 0
  <2>1. CASE WaitStart(w)
    BY <2>1 DEF WaitStart
  <2>2. CASE ~WaitStart(w)
    <3>1. pc[w] \in (Running \ {"waitStart"}) \cup Ending
      BY <2>2 DEF LeaveLoop, SignalFailure, DecrementRunning, OnWorkerStopped, StopHandler, WaitStop, At,
                  Running, Ending, Stopping, Stopped
    <3> QED
      BY <3>1, LateMeansStarted
  <2> QED
    BY <2>1, <2>2
<1>4. \A v \in Workers : v # w => last'[v] = last[v]
  BY DEF WaitStart, LeaveLoop, SignalFailure, DecrementRunning, OnWorkerStopped, StopHandler, WaitStop, Typed
<1>5. pc[w] \notin {"gone"}
  BY DEF WaitStart, LeaveLoop, SignalFailure, DecrementRunning, OnWorkerStopped, StopHandler, WaitStop, At
<1>6. \E l : Goto(w, l) /\ (AllStop => ~(last'[w] /\ l = "gone"))
  <2>1. CASE WaitStart(w) \/ LeaveLoop(w) \/ SignalFailure(w) \/ DecrementRunning(w) \/ OnWorkerStopped(w)
    <3>1. \E l \in {"run", "signal", "decrement", "stopped", "stopHandler"} : Goto(w, l)
      BY <2>1 DEF WaitStart, LeaveLoop, SignalFailure, DecrementRunning, OnWorkerStopped
    <3> QED
      BY <3>1
  <2>2. CASE StopHandler(w)
    BY <2>2 DEF StopHandler, AllStop
  <2>3. CASE WaitStop(w)
    BY <2>3 DEF WaitStop
  <2> QED
    BY <2>1, <2>2, <2>3
<1>7. CountedOut \subseteq CountedOut' /\ (AllStop => CountedOut' = CountedOut)
  BY <1>1, <1>4, <1>5, <1>6, FiniteSets DEF CountedOut, Ended
<1>8. Cardinality(CountedOut) <= Cardinality(CountedOut')
      /\ Cardinality(CountedOut) \in Int /\ Cardinality(CountedOut') \in Int
  BY <1>7, GroupSets, GroupSetsNext, FS_Subset DEF GroupSetsFinite
<1>9. -Cardinality(CountedOut') <= activeGroups
  <2>1. -Cardinality(CountedOut) <= activeGroups
    BY <1>3 DEF GroupsInv
  <2> QED
    BY <1>8, <2>1 DEF Typed
<1>10. AllStop' <=> AllStop
  BY <1>2 DEF AllStop, AllStart
<1> QED
  BY <1>2, <1>3, <1>7, <1>9, <1>10 DEF GroupsInv

LEMMA GroupsArriveStop ==
    ASSUME Typed, CountInv, LatchInv, LastInv, GroupsInv, NEW w \in Workers, ArriveStop(w), Typed', CountInv'
    PROVE  /\ GroupsInv' /\ startup = 0
           /\ AllStop => activeGroups = NumGroups
<1>1. /\ pc[w] = "arriveStop" /\ pc'[w] = "waitStop"
      /\ \A v \in Workers : v # w => pc'[v] = pc[v]
      /\ UNCHANGED <<faults, last, activeGroups, startup>>
  BY DEF ArriveStop, At, Goto, Typed, mainVars
<1>2. startup = 0
  BY <1>1, LateMeansStarted DEF Ending, Stopping
<1>3. CountedOut' = CountedOut
  <2>1. \A v \in Workers : pc'[v] = "gone" <=> pc[v] = "gone"
    BY <1>1
  <2> QED
    BY <1>1, <2>1, FiniteSets DEF CountedOut, Ended
<1>4. shutdown > 0
  BY <1>1, ShutdownZero, FiniteSets DEF Stopped
<1>5. AllStop => activeGroups = NumGroups
  BY <1>2, <1>4 DEF GroupsInv
<1>6. AllStop => CountedOut = {}
  <2> SUFFICES ASSUME AllStop, NEW g \in Groups, NEW v \in Members(g), pc[v] = "gone"
               PROVE  FALSE
    BY DEF CountedOut, Ended
  <2>1. pc[w] \in Stopped
    BY FiniteSets DEF LatchInv, AllStop
  <2> QED
    BY <1>1, <2>1 DEF Stopped
<1>7. AllStop => Cardinality(Groups \ CountedOut) = NumGroups
  <2>1. AllStop => Groups \ CountedOut = Groups
    BY <1>6
  <2> QED
    BY <2>1, FiniteSets
<1>8. AllStop' <=> AllStop
  BY <1>1 DEF AllStop, AllStart
<1> QED
  BY <1>1, <1>2, <1>3, <1>5, <1>7, <1>8 DEF GroupsInv

LEMMA GroupsStopped ==
    ASSUME Typed, CountInv, LatchInv, LastInv, GroupsInv, NEW w \in Workers, OnWorkerGroupStopped(w)
    PROVE  GroupsInv' /\ startup = 0
<1> DEFINE g == GroupOf[w]
<1>1. /\ pc[w] = "groupStopped" /\ pc'[w] = "gone"
      /\ \A v \in Workers : v # w => pc'[v] = pc[v]
      /\ last' = last /\ activeGroups' = activeGroups - 1
      /\ UNCHANGED <<faults, startup, shutdown>>
  BY DEF OnWorkerGroupStopped, At, Goto, Typed, mainVars
<1>2. startup = 0
  BY <1>1, LateMeansStarted DEF Ending, Stopped
<1>3. last[w] /\ g \in Groups /\ w \in Members(g)
  BY <1>1, FiniteSets DEF LastInv
<1>4. g \notin CountedOut
  <2> SUFFICES ASSUME NEW v \in Members(g), last[v], pc[v] = "gone"
               PROVE  FALSE
    BY DEF CountedOut, Ended
  <2>1. pc[v] \in Ending /\ pc[w] \in Ending /\ v # w /\ v \in Workers /\ GroupOf[v] = GroupOf[w]
    BY <1>1 DEF Ending, Stopped, Members
  <2> QED
    BY <1>3, <2>1 DEF LastInv
<1>5. CountedOut' = CountedOut \cup {g}
  <2>1. \A h \in Groups : \A v \in Members(h) : v = w => h = g
    BY DEF Members
  <2>2. CountedOut' \subseteq CountedOut \cup {g}
    BY <1>1, <2>1, FiniteSets DEF CountedOut, Ended
  <2>3. g \in CountedOut'
    BY <1>1, <1>3 DEF CountedOut, Ended
  <2>4. CountedOut \subseteq CountedOut'
    BY <1>1, FiniteSets DEF CountedOut, Ended
  <2> QED
    BY <2>2, <2>3, <2>4
<1>6. Cardinality(CountedOut') = Cardinality(CountedOut) + 1 /\ Cardinality(CountedOut) \in Int
  <2>1. IsFiniteSet(CountedOut) /\ Cardinality(CountedOut) \in Int
    BY GroupSets DEF GroupSetsFinite
  <2>2. Cardinality(CountedOut \cup {g}) = Cardinality(CountedOut) + 1
    BY <1>4, <2>1, FS_AddElement
  <2> QED
    BY <1>5, <2>1, <2>2
<1>7. Cardinality(Groups \ CountedOut') = Cardinality(Groups \ CountedOut) - 1
      /\ Cardinality(Groups \ CountedOut) \in Int
  <2>1. IsFiniteSet(Groups \ CountedOut) /\ Cardinality(Groups \ CountedOut) \in Int
    BY GroupSets DEF GroupSetsFinite
  <2>2. Groups \ CountedOut' = (Groups \ CountedOut) \ {g} /\ g \in Groups \ CountedOut
    BY <1>3, <1>4, <1>5
  <2>3. Cardinality((Groups \ CountedOut) \ {g}) = Cardinality(Groups \ CountedOut) - 1
    BY <2>1, <2>2, FS_RemoveElement
  <2> QED
    BY <2>1, <2>2, <2>3
<1>8. AllStop' <=> AllStop
  BY <1>1 DEF AllStop, AllStart
<1>9. AllStop => shutdown = 0
  <2>1. \A v \in Workers : pc[v] \in Stopped
    BY <1>1 DEF LatchInv
  <2> QED
    BY <2>1, ShutdownZero DEF AllStop
<1>10. /\ -Cardinality(CountedOut) <= activeGroups /\ activeGroups <= NumGroups /\ activeGroups \in Int
       /\ AllStop => activeGroups = Cardinality(Groups \ CountedOut)
  BY <1>2, <1>9 DEF GroupsInv, Typed
<1>11. -Cardinality(CountedOut') <= activeGroups' /\ activeGroups' <= NumGroups
  BY <1>1, <1>6, <1>10, FiniteSets
<1>12. AllStop => activeGroups' = Cardinality(Groups \ CountedOut')
  BY <1>1, <1>7, <1>10
<1> QED
  BY <1>1, <1>2, <1>8, <1>9, <1>11, <1>12 DEF GroupsInv

LEMMA GroupsStep ==
    ASSUME Typed, CountInv, LatchInv, LastInv, GroupsInv, NEW w \in Workers, Step(w), Typed', CountInv'
    PROVE  GroupsInv'
BY GroupsStarting, GroupsStarted, GroupsArrive, GroupsEnding, GroupsArriveStop, GroupsStopped DEF Step

(***************************************************************************)
(* Who answered what.                                                      *)
(***************************************************************************)
LEMMA OkInit == Init => OkInv
BY DEF Init, OkInv, Running, Ending, Stopping, Stopped

(* No group starts a second time.                                          *)
LEMMA OthersGroupRunning ==
    ASSUME Typed, Others, NEW g \in Groups, g <= started, ~groupRunning[g]
    PROVE  ~groupRunning'[g]
<1>1. started \in Nat /\ g \in Nat
  BY FiniteSets DEF Typed, Groups
<1>2. CASE StartGroup
  BY <1>1, <1>2 DEF StartGroup, Typed
<1>3. CASE StopGroup
  BY <1>3 DEF StopGroup, Typed
<1>4. CASE StartServer \/ RunMaster \/ JoinAllGroups \/ StopService \/ UNCHANGED vars
  BY <1>4 DEF StartServer, RunMaster, JoinAllGroups, StopService, vars
<1>5. CASE \E force \in BOOLEAN : SignalToStop(force)
  BY <1>5 DEF SignalToStop
<1>6. CASE \E s \in Services : OnServiceStopped(s)
  BY <1>6 DEF OnServiceStopped
<1> QED
  BY <1>2, <1>3, <1>4, <1>5, <1>6 DEF Others, Main

LEMMA OkOthers ==
    ASSUME Typed, SpawnInv, OkInv, Others
    PROVE  OkInv'
<1>1. Spawns
  BY OthersSpawn
<1>2. \A w \in Workers : /\ pc'[w] = pc[w] \/ (pc[w] = "none" /\ pc'[w] = "spawned")
                         /\ ok'[w] = ok[w]
  BY <1>1 DEF Spawns
<1>3. faults' = faults
  BY <1>1 DEF Spawns
<1>4. ASSUME NEW w \in Workers
      PROVE  /\ ok'[w] => pc'[w] \notin NotYet
             /\ ok'[w] /\ pc'[w] \in {"decrement"} \cup Ending => ~groupRunning'[GroupOf[w]]
             /\ AllStart /\ "serverStart" \notin faults
                   /\ pc'[w] \in {"arriveStart"} \cup Running \cup Ending => ok'[w]
             /\ pc'[w] = "run" => ok'[w]
  <2>1. CASE pc[w] = "none"
    BY <1>2, <2>1 DEF OkInv, NotYet, BeforeCount, Running, Ending, Stopping, Stopped
  <2>2. CASE pc[w] # "none"
    <3>1. pc'[w] = pc[w] /\ GroupOf[w] <= started /\ GroupOf[w] \in Groups
      BY <1>2, <2>2, FiniteSets DEF SpawnInv
    <3>2. ~groupRunning[GroupOf[w]] => ~groupRunning'[GroupOf[w]]
      BY <3>1, OthersGroupRunning
    <3> QED
      BY <1>2, <3>1, <3>2 DEF OkInv, NotYet
  <2> QED
    BY <2>1, <2>2
<1> QED
  BY <1>3, <1>4 DEF OkInv, AllStart, NotYet

LEMMA OkStep ==
    ASSUME Typed, OkInv, NEW w \in Workers, Step(w)
    PROVE  OkInv'
<1>1. /\ UNCHANGED <<faults, groupRunning>>
      /\ \A v \in Workers : v # w => pc'[v] = pc[v]
  <2>1. groupRunning' = groupRunning
    BY DEF Step, Begins, IncrementRunning, OnWorkerStarted, StartHandler, StartAcceptors,
       OnWorkerGroupStarted, ArriveStart, WaitStart, LeaveLoop, SignalFailure, DecrementRunning,
       OnWorkerStopped, StopHandler, ArriveStop, WaitStop, OnWorkerGroupStopped
  <2> QED
    BY <2>1, StepMoves DEF mainVars
<1>2. \A v \in Workers : v # w => ok'[v] = ok[v]
  <2>1. ok' = ok \/ \E a \in BOOLEAN : Answer(w, a)
    BY DEF Step, Begins, IncrementRunning, OnWorkerStarted, StartHandler, StartAcceptors,
       OnWorkerGroupStarted, ArriveStart, WaitStart, LeaveLoop, SignalFailure, DecrementRunning,
       OnWorkerStopped, StopHandler, ArriveStop, WaitStop, OnWorkerGroupStopped
  <2> QED
    BY <2>1 DEF Answer, Typed
<1>3. \A l : Goto(w, l) => pc'[w] = l
  BY DEF Goto, Typed
<1>4. \A a \in BOOLEAN : Answer(w, a) => ok'[w] = a
  BY DEF Answer, Typed
<1>5. /\ ok'[w] => pc'[w] \notin NotYet
      /\ ok'[w] /\ pc'[w] \in {"decrement"} \cup Ending => ~groupRunning[GroupOf[w]]
      /\ AllStart /\ "serverStart" \notin faults
            /\ pc'[w] \in {"arriveStart"} \cup Running \cup Ending => ok'[w]
      /\ pc'[w] = "run" => ok'[w]
  <2>0. /\ ok[w] => pc[w] \notin NotYet
        /\ ok[w] /\ pc[w] \in {"decrement"} \cup Ending => ~groupRunning[GroupOf[w]]
        /\ AllStart /\ "serverStart" \notin faults
              /\ pc[w] \in {"arriveStart"} \cup Running \cup Ending => ok[w]
        /\ pc[w] = "run" => ok[w]
    BY DEF OkInv
  <2>1. CASE Begins(w) \/ IncrementRunning(w)
    BY <1>3, <2>0, <2>1 DEF Begins, IncrementRunning, At, NotYet, BeforeCount, Running, Ending, Stopping, Stopped
  <2>2. CASE OnWorkerStarted(w)
    BY <1>3, <1>4, <2>0, <2>2 DEF OnWorkerStarted, At, NotYet, AllStart, BeforeCount, Running, Ending, Stopping, Stopped
  <2>3. CASE StartHandler(w)
    BY <1>3, <1>4, <2>0, <2>3 DEF StartHandler, At, NotYet, AllStart, BeforeCount, Running, Ending, Stopping, Stopped
  <2>4. CASE StartAcceptors(w)
    BY <1>3, <2>0, <2>4 DEF StartAcceptors, At, NotYet, BeforeCount, Running, Ending, Stopping, Stopped
  <2>5. CASE OnWorkerGroupStarted(w)
    BY <1>3, <1>4, <2>0, <2>5 DEF OnWorkerGroupStarted, At, NotYet, BeforeCount, Running, Ending, Stopping, Stopped
  <2>6. CASE ArriveStart(w) \/ WaitStart(w)
    BY <1>3, <2>0, <2>6 DEF ArriveStart, WaitStart, At, NotYet, BeforeCount, Running, Ending, Stopping, Stopped
  <2>7. CASE LeaveLoop(w) \/ SignalFailure(w)
    BY <1>3, <2>0, <2>7 DEF LeaveLoop, SignalFailure, At, NotYet, BeforeCount, Running, Ending, Stopping, Stopped
  <2>8. CASE DecrementRunning(w) \/ OnWorkerStopped(w) \/ StopHandler(w)
    BY <1>3, <2>0, <2>8 DEF DecrementRunning, OnWorkerStopped, StopHandler, At, NotYet,
                            BeforeCount, Running, Ending, Stopping, Stopped
  <2>9. CASE ArriveStop(w) \/ WaitStop(w) \/ OnWorkerGroupStopped(w)
    BY <1>3, <2>0, <2>9 DEF ArriveStop, WaitStop, OnWorkerGroupStopped, At, NotYet,
                            BeforeCount, Running, Ending, Stopping, Stopped
  <2> QED
    BY <2>1, <2>2, <2>3, <2>4, <2>5, <2>6, <2>7, <2>8, <2>9 DEF Step
<1> QED
  BY <1>1, <1>2, <1>5 DEF OkInv, AllStart, NotYet

(***************************************************************************)
(* How far the stop is.                                                    *)
(***************************************************************************)
LEMMA WalkInit == Init => WalkInv
<1> SUFFICES ASSUME Init PROVE WalkInv
  OBVIOUS
<1>1. Untouched
  BY FiniteSets DEF Init, Untouched, Called
<1>2. ~GroupStops /\ ~Called("stopped")
  BY FiniteSets DEF Init, GroupStops, Called
<1>3. servicesLeft = Remaining
  <2>1. \A s \in Services : service[s] \in {"up", "pending"}
    BY DEF Init
  <2> QED
    BY <2>1, CountType, FiniteSets DEF Remaining, Init
<1> QED
  BY <1>1, <1>2, <1>3 DEF Init, WalkInv

LEMMA RemainingType ==
    ASSUME Typed
    PROVE  /\ Remaining \in Nat
           /\ Remaining = 0 <=> AllDown
<1>1. \A s \in Services : service[s] \in {"up", "pending"} <=> service[s] # "down"
  BY DEF Typed
<1> QED
  BY <1>1, CountType, FiniteSets DEF Remaining, AllDown

(* The hooks that were called were called.                                 *)
LEMMA CalledStays ==
    ASSUME Typed, [Next]_vars
    PROVE  \A h : Called(h) => Called(h)'
<1>0. hooks \in Seq(HookNames)
  BY DEF Typed
<1>1. \A x \in HookNames : Call(x) => \A h : Called(h) => Called(h)'
  BY <1>0, CallAdds
<1>2. (\E by, force : Begin(by, force)) => \A h : Called(h) => Called(h)'
  BY <1>0, BeginWays DEF Called
<1>3. hooks' = hooks => \A h : Called(h) => Called(h)'
  BY DEF Called
<1>4. hooks' = hooks \o (IF master = None THEN <<"stopped", "afterStop">> ELSE <<"stopped">>)
         => \A h : Called(h) => Called(h)'
  BY <1>0, StoppedAdds
<1>5. \/ hooks' = hooks
      \/ \E x \in HookNames : Call(x)
      \/ \E by, force : Begin(by, force)
      \/ hooks' = hooks \o (IF master = None THEN <<"stopped", "afterStop">> ELSE <<"stopped">>)
  <2>1. CASE Others
    BY <2>1 DEF Others, Main, StartServer, StartGroup, RunMaster, JoinAllGroups, SignalToStop, StopService,
                StopGroup, OnServiceStopped, CountService, vars, HookNames
  <2>2. CASE \E w \in Workers : Step(w)
    BY <2>2 DEF Step, Begins, IncrementRunning, OnWorkerStarted, StartHandler, StartAcceptors,
       OnWorkerGroupStarted, ArriveStart, WaitStart, LeaveLoop, SignalFailure, DecrementRunning,
       OnWorkerStopped, StopHandler, ArriveStop, WaitStop, OnWorkerGroupStopped, HookNames
  <2> QED
    BY <2>1, <2>2, NextCases
<1> QED
  BY <1>1, <1>2, <1>3, <1>4, <1>5

(* A server that has run has run.                                          *)
LEMMA RanStays ==
    ASSUME Typed, SpawnInv, StoppedAfterAll, [Next]_vars, RanFirst'
    PROVE  RanFirst
<1> SUFFICES ASSUME Called("stopped")
             PROVE  \E w \in Workers : ok[w]
  BY DEF RanFirst
<1>1. Called("stopped")' /\ \A w \in Workers : pc[w] \in Stopped
  BY CalledStays DEF StoppedAfterAll
<1>2. PICK v \in Workers : ok'[v]
  BY <1>1 DEF RanFirst
<1>3. ok' = ok
  <2>1. CASE Others
    BY <2>1, OthersSpawn DEF Spawns
  <2>2. ASSUME NEW w \in Workers, Step(w)
        PROVE  ok' = ok
    BY <1>1, <2>2 DEF Step, Begins, IncrementRunning, OnWorkerStarted, StartHandler, StartAcceptors,
       OnWorkerGroupStarted, ArriveStart, WaitStart, LeaveLoop, SignalFailure, DecrementRunning,
       OnWorkerStopped, StopHandler, ArriveStop, WaitStop, OnWorkerGroupStopped, At, Stopped
  <2> QED
    BY <2>1, <2>2, NextCases
<1> QED
  BY <1>2, <1>3

(* A step that leaves the stop alone.                                      *)
LEMMA WalkFrame ==
    ASSUME WalkInv, RanFirst' => RanFirst,
           UNCHANGED <<started, running, groupRunning, service, servicesLeft, stop, stopAt>>,
           \A h \in {"beforeStop", "servicesStopped", "stopped"} : Called(h)' <=> Called(h),
           main' = "new" => main = "new" /\ hooks' = hooks
    PROVE  WalkInv'
<1>1. (Untouched' <=> Untouched) /\ (GroupStops' <=> GroupStops) /\ (AllDown' <=> AllDown) /\ Remaining' = Remaining
  BY DEF Untouched, GroupStops, AllDown, Remaining
<1> QED
  BY <1>1 DEF WalkInv

LEMMA WalkBegin ==
    ASSUME Typed, WalkInv, RanFirst' => RanFirst, NEW by, NEW force, Begin(by, force), running => stop = "idle",
           UNCHANGED <<main, started, groupRunning>>
    PROVE  WalkInv'
<1>1. hooks \in Seq(HookNames) /\ running' = FALSE /\ UNCHANGED <<service, servicesLeft>>
  BY BeginWays DEF Typed
<1>2. (AllDown' <=> AllDown) /\ Remaining' = Remaining
  BY <1>1 DEF AllDown, Remaining
<1>3. CASE ~running /\ UNCHANGED <<stop, stopAt, stopBy, hooks>>
  <2>1. (Untouched' <=> Untouched) /\ (GroupStops' <=> GroupStops)
    BY <1>1, <1>3 DEF Untouched, GroupStops, Called
  <2>2. \A h : Called(h)' <=> Called(h)
    BY <1>3 DEF Called
  <2> QED
    BY <1>1, <1>2, <1>3, <2>1, <2>2 DEF WalkInv
<1>4. CASE /\ running /\ "beforeStop" \in faults
           /\ UNCHANGED <<stop, stopAt, stopBy>>
           /\ \A h : Called(h)' <=> Called(h) \/ h = "beforeStop"
  <2>1. GroupStops' <=> GroupStops
    BY <1>4 DEF GroupStops
  <2> QED
    BY <1>1, <1>2, <1>4, <2>1 DEF WalkInv
<1>5. CASE /\ running /\ servicesLeft # 0
           /\ stop' = "services" /\ stopAt' = 1 /\ stopBy' = by
           /\ \A h : Called(h)' <=> Called(h) \/ h = "beforeStop"
  <2>1. GroupStops' => GroupStops
    BY <1>5 DEF GroupStops
  <2>2. main # "new"
    BY <1>5 DEF WalkInv
  <2>3. RanFirst' => \A s \in 1 .. NumServices : service'[s] = "up"
    <3>1. CASE Called("stopped")
      <4>1. RanFirst => Remaining = 0 /\ servicesLeft = Remaining
        BY <3>1, RemainingType DEF WalkInv
      <4> QED
        BY <1>5, <4>1
    <3>2. CASE ~Called("stopped")
      BY <1>1, <1>5, <3>2 DEF WalkInv, Untouched, Services
    <3> QED
      BY <3>1, <3>2
  <2> QED
    BY <1>1, <1>2, <1>5, <2>1, <2>2, <2>3 DEF WalkInv
<1>6. CASE /\ running /\ servicesLeft = 0
           /\ stop' = "groups" /\ stopAt' = 1 /\ stopBy' = by
           /\ \A h : Called(h)' <=> Called(h) \/ h \in {"beforeStop", "servicesStopped"}
  <2>1. main # "new"
    BY <1>6 DEF WalkInv
  <2>2. RanFirst => AllDown
    BY <1>6, RemainingType DEF WalkInv
  <2> QED
    BY <1>1, <1>2, <1>6, <2>1, <2>2 DEF WalkInv
<1> QED
  BY <1>1, <1>3, <1>4, <1>5, <1>6, BeginWays

(* A service is counted out.                                               *)
LEMMA WalkCount ==
    ASSUME Typed, WalkInv, RanFirst' => RanFirst, NEW s \in Services, NEW by, CountService(s, by), Typed',
           ~Untouched, RanFirst => service[s] # "down",
           UNCHANGED <<main, started, running, groupRunning>>,
           servicesLeft # 1 /\ stop' = "groups" => stop = "groups",
           servicesLeft # 1 /\ stop' = "services" /\ RanFirst =>
              \A t \in stopAt' .. NumServices : service[t] = "up" /\ t # s
    PROVE  WalkInv'
<1>1. \A h : Called(h)' <=> Called(h) \/ (servicesLeft = 1 /\ h = "servicesStopped")
  <2>1. CASE servicesLeft = 1
    <3>1. Call("servicesStopped") /\ hooks \in Seq(HookNames)
      BY <2>1 DEF CountService, Typed
    <3> QED
      BY <2>1, <3>1, CallAdds DEF HookNames
  <2>2. CASE servicesLeft # 1
    BY <2>2 DEF CountService, Called
  <2> QED
    BY <2>1, <2>2
<1>2. servicesLeft' = servicesLeft - 1 /\ service'[s] = "down" /\ \A t \in Services : t # s => service'[t] = service[t]
  BY DEF CountService, Typed
<1>3. RanFirst => Remaining' = Remaining - 1 /\ Remaining \in Nat /\ Remaining = servicesLeft
  <2>1. service[s] # "down" => service[s] \in {"up", "pending"}
    BY DEF Typed
  <2>2. service[s] # "down" => Remaining' = Remaining - 1
    BY <1>2, <2>1, CountMoves, FiniteSets DEF Remaining
  <2> QED
    BY <2>2, RemainingType DEF WalkInv
<1>4. Remaining' = 0 <=> AllDown'
  <2>1. \A t \in Services : service'[t] \in {"up", "pending"} <=> service'[t] # "down"
    BY DEF Typed
  <2> QED
    BY <2>1, CountType, FiniteSets DEF Remaining, AllDown
<1>5. main # "new" /\ Called("beforeStop") /\ (running => Called("stopped"))
  BY DEF WalkInv
<1>6. GroupStops' => servicesLeft = 1 \/ GroupStops
  BY DEF GroupStops
<1>7. GroupStops' => Called("servicesStopped")'
  BY <1>1, <1>6 DEF WalkInv
<1>8. ASSUME RanFirst'
      PROVE  /\ GroupStops' \/ Called("stopped")' => AllDown'
             /\ servicesLeft' = Remaining'
             /\ stop' = "services" => \A t \in stopAt' .. NumServices : service'[t] = "up"
  <2>1. RanFirst /\ service[s] # "down" /\ ~AllDown
    BY <1>8 DEF AllDown
  <2>2. ~GroupStops /\ ~Called("stopped")
    BY <2>1 DEF WalkInv
  <2>3. GroupStops' \/ Called("stopped")' => AllDown'
    BY <1>1, <1>3, <1>4, <1>6, <2>1, <2>2
  <2>4. stop' = "services" => \A t \in stopAt' .. NumServices : service'[t] = "up"
    <3>1. servicesLeft = 1 => stop' = "groups"
      BY DEF CountService, StopGroups
    <3>2. stop' = "services" => stopAt' \in Services
      BY DEF Typed
    <3>3. stop' = "services" => \A t \in stopAt' .. NumServices : t \in Services
      BY <3>2, FiniteSets DEF Services
    <3> QED
      BY <1>2, <2>1, <3>1, <3>3
  <2> QED
    BY <1>2, <1>3, <2>1, <2>3, <2>4
<1> QED
  BY <1>1, <1>5, <1>7, <1>8 DEF WalkInv

LEMMA WalkOthers ==
    ASSUME Typed, SpawnInv, WalkInv, StoppedAfterAll, Others, Typed'
    PROVE  WalkInv'
<1>0. (RanFirst' => RanFirst) /\ hooks \in Seq(HookNames)
  BY RanStays, NextCases DEF Typed
<1>1. CASE StartServer
  <2>1. main = "new" /\ Untouched /\ hooks = <<>> /\ main' # "new"
    BY <1>1 DEF StartServer, WalkInv
  <2>2. \A h : Called(h)' <=> h = "beforeStart"
    BY <1>0, <1>1, <2>1, CallAdds DEF StartServer, HookNames, Called
  <2>3. UNCHANGED <<started, groupRunning, service, servicesLeft, stop, stopAt>>
    BY <1>1 DEF StartServer, stopVars
  <2>4. (Untouched' <=> Untouched) /\ (GroupStops' <=> GroupStops) /\ (AllDown' <=> AllDown) /\ Remaining' = Remaining
    BY <2>1, <2>2, <2>3 DEF Untouched, GroupStops, AllDown, Remaining
  <2>5. ~GroupStops
    BY <2>1 DEF Untouched, GroupStops
  <2> QED
    BY <1>0, <2>1, <2>2, <2>3, <2>4, <2>5 DEF WalkInv
<1>2. CASE StartGroup
  <2>1. /\ UNCHANGED <<main, running, service, servicesLeft, stop, stopAt, hooks>>
        /\ started' = started + 1 /\ started \in Nat /\ groupRunning'[started + 1]
        /\ \A g \in 1 .. started : groupRunning'[g] <=> groupRunning[g]
        /\ main # "new"
    BY <1>2, FiniteSets DEF StartGroup, Typed, stopVars, Groups
  <2>2. \A g \in 1 .. started' : g \in 1 .. started \/ g = started + 1
    BY <2>1
  <2>3. (\A g \in 1 .. started : groupRunning[g]) <=> \A g \in 1 .. started' : groupRunning'[g]
    BY <2>1, <2>2
  <2>4. (GroupStops' <=> GroupStops) /\ (AllDown' <=> AllDown) /\ Remaining' = Remaining
    BY <2>1, <2>3 DEF GroupStops, AllDown, Remaining
  <2>5. \A h : Called(h)' <=> Called(h)
    BY <2>1 DEF Called
  <2>6. Untouched' <=> Untouched
    BY <2>1, <2>3, <2>5 DEF Untouched
  <2> QED
    BY <1>0, <2>1, <2>4, <2>5, <2>6 DEF WalkInv
<1>3. CASE RunMaster \/ UNCHANGED vars
  BY <1>0, <1>3, WalkFrame DEF RunMaster, vars, mainVars, stopVars, Called
<1>4. CASE JoinAllGroups
  <2>1. \A h \in {"beforeStop", "servicesStopped", "stopped"} : Called(h)' <=> Called(h)
    BY <1>0, <1>4, CallAdds DEF JoinAllGroups, HookNames, Called
  <2> QED
    BY <1>0, <1>4, <2>1, WalkFrame DEF JoinAllGroups, stopVars
<1>5. ASSUME NEW force \in BOOLEAN, SignalToStop(force)
      PROVE  WalkInv'
  BY <1>0, <1>5, WalkBegin DEF SignalToStop, mainVars
<1>6. CASE StopService
  <2>1. /\ stop = "services" /\ stopAt \in Services
        /\ UNCHANGED <<main, started, running, groupRunning>>
        /\ ~Untouched
    BY <1>6 DEF StopService, Typed, mainVars, Untouched
  <2>2. RanFirst => \A t \in stopAt .. NumServices : service[t] = "up"
    BY <2>1 DEF WalkInv
  <2>3. RanFirst => service[stopAt] = "up"
    BY <2>1, <2>2, FiniteSets DEF Services
  <2>4. NextService(stopAt) =>
           /\ stop' \in {"services", "idle"}
           /\ stop' = "services" => stopAt' = stopAt + 1
    BY <2>1 DEF NextService
  <2>5. RanFirst => \A t \in (stopAt + 1) .. NumServices : service[t] = "up" /\ t # stopAt /\ t \in Services
    BY <2>1, <2>2, FiniteSets DEF Services
  <2>6. CASE CountService(stopAt, stopBy) /\ (servicesLeft # 1 => NextService(stopAt))
    BY <1>0, <2>1, <2>3, <2>4, <2>5, <2>6, WalkCount
  <2>7. CASE service' = [service EXCEPT ![stopAt] = "pending"] /\ NextService(stopAt) /\ UNCHANGED <<servicesLeft, hooks>>
    <3>1. (\A h : Called(h)' <=> Called(h)) /\ (GroupStops' <=> GroupStops)
      BY <2>1, <2>4, <2>7 DEF Called, GroupStops
    <3>2. service'[stopAt] = "pending" /\ \A t \in Services : t # stopAt => service'[t] = service[t]
      BY <2>1, <2>7 DEF Typed
    <3>3. RanFirst => Remaining' = Remaining
      <4>1. RanFirst => \A t \in Services : service'[t] \in {"up", "pending"} <=> service[t] \in {"up", "pending"}
        BY <2>3, <3>2
      <4> QED
        BY <4>1, CountSame DEF Remaining
    <3>4. main # "new" /\ Called("beforeStop") /\ (running => Called("stopped"))
      BY <2>1 DEF WalkInv
    <3>5. RanFirst => ~AllDown
      BY <2>1, <2>3 DEF AllDown
    <3>6. RanFirst => ~GroupStops /\ ~Called("stopped")
      BY <3>5 DEF WalkInv
    <3>7. RanFirst /\ stop' = "services" => \A t \in stopAt' .. NumServices : service'[t] = "up"
      BY <2>4, <2>5, <2>7, <3>2
    <3>8. GroupStops' => Called("servicesStopped")'
      BY <3>1 DEF WalkInv
    <3>9. RanFirst => servicesLeft' = Remaining'
      BY <2>7, <3>3 DEF WalkInv
    <3> QED
      BY <1>0, <2>1, <3>1, <3>4, <3>6, <3>7, <3>8, <3>9 DEF WalkInv
  <2> QED
    BY <1>6, <2>6, <2>7 DEF StopService
<1>7. CASE StopGroup
  <2>1. /\ UNCHANGED <<main, running, started, service, servicesLeft, hooks>>
        /\ stop = "groups" /\ stop' # "services"
    BY <1>7 DEF StopGroup, NextGroup, mainVars
  <2>2. (\A h : Called(h)' <=> Called(h)) /\ (AllDown' <=> AllDown) /\ Remaining' = Remaining
    BY <2>1 DEF Called, AllDown, Remaining
  <2>3. ~Untouched /\ GroupStops
    BY <2>1 DEF Untouched, GroupStops
  <2> QED
    BY <1>0, <2>1, <2>2, <2>3 DEF WalkInv
<1>8. ASSUME NEW s \in Services, OnServiceStopped(s)
      PROVE  WalkInv'
  <2>1. /\ service[s] = "pending" /\ CountService(s, None)
        /\ servicesLeft # 1 => UNCHANGED <<stop, stopAt>>
        /\ UNCHANGED <<main, started, running, groupRunning>>
    BY <1>8 DEF OnServiceStopped, mainVars
  <2>2. ~Untouched
    BY <2>1 DEF Untouched
  <2>3. stop = "services" /\ RanFirst => \A t \in stopAt .. NumServices : service[t] = "up" /\ t # s
    BY <2>1 DEF WalkInv
  <2> QED
    BY <1>0, <2>1, <2>2, <2>3, WalkCount
<1> QED
  BY <1>1, <1>2, <1>3, <1>4, <1>5, <1>6, <1>7, <1>8 DEF Others, Main

(* If one worker has run and all have ended, some group was stopped.       *)
LEMMA GroupsHaveStopped ==
    ASSUME Typed, SpawnInv, LatchInv, OkInv, NEW w \in Workers, OnWorkerGroupStopped(w), activeGroups = 1, RanFirst'
    PROVE  GroupStops
<1>1. UNCHANGED ok /\ pc[w] = "groupStopped" /\ hooks \in Seq(HookNames)
  BY DEF OnWorkerGroupStopped, At, Typed
<1>2. Called("stopped")'
  BY <1>1, StoppedAdds DEF OnWorkerGroupStopped
<1>3. PICK v \in Workers : ok'[v]
  BY <1>2 DEF RanFirst
<1>4. ok[v] /\ pc[v] \in Ending
  BY <1>1, <1>3 DEF LatchInv, Ending
<1>5. ~groupRunning[GroupOf[v]] /\ GroupOf[v] <= started /\ GroupOf[v] \in Groups
  BY <1>4, FiniteSets DEF OkInv, SpawnInv, Ending, Stopping, Stopped
<1> QED
  BY <1>5, FiniteSets DEF GroupStops, Groups, Typed

LEMMA WalkStep ==
    ASSUME Typed, SpawnInv, CountInv, LatchInv, WalkInv, OkInv, StoppedAfterAll, NEW w \in Workers, Step(w)
    PROVE  WalkInv'
<1>0. /\ RanFirst' => RanFirst
      /\ hooks \in Seq(HookNames)
      /\ UNCHANGED mainVars
      /\ main # "new"
  <2>1. [Next]_vars
    BY NextCases
  <2>2. pc[w] # "none" /\ UNCHANGED mainVars
    BY StepMoves
  <2>3. GroupOf[w] <= started /\ GroupOf[w] \in Groups
    BY <2>2, FiniteSets DEF SpawnInv
  <2>4. started # 0
    BY <2>3, FiniteSets DEF Groups
  <2>5. main # "new"
    BY <2>4 DEF SpawnInv
  <2> QED
    BY <2>1, <2>2, <2>5, RanStays DEF Typed
<1>1. CASE \/ Begins(w) \/ IncrementRunning(w) \/ OnWorkerStarted(w) \/ StartHandler(w)
           \/ ArriveStart(w) \/ WaitStart(w) \/ LeaveLoop(w) \/ DecrementRunning(w) \/ OnWorkerStopped(w)
           \/ StopHandler(w) \/ ArriveStop(w) \/ WaitStop(w)
  <2>1. UNCHANGED <<started, running, groupRunning, service, servicesLeft, stop, stopAt, hooks>>
    BY <1>1 DEF Begins, IncrementRunning, OnWorkerStarted, StartHandler, ArriveStart, WaitStart, LeaveLoop,
       DecrementRunning, OnWorkerStopped, StopHandler, ArriveStop, WaitStop, mainVars, stopVars
  <2>2. \A h : Called(h)' <=> Called(h)
    BY <2>1 DEF Called
  <2> QED
    BY <1>0, <2>1, <2>2, WalkFrame DEF mainVars
<1>2. CASE OnWorkerGroupStarted(w)
  <2>1. UNCHANGED <<started, running, groupRunning, service, servicesLeft, stop, stopAt>>
    BY <1>2 DEF OnWorkerGroupStarted, mainVars, stopVars
  <2>2. \A h \in {"beforeStop", "servicesStopped", "stopped"} : Called(h)' <=> Called(h)
    <3>1. hooks' = hooks \/ Call("started")
      BY <1>2 DEF OnWorkerGroupStarted
    <3> QED
      BY <1>0, <3>1, CallAdds DEF HookNames, Called
  <2> QED
    BY <1>0, <2>1, <2>2, WalkFrame DEF mainVars
<1>3. CASE StartAcceptors(w)
  <2>1. CASE UNCHANGED <<running, stopVars, hooks>>
    <3>1. \A h : Called(h)' <=> Called(h)
      BY <2>1 DEF Called
    <3> QED
      BY <1>0, <1>3, <2>1, <3>1, WalkFrame DEF StartAcceptors, mainVars, stopVars
  <2>2. CASE (running => stop = "idle") /\ Begin(w, TRUE)
    BY <1>0, <1>3, <2>2, WalkBegin DEF StartAcceptors, mainVars
  <2> QED
    BY <1>3, <2>1, <2>2 DEF StartAcceptors
<1>4. CASE SignalFailure(w)
  BY <1>0, <1>4, WalkBegin DEF SignalFailure, mainVars
<1>5. CASE OnWorkerGroupStopped(w)
  <2>1. UNCHANGED <<started, groupRunning, service, servicesLeft, stop, stopAt, ok>> /\ pc[w] = "groupStopped"
    BY <1>5 DEF OnWorkerGroupStopped, At, mainVars, stopVars
  <2>2. (GroupStops' <=> GroupStops) /\ (AllDown' <=> AllDown) /\ Remaining' = Remaining
    BY <2>1 DEF GroupStops, AllDown, Remaining
  <2>3. CASE activeGroups # 1
    <3>1. UNCHANGED <<running, hooks>>
      BY <1>5, <2>3 DEF OnWorkerGroupStopped
    <3>2. \A h : Called(h)' <=> Called(h)
      BY <3>1 DEF Called
    <3> QED
      BY <1>0, <2>1, <3>1, <3>2, WalkFrame DEF mainVars
  <2>4. CASE activeGroups = 1
    <3>1. \A h : Called(h)' <=> Called(h) \/ h = "stopped" \/ (h = "afterStop" /\ master = None)
      BY <1>0, <1>5, <2>4, StoppedAdds DEF OnWorkerGroupStopped
    <3>2. Untouched' <=> Untouched
      BY <2>1, <3>1 DEF Untouched
    <3>3. RanFirst' => AllDown
      BY <1>0, <1>5, <2>4, GroupsHaveStopped DEF WalkInv
    <3> QED
      BY <1>0, <2>1, <2>2, <3>1, <3>2, <3>3 DEF WalkInv, mainVars
  <2> QED
    BY <2>3, <2>4
<1> QED
  BY <1>1, <1>2, <1>3, <1>4, <1>5 DEF Step

(***************************************************************************)
(* The hooks in sequence.                                                  *)
(***************************************************************************)
Ordered(hs) ==
    /\ \A i, j \in DOMAIN HookSequence, n \in DOMAIN hs :
          i < j /\ hs[n] = HookSequence[j] => \E m \in 1 .. n - 1 : hs[m] = HookSequence[i]
    /\ \A m, n \in DOMAIN hs :
          hs[m] = hs[n] /\ hs[m] \notin {"beforeStop", "servicesStopped"} => m = n

LEMMA OrderedAppend ==
    ASSUME NEW hs \in Seq(HookNames), Ordered(hs), NEW k \in DOMAIN HookSequence,
           \A i \in DOMAIN HookSequence : i < k => Has(hs, HookSequence[i]),
           HookSequence[k] \notin {"beforeStop", "servicesStopped"} => ~Has(hs, HookSequence[k])
    PROVE  Ordered(Append(hs, HookSequence[k]))
<1> DEFINE x == HookSequence[k]
           t == Append(hs, x)
           L == Len(hs)
<1>1. x \in HookNames /\ DOMAIN HookSequence = 1 .. 6
  BY DEF HookSequence, HookNames
<1>2. L \in Nat /\ DOMAIN hs = 1 .. L /\ DOMAIN t = 1 .. L + 1 /\ t[L + 1] = x
      /\ \A n \in 1 .. L : t[n] = hs[n]
  <2> HIDE DEF x
  <2> QED
    BY <1>1
<1>3. \A i, j \in DOMAIN HookSequence : HookSequence[i] = HookSequence[j] => i = j
  BY DEF HookSequence
<1> HIDE DEF t, L, x
<1>4. ASSUME NEW i \in DOMAIN HookSequence, NEW j \in DOMAIN HookSequence, NEW n \in DOMAIN t,
             i < j, t[n] = HookSequence[j]
      PROVE  \E m \in 1 .. n - 1 : t[m] = HookSequence[i]
  <2>1. CASE n \in 1 .. L
    <3>1. PICK m \in 1 .. n - 1 : hs[m] = HookSequence[i]
      BY <1>2, <1>4, <2>1 DEF Ordered
    <3>2. m \in 1 .. L
      BY <1>2, <2>1, <3>1
    <3> QED
      BY <1>2, <3>1, <3>2
  <2>2. CASE n = L + 1
    <3>1. j = k
      BY <1>2, <1>3, <1>4, <2>2 DEF x
    <3>2. PICK m \in DOMAIN hs : hs[m] = HookSequence[i]
      BY <1>4, <3>1 DEF Has
    <3> QED
      BY <1>2, <2>2, <3>2
  <2> QED
    BY <1>2, <2>1, <2>2
<1>5. ASSUME NEW m \in DOMAIN t, NEW n \in DOMAIN t, t[m] = t[n], t[m] \notin {"beforeStop", "servicesStopped"}
      PROVE  m = n
  <2>1. CASE m \in 1 .. L /\ n \in 1 .. L
    BY <1>2, <1>5, <2>1 DEF Ordered
  <2>2. CASE (m = L + 1) # (n = L + 1)
    <3>1. \E l \in 1 .. L : hs[l] = x /\ x \notin {"beforeStop", "servicesStopped"}
      BY <1>2, <1>5, <2>2
    <3> QED
      BY <1>2, <3>1 DEF Has, x
  <2> QED
    BY <1>2, <2>1, <2>2
<1> QED
  BY <1>4, <1>5 DEF Ordered, t, x

LEMMA HookSequenceIs ==
    /\ DOMAIN HookSequence = 1 .. 6
    /\ HookSequence[1] = "beforeStart" /\ HookSequence[2] = "started" /\ HookSequence[3] = "beforeStop"
    /\ HookSequence[4] = "servicesStopped" /\ HookSequence[5] = "stopped" /\ HookSequence[6] = "afterStop"
BY DEF HookSequence

(* The hooks that a call of hook x needs before it, by name.               *)
LEMMA OrderedCall ==
    ASSUME NEW hs \in Seq(HookNames), Ordered(hs)
    PROVE  /\ ~Has(hs, "beforeStart") => Ordered(Append(hs, "beforeStart"))
           /\ Has(hs, "beforeStart") /\ ~Has(hs, "started") => Ordered(Append(hs, "started"))
           /\ Has(hs, "started") => Ordered(Append(hs, "beforeStop"))
           /\ Has(hs, "beforeStop") => Ordered(Append(hs, "servicesStopped"))
           /\ Has(hs, "servicesStopped") /\ ~Has(hs, "stopped") => Ordered(Append(hs, "stopped"))
           /\ Has(hs, "stopped") /\ ~Has(hs, "afterStop") => Ordered(Append(hs, "afterStop"))
<1>1. ASSUME NEW i \in 1 .. 6, NEW j \in 1 .. 6, i < j, Has(hs, HookSequence[j])
      PROVE  Has(hs, HookSequence[i])
  <2>1. PICK n \in DOMAIN hs : hs[n] = HookSequence[j]
    BY <1>1 DEF Has
  <2>2. PICK m \in 1 .. n - 1 : hs[m] = HookSequence[i]
    BY <1>1, <2>1, HookSequenceIs DEF Ordered
  <2>3. m \in DOMAIN hs
    <3>1. DOMAIN hs = 1 .. Len(hs) /\ Len(hs) \in Nat
      OBVIOUS
    <3> QED
      BY <2>1, <2>2, <3>1
  <2> QED
    BY <2>2, <2>3 DEF Has
<1>2. ASSUME NEW k \in 1 .. 6,
             k > 1 => Has(hs, HookSequence[k - 1]),
             HookSequence[k] \notin {"beforeStop", "servicesStopped"} => ~Has(hs, HookSequence[k])
      PROVE  Ordered(Append(hs, HookSequence[k]))
  <2>1. \A i \in 1 .. 6 : i < k => Has(hs, HookSequence[i])
    <3> SUFFICES ASSUME NEW i \in 1 .. 6, i < k
                 PROVE  Has(hs, HookSequence[i])
      OBVIOUS
    <3>1. CASE i = k - 1
      BY <1>2, <3>1
    <3>2. CASE i < k - 1
      BY <1>1, <1>2, <3>2
    <3> QED
      BY <3>1, <3>2
  <2> QED
    BY <1>2, <2>1, OrderedAppend, HookSequenceIs
<1>3. ~Has(hs, "beforeStart") => Ordered(Append(hs, "beforeStart"))
  BY <1>2, HookSequenceIs
<1>4. Has(hs, "beforeStart") /\ ~Has(hs, "started") => Ordered(Append(hs, "started"))
  BY <1>2, HookSequenceIs
<1>5. Has(hs, "started") => Ordered(Append(hs, "beforeStop"))
  BY <1>2, HookSequenceIs
<1>6. Has(hs, "beforeStop") => Ordered(Append(hs, "servicesStopped"))
  BY <1>2, HookSequenceIs
<1>7. Has(hs, "servicesStopped") /\ ~Has(hs, "stopped") => Ordered(Append(hs, "stopped"))
  BY <1>2, HookSequenceIs
<1>8. Has(hs, "stopped") /\ ~Has(hs, "afterStop") => Ordered(Append(hs, "afterStop"))
  BY <1>2, HookSequenceIs
<1> QED
  BY <1>3, <1>4, <1>5, <1>6, <1>7, <1>8

(***************************************************************************)
(* Which hooks were called, and when.                                      *)
(***************************************************************************)
LEMMA OthersHooks ==
    ASSUME Typed, Others
    PROVE  /\ \A h \in {"started", "stopped"} : Called(h)' <=> Called(h)
           /\ Called("afterStop")' => Called("afterStop") \/ (master # None /\ main' = "final")
           /\ main = "final" => main' = "final"
           /\ main' # "new" => main # "new" \/ Called("beforeStart")'
<1>0. hooks \in Seq(HookNames)
  BY DEF Typed
<1>1. hooks' = hooks => \A h : Called(h)' <=> Called(h)
  BY DEF Called
<1>2. \A x \in HookNames : Call(x) => \A h : Called(h)' <=> Called(h) \/ h = x
  BY <1>0, CallAdds
<1>3. \A by, force : Begin(by, force) =>
         \A h \in HookNames \ {"beforeStop", "servicesStopped"} : Called(h)' <=> Called(h)
  BY <1>0, <1>1, BeginWays
<1>4. CASE StartServer
  BY <1>2, <1>4 DEF StartServer, HookNames
<1>5. CASE JoinAllGroups
  BY <1>1, <1>2, <1>5 DEF JoinAllGroups, HookNames
<1>6. CASE StartGroup \/ RunMaster \/ StopGroup \/ UNCHANGED vars
  BY <1>1, <1>6 DEF StartGroup, RunMaster, StopGroup, vars, mainVars
<1>7. CASE \E force \in BOOLEAN : SignalToStop(force)
  BY <1>3, <1>7 DEF SignalToStop, mainVars, HookNames
<1>8. CASE StopService \/ \E s \in Services : OnServiceStopped(s)
  BY <1>1, <1>2, <1>8 DEF StopService, OnServiceStopped, CountService, mainVars, HookNames
<1> QED
  BY <1>4, <1>5, <1>6, <1>7, <1>8 DEF Others, Main

LEMMA StepHooks ==
    ASSUME Typed, NEW w \in Workers, Step(w), ~OnWorkerGroupStarted(w), ~OnWorkerGroupStopped(w)
    PROVE  /\ \A h \in HookNames \ {"beforeStop", "servicesStopped"} : Called(h)' <=> Called(h)
           /\ activeGroups' = activeGroups
           /\ ~ArriveStart(w) => startup' = startup
           /\ ~ArriveStop(w) => shutdown' = shutdown
<1>0. hooks \in Seq(HookNames)
  BY DEF Typed
<1>1. hooks' = hooks => \A h : Called(h)' <=> Called(h)
  BY DEF Called
<1>2. \A by, force : Begin(by, force) =>
         \A h \in HookNames \ {"beforeStop", "servicesStopped"} : Called(h)' <=> Called(h)
  BY <1>0, <1>1, BeginWays
<1>3. hooks' = hooks \/ Begin(w, TRUE)
  BY DEF Step, Begins, IncrementRunning, OnWorkerStarted, StartHandler, StartAcceptors,
     ArriveStart, WaitStart, LeaveLoop, SignalFailure, DecrementRunning,
     OnWorkerStopped, StopHandler, ArriveStop, WaitStop
<1>4. /\ activeGroups' = activeGroups
      /\ ~ArriveStart(w) => startup' = startup
      /\ ~ArriveStop(w) => shutdown' = shutdown
  BY DEF Step, Begins, IncrementRunning, OnWorkerStarted, StartHandler, StartAcceptors,
     ArriveStart, WaitStart, LeaveLoop, SignalFailure, DecrementRunning,
     OnWorkerStopped, StopHandler, ArriveStop, WaitStop, counters
<1> QED
  BY <1>1, <1>2, <1>3, <1>4

LEMMA CalledInit == Init => CalledInv
<1>1. Cardinality(Workers) # 0
  BY FiniteSets, FS_EmptySet
<1> QED
  BY <1>1, FiniteSets DEF Init, CalledInv, Called

LEMMA CalledOthers ==
    ASSUME Typed, SpawnInv, CalledInv, Others
    PROVE  CalledInv'
<1>1. Spawns
  BY OthersSpawn
<1>2. \A h : Called(h) => Called(h)'
  BY CalledStays, NextCases
<1> QED
  BY <1>1, <1>2, OthersHooks DEF CalledInv, Spawns, AllStart, AllStop

LEMMA CalledStep ==
    ASSUME Typed, SpawnInv, CountInv, LatchInv, LastInv, GroupsInv, CalledInv, StoppedAfterAll,
           NEW w \in Workers, Step(w), Typed', CountInv'
    PROVE  CalledInv'
<1>1. UNCHANGED mainVars
  BY StepMoves
<1>2. (AllStart' <=> AllStart) /\ (AllStop' <=> AllStop) /\ (AllStop => AllStart)
  BY <1>1 DEF AllStart, AllStop, mainVars
<1>3. hooks \in Seq(HookNames) /\ activeGroups \in Int /\ shutdown \in Int /\ startup \in Int
      /\ \A h : Called(h) => Called(h)'
  BY CalledStays, NextCases DEF Typed
<1>4. CASE OnWorkerGroupStarted(w)
  <2>1. activeGroups < NumGroups /\ startup > 0
    BY <1>4, GroupsStarted
  <2>2. /\ pc[w] = "groupStarted" /\ activeGroups' = activeGroups + 1 /\ UNCHANGED <<startup, shutdown>>
        /\ \/ activeGroups + 1 # NumGroups /\ hooks' = hooks
           \/ activeGroups + 1 = NumGroups /\ Call("started")
    BY <1>4 DEF OnWorkerGroupStarted, At
  <2>3. Called("started")' <=> Called("started") \/ activeGroups + 1 = NumGroups
    BY <1>3, <2>2, CallAdds DEF HookNames, Called
  <2>4. (Called("stopped")' <=> Called("stopped")) /\ (Called("afterStop")' <=> Called("afterStop"))
    BY <1>3, <2>2, CallAdds DEF HookNames, Called
  <2>5. ~Called("stopped") /\ shutdown # 0
    BY <2>2, ShutdownZero DEF StoppedAfterAll, Stopped
  <2>6. ~Called("started")
    BY <1>3, <2>1, FiniteSets DEF CalledInv
  <2> QED
    BY <1>1, <1>2, <1>3, <2>1, <2>2, <2>3, <2>4, <2>5, <2>6 DEF CalledInv, mainVars
<1>5. CASE OnWorkerGroupStopped(w)
  <2>1. startup = 0
    BY <1>5, GroupsStopped
  <2>2. /\ activeGroups' = activeGroups - 1 /\ UNCHANGED <<startup, shutdown>>
        /\ \/ activeGroups # 1 /\ hooks' = hooks
           \/ activeGroups = 1 /\ hooks' = hooks \o (IF master = None THEN <<"stopped", "afterStop">> ELSE <<"stopped">>)
    BY <1>5 DEF OnWorkerGroupStopped
  <2>3. /\ Called("stopped")' <=> Called("stopped") \/ activeGroups = 1
        /\ Called("afterStop")' => \/ Called("afterStop")
                                   \/ activeGroups = 1 /\ master = None
    BY <1>3, <2>2, StoppedAdds DEF Called
  <2> QED
    BY <1>1, <1>2, <1>3, <2>1, <2>2, <2>3 DEF CalledInv, mainVars
<1>6. CASE ~OnWorkerGroupStarted(w) /\ ~OnWorkerGroupStopped(w)
  <2>1. \A h \in HookNames \ {"beforeStop", "servicesStopped"} : Called(h)' <=> Called(h)
    BY <1>6, StepHooks
  <2>2. /\ Called("beforeStart")' <=> Called("beforeStart")
        /\ Called("started")' <=> Called("started")
        /\ Called("stopped")' <=> Called("stopped")
        /\ Called("afterStop")' <=> Called("afterStop")
    BY <2>1 DEF HookNames
  <2>3. activeGroups' = activeGroups
    BY <1>6, StepHooks
  <2>4. CASE ArriveStart(w)
    <3>1. startup # 0 /\ shutdown' = shutdown
      <4>1. pc[w] = "arriveStart"
        BY <2>4 DEF ArriveStart, At
      <4> QED
        BY <2>4, <4>1, StartupZero DEF ArriveStart, Starting
    <3>2. startup' = 0 /\ AllStart => activeGroups = NumGroups
      BY <2>4, GroupsArrive
    <3> QED
      BY <1>1, <1>2, <2>2, <2>3, <3>1, <3>2 DEF CalledInv, mainVars
  <2>5. CASE ArriveStop(w)
    <3>1. AllStop => activeGroups = NumGroups
      BY <2>5, GroupsArriveStop
    <3>2. startup' = startup
      BY <2>5 DEF ArriveStop
    <3> QED
      BY <1>1, <1>2, <2>2, <2>3, <3>1, <3>2, FiniteSets DEF CalledInv, mainVars
  <2>6. CASE ~ArriveStart(w) /\ ~ArriveStop(w)
    <3>1. startup' = startup /\ shutdown' = shutdown
      BY <1>6, <2>6, StepHooks
    <3> QED
      BY <1>1, <1>2, <2>2, <2>3, <3>1 DEF CalledInv, mainVars
  <2> QED
    BY <2>4, <2>5, <2>6
<1> QED
  BY <1>4, <1>5, <1>6

(***************************************************************************)
(* OnServerStopped comes once and after all the workers.                   *)
(***************************************************************************)
Once(hs) == \A i, j \in DOMAIN hs : hs[i] = "stopped" /\ hs[j] = "stopped" => i = j

LEMMA OnceAppend ==
    ASSUME NEW hs \in Seq(HookNames), Once(hs), NEW x \in HookNames, x # "stopped" \/ ~Has(hs, "stopped")
    PROVE  Once(Append(hs, x))
<1>1. Len(hs) \in Nat /\ DOMAIN hs = 1 .. Len(hs) /\ DOMAIN Append(hs, x) = 1 .. Len(hs) + 1
      /\ Append(hs, x)[Len(hs) + 1] = x
      /\ \A i \in 1 .. Len(hs) : Append(hs, x)[i] = hs[i]
  OBVIOUS
<1>2. \A i \in 1 .. Len(hs) + 1 : i \in 1 .. Len(hs) \/ i = Len(hs) + 1
  BY <1>1
<1> DEFINE t == Append(hs, x)
<1> HIDE DEF t
<1>3. DOMAIN t = 1 .. Len(hs) + 1 /\ t[Len(hs) + 1] = x /\ \A i \in 1 .. Len(hs) : t[i] = hs[i]
  BY <1>1 DEF t
<1>4. Once(t)
  BY <1>1, <1>2, <1>3 DEF Once, Has
<1> QED
  BY <1>4 DEF t

LEMMA OnceStep ==
    ASSUME Typed, CalledInv, Once(hooks), [Next]_vars
    PROVE  Once(hooks')
<1>0. /\ hooks \in Seq(HookNames)
      /\ \A h : Called(h) <=> Has(hooks, h)
  BY DEF Typed, Called, Has
<1>1. ASSUME NEW x \in HookNames \ {"stopped"}, Call(x)
      PROVE  Once(hooks')
  BY <1>0, <1>1, OnceAppend DEF Call
<1>2. ASSUME NEW by, NEW force, Begin(by, force)
      PROVE  Once(hooks')
  <2>1. Append(hooks, "beforeStop") \in Seq(HookNames) /\ Once(Append(hooks, "beforeStop"))
    BY <1>0, HasAppend, OnceAppend DEF HookNames
  <2>2. Once(Append(Append(hooks, "beforeStop"), "servicesStopped"))
    BY <2>1, OnceAppend DEF HookNames
  <2> QED
    BY <1>0, <1>2, <2>1, <2>2, BeginWays
<1>3. CASE Others
  BY <1>1, <1>2, <1>3 DEF Others, Main, StartServer, StartGroup, RunMaster, JoinAllGroups, SignalToStop, StopService,
     StopGroup, OnServiceStopped, CountService, vars, HookNames
<1>4. ASSUME NEW w \in Workers, OnWorkerGroupStopped(w)
      PROVE  Once(hooks')
  <2>1. CASE activeGroups # 1
    BY <1>4, <2>1 DEF OnWorkerGroupStopped
  <2>2. CASE activeGroups = 1
    <3>1. ~Has(hooks, "stopped")
      BY <1>0, <2>2 DEF CalledInv
    <3>2. Append(hooks, "stopped") \in Seq(HookNames) /\ Once(Append(hooks, "stopped"))
      BY <1>0, <3>1, HasAppend, OnceAppend DEF HookNames
    <3>3. Once(Append(Append(hooks, "stopped"), "afterStop"))
      BY <3>2, OnceAppend DEF HookNames
    <3>4. hooks' = IF master = None THEN Append(Append(hooks, "stopped"), "afterStop") ELSE Append(hooks, "stopped")
      BY <1>0, <1>4, <2>2, StoppedAdds DEF OnWorkerGroupStopped
    <3> QED
      BY <3>2, <3>3, <3>4
  <2> QED
    BY <2>1, <2>2
<1>5. ASSUME NEW w \in Workers, Step(w), ~OnWorkerGroupStopped(w)
      PROVE  Once(hooks')
  <2>1. hooks' = hooks \/ Begin(w, TRUE) \/ Call("started")
    BY <1>5 DEF Step, Begins, IncrementRunning, OnWorkerStarted, StartHandler, StartAcceptors,
       OnWorkerGroupStarted, ArriveStart, WaitStart, LeaveLoop, SignalFailure, DecrementRunning,
       OnWorkerStopped, StopHandler, ArriveStop, WaitStop
  <2> QED
    BY <1>1, <1>2, <2>1 DEF HookNames
<1> QED
  BY <1>3, <1>4, <1>5, NextCases

LEMMA AfterAllInit == Init => StoppedAfterAll
BY DEF Init, StoppedAfterAll, Called

LEMMA AfterAllStep ==
    ASSUME Typed, SpawnInv, CountInv, LatchInv, CalledInv, StoppedAfterAll, [Next]_vars
    PROVE  StoppedAfterAll'
<1>1. Called("stopped")' => \A w \in Workers : pc'[w] \in Stopped
  <2>1. CASE Others
    <3>1. Spawns /\ (Called("stopped")' <=> Called("stopped"))
      BY <2>1, OthersSpawn, OthersHooks
    <3> QED
      BY <3>1 DEF Spawns, StoppedAfterAll, Stopped
  <2>2. ASSUME NEW w \in Workers, Step(w), Called("stopped")'
        PROVE  \A v \in Workers : pc'[v] \in Stopped
    <3>1. \A v \in Workers : pc[v] \in Stopped
      <4>1. CASE OnWorkerGroupStopped(w)
        BY <4>1 DEF OnWorkerGroupStopped, At, LatchInv
      <4>2. CASE OnWorkerGroupStarted(w)
        <5>1. hooks \in Seq(HookNames) /\ (hooks' = hooks \/ Call("started"))
          BY <4>2 DEF OnWorkerGroupStarted, Typed
        <5>2. Called("stopped")
          BY <2>2, <5>1, CallAdds DEF HookNames, Called
        <5> QED
          BY <5>2 DEF StoppedAfterAll
      <4>3. CASE ~OnWorkerGroupStopped(w) /\ ~OnWorkerGroupStarted(w)
        BY <2>2, <4>3, StepHooks DEF StoppedAfterAll, HookNames
      <4> QED
        BY <4>1, <4>2, <4>3
    <3> QED
      BY <2>2, <3>1, StepClasses, StepMoves
  <2> QED
    BY <2>1, <2>2, NextCases
<1>2. CASE Called("stopped")
  <2>1. Once(hooks)
    BY <1>2 DEF StoppedAfterAll, Once
  <2>2. Once(hooks')
    BY <2>1, OnceStep
  <2> QED
    BY <1>1, <2>2 DEF StoppedAfterAll, Once
<1>3. CASE ~Called("stopped")
  <2>1. Once(hooks)
    BY <1>3 DEF Called, Once
  <2>2. Once(hooks')
    BY <2>1, OnceStep
  <2> QED
    BY <1>1, <2>2 DEF StoppedAfterAll, Once
<1> QED
  BY <1>2, <1>3

(***************************************************************************)
(* The hooks stay in sequence.                                             *)
(***************************************************************************)
Orderly == Only({"beforeStart", "serverStart", "beforeStop"})

LEMMA SequenceIsOrdered == (InSequence <=> Ordered(hooks)) /\ \A h : Called(h) <=> Has(hooks, h)
BY DEF InSequence, Ordered, Called, Has

LEMMA OrderlyMeans ==
    ASSUME Orderly
    PROVE  /\ AllStart /\ AllStop
           /\ "threadInit" \notin faults /\ "acceptor" \notin faults /\ "earlyStop" \notin faults
           /\ "stopHandler" \notin faults
BY DEF Orderly, Only, AllStart, AllStop

LEMMA BeginInTurn ==
    ASSUME Typed, Ordered(hooks), NEW by, NEW force, Begin(by, force), Called("started")
    PROVE  Ordered(hooks')
<1>1. hooks \in Seq(HookNames) /\ Has(hooks, "started")
  BY SequenceIsOrdered DEF Typed
<1>2. Ordered(Append(hooks, "beforeStop"))
  BY <1>1, OrderedCall
<1>3. Append(hooks, "beforeStop") \in Seq(HookNames) /\ Has(Append(hooks, "beforeStop"), "beforeStop")
  BY <1>1, HasAppend DEF HookNames
<1>4. Ordered(Append(Append(hooks, "beforeStop"), "servicesStopped"))
  BY <1>2, <1>3, OrderedCall
<1> QED
  BY <1>1, <1>2, <1>4, BeginWays

(* All are gone only after OnServerStopped.                                *)
LEMMA JoinedAfterStop ==
    ASSUME Typed, SpawnInv, CountInv, LastInv, GroupsInv, CalledInv, AllStop, "threadInit" \notin faults,
           \A w \in Workers : pc[w] \in {"gone", "dead"}
    PROVE  Called("stopped")
<1>1. \A w \in Workers : pc[w] = "gone"
  BY DEF SpawnInv
<1>2. startup = 0 /\ shutdown = 0
  BY <1>1, StartupZero, ShutdownZero DEF AllStop, Stopped, BeforeCount, Starting
<1>3. \A g \in Groups : g \in CountedOut
  <2> TAKE g \in Groups
  <2>1. PICK w \in Members(g) : last[w]
    BY <1>1, FiniteSets DEF LastInv, Ending, Stopped
  <2> QED
    BY <1>1, <2>1, FiniteSets DEF CountedOut, Ended
<1>4. Groups \ CountedOut = {}
  BY <1>3
<1>5. activeGroups = 0
  BY <1>2, <1>4, FS_EmptySet DEF GroupsInv
<1> QED
  BY <1>2, <1>5 DEF CalledInv

LEMMA InTurnInit == Init => InTurn
BY DEF Init, InTurn, InSequence

LEMMA InTurnStep ==
    ASSUME Typed, SpawnInv, CountInv, LatchInv, LastInv, GroupsInv, WalkInv, OkInv, HookInv, [Next]_vars
    PROVE  InTurn'
<1>0. CalledInv /\ StoppedAfterAll /\ InTurn
  BY DEF HookInv
<1>1. faults' = faults
  <2>1. Others => faults' = faults
    BY OthersSpawn DEF Spawns
  <2>2. \A w \in Workers : Step(w) => faults' = faults
    BY StepMoves DEF mainVars
  <2> QED
    BY <2>1, <2>2, NextCases
<1> SUFFICES ASSUME RanFirst', Orderly
             PROVE  Ordered(hooks')
  <2>1. InSequence' <=> Ordered(hooks')
    BY DEF InSequence, Ordered
  <2> QED
    BY <1>1, <2>1 DEF InTurn, Orderly, Only
<1>2. RanFirst
  BY <1>0, RanStays
<1>3. /\ hooks \in Seq(HookNames) /\ Ordered(hooks)
      /\ \A h : Called(h) <=> Has(hooks, h)
  BY <1>0, <1>2, SequenceIsOrdered DEF InTurn, Orderly, Typed
<1>4. CASE StartServer
  <2>1. hooks = <<>> /\ Call("beforeStart")
    BY <1>4 DEF StartServer, WalkInv
  <2>2. ~Has(hooks, "beforeStart")
    BY <2>1 DEF Has
  <2>3. Ordered(Append(hooks, "beforeStart"))
    BY <1>3, <2>2, OrderedCall
  <2> QED
    BY <2>1, <2>3 DEF Call
<1>5. CASE JoinAllGroups
  <2>1. CASE hooks' = hooks
    BY <1>3, <2>1
  <2>2. CASE master # None /\ Call("afterStop")
    <3>1. Called("stopped")
      BY <1>0, <1>5, JoinedAfterStop, OrderlyMeans DEF JoinAllGroups
    <3>2. ~Called("afterStop")
      BY <1>0, <1>5, <2>2 DEF JoinAllGroups, CalledInv
    <3> QED
      BY <1>3, <2>2, <3>1, <3>2, OrderedCall DEF Call
  <2> QED
    BY <1>5, <2>1, <2>2 DEF JoinAllGroups
<1>6. CASE StartGroup \/ RunMaster \/ StopGroup \/ UNCHANGED vars
  BY <1>3, <1>6 DEF StartGroup, RunMaster, StopGroup, vars
<1>7. ASSUME NEW force \in BOOLEAN, SignalToStop(force)
      PROVE  Ordered(hooks')
  BY <1>3, <1>7, BeginInTurn, OrderlyMeans DEF SignalToStop
<1>8. ASSUME StopService \/ \E s \in Services : OnServiceStopped(s)
      PROVE  Ordered(hooks')
  <2>1. hooks' = hooks \/ Call("servicesStopped")
    BY <1>8 DEF StopService, OnServiceStopped, CountService
  <2>2. ~Untouched
    BY <1>8 DEF StopService, OnServiceStopped, Untouched
  <2>3. Called("beforeStop")
    BY <2>2 DEF WalkInv
  <2> QED
    BY <1>3, <2>1, <2>3, OrderedCall DEF Call
<1>9. ASSUME NEW w \in Workers, OnWorkerGroupStarted(w)
      PROVE  Ordered(hooks')
  <2>1. Step(w)
    BY <1>9 DEF Step
  <2>2. pc[w] # "none" /\ GroupOf[w] \in Groups
    BY <2>1, StepMoves, FiniteSets
  <2>3. started # 0
    BY <2>2, FiniteSets DEF SpawnInv, Groups
  <2>4. Called("beforeStart")
    BY <1>0, <2>3 DEF SpawnInv, CalledInv
  <2>5. ~Called("started")
    <3>1. activeGroups < NumGroups /\ startup > 0
      BY <1>9, GroupsStarted
    <3>2. activeGroups # NumGroups /\ startup # 0
      BY <3>1, FiniteSets DEF Typed
    <3> QED
      BY <1>0, <3>2 DEF CalledInv
  <2>6. hooks' = hooks \/ Call("started")
    BY <1>9 DEF OnWorkerGroupStarted
  <2> QED
    BY <1>3, <2>4, <2>5, <2>6, OrderedCall DEF Call
<1>10. ASSUME NEW w \in Workers, StartAcceptors(w)
       PROVE  Ordered(hooks')
  BY <1>3, <1>10, OrderlyMeans DEF StartAcceptors
<1>11. ASSUME NEW w \in Workers, SignalFailure(w)
       PROVE  Ordered(hooks')
  <2>1. pc[w] = "signal" /\ Begin(w, TRUE)
    BY <1>11 DEF SignalFailure, At
  <2>2. startup = 0
    BY <2>1, LateMeansStarted DEF Running
  <2>3. Called("started")
    BY <1>0, <2>2, OrderlyMeans DEF CalledInv
  <2> QED
    BY <1>3, <2>1, <2>3, BeginInTurn
<1>12. ASSUME NEW w \in Workers, OnWorkerGroupStopped(w)
       PROVE  Ordered(hooks')
  <2>1. CASE activeGroups # 1
    BY <1>3, <1>12, <2>1 DEF OnWorkerGroupStopped
  <2>2. CASE activeGroups = 1
    <3>1. Called("servicesStopped")
      BY <1>12, <2>2, GroupsHaveStopped DEF WalkInv
    <3>2. ~Called("stopped")
      BY <1>0, <2>2 DEF CalledInv
    <3>3. Ordered(Append(hooks, "stopped"))
      BY <1>3, <3>1, <3>2, OrderedCall
    <3>4. /\ Append(hooks, "stopped") \in Seq(HookNames)
          /\ Has(Append(hooks, "stopped"), "stopped")
          /\ Has(Append(hooks, "stopped"), "afterStop") <=> Has(hooks, "afterStop")
      BY <1>3, HasAppend DEF HookNames
    <3>5. master = None => Ordered(Append(Append(hooks, "stopped"), "afterStop"))
      <4>1. master = None => ~Has(hooks, "afterStop")
        BY <1>0, <1>3, <3>2 DEF CalledInv
      <4> QED
        BY <3>3, <3>4, <4>1, OrderedCall
    <3>6. hooks' = IF master = None THEN Append(Append(hooks, "stopped"), "afterStop") ELSE Append(hooks, "stopped")
      BY <1>3, <1>12, <2>2, StoppedAdds DEF OnWorkerGroupStopped
    <3> QED
      BY <3>3, <3>5, <3>6
  <2> QED
    BY <2>1, <2>2
<1>13. ASSUME NEW w \in Workers,
              \/ Begins(w) \/ IncrementRunning(w) \/ OnWorkerStarted(w) \/ StartHandler(w)
              \/ ArriveStart(w) \/ WaitStart(w) \/ LeaveLoop(w) \/ DecrementRunning(w) \/ OnWorkerStopped(w)
              \/ StopHandler(w) \/ ArriveStop(w) \/ WaitStop(w)
       PROVE  Ordered(hooks')
  <2>1. hooks' = hooks
    BY <1>13 DEF Begins, IncrementRunning, OnWorkerStarted, StartHandler, ArriveStart, WaitStart, LeaveLoop,
       DecrementRunning, OnWorkerStopped, StopHandler, ArriveStop, WaitStop
  <2> QED
    BY <1>3, <2>1
<1>14. CASE Others
  BY <1>4, <1>5, <1>6, <1>7, <1>8, <1>14 DEF Others, Main
<1>15. ASSUME NEW w \in Workers, Step(w)
       PROVE  Ordered(hooks')
  BY <1>9, <1>10, <1>11, <1>12, <1>13, <1>15 DEF Step
<1> QED
  BY <1>14, <1>15, NextCases

(***************************************************************************)
(* The invariant.                                                          *)
(***************************************************************************)
LEMMA IInvInit == Init => IInv
BY TypedInit, SpawnInit, CountInit, LatchInit, LastInit, GroupsInit, WalkInit, OkInit,
   CalledInit, AfterAllInit, InTurnInit DEF IInv, HookInv

LEMMA IInvNext == IInv /\ [Next]_vars => IInv'
<1> SUFFICES ASSUME IInv, [Next]_vars PROVE IInv'
  OBVIOUS
<1>1. /\ Typed /\ SpawnInv /\ CountInv /\ LatchInv /\ LastInv /\ GroupsInv /\ WalkInv /\ OkInv /\ HookInv
      /\ CalledInv /\ StoppedAfterAll
  BY DEF IInv, HookInv
<1>2. SpawnInv' /\ StoppedAfterAll' /\ InTurn'
  BY <1>1, SpawnStep, AfterAllStep, InTurnStep
<1>3. CASE Others
  <2>1. Spawns
    BY <1>1, <1>3, OthersSpawn
  <2>2. Typed'
    <3>1. CASE UNCHANGED vars
      BY <1>1, <3>1 DEF Typed, vars, mainVars, counters, workerVars, stopVars
    <3> QED
      BY <1>1, <1>3, <3>1, TypedOthers DEF Others
  <2>3. CountInv' /\ LatchInv' /\ LastInv' /\ GroupsInv'
    BY <1>1, <2>1, CountOthers, LatchOthers, LastOthers, GroupsOthers
  <2>4. WalkInv' /\ OkInv' /\ CalledInv'
    BY <1>1, <1>3, <2>2, WalkOthers, OkOthers, CalledOthers
  <2> QED
    BY <1>2, <2>2, <2>3, <2>4 DEF IInv, HookInv
<1>4. ASSUME NEW w \in Workers, Step(w)
      PROVE  IInv'
  <2>1. Typed' /\ CountInv'
    BY <1>1, <1>4, TypedStep, CountStep
  <2>2. LatchInv' /\ LastInv' /\ GroupsInv'
    BY <1>1, <1>4, <2>1, LatchStep, LastStep, GroupsStep
  <2>3. WalkInv' /\ OkInv' /\ CalledInv'
    BY <1>1, <1>4, <2>1, WalkStep, OkStep, CalledStep
  <2> QED
    BY <1>2, <2>1, <2>2, <2>3 DEF IInv, HookInv
<1> QED
  BY <1>3, <1>4, NextCases

(* In every reachable state the parts of the invariant hold: it is what    *)
(* ServerInstance, WorkerGroup and Worker keep of each other.              *)
THEOREM Inductive == Spec => []IInv
<1>1. IInv /\ UNCHANGED vars => IInv'
  BY IInvNext
<1> QED
  BY IInvInit, IInvNext, PTL DEF Spec

LEMMA IInvGivesCounters == IInv => CountersInv
<1> SUFFICES ASSUME IInv PROVE CountersInv
  OBVIOUS
<1>1. Typed /\ CountInv /\ LatchInv /\ GroupsInv /\ WalkInv
  BY DEF IInv
<1>2. TypeOK
  <2>1. \A g \in Groups : runningWorkers[g] \in 0 .. Cardinality(Workers)
    <3> TAKE g \in Groups
    <3>1. CountIn(Members(g), pc, Up) \in 0 .. Cardinality(Members(g)) /\ Cardinality(Members(g)) \in Nat
      BY FiniteSets, CountType, FS_CardinalityType
    <3>2. Cardinality(Members(g)) <= Cardinality(Workers)
      BY FiniteSets, FS_Subset
    <3> QED
      BY <1>1, <3>1, <3>2, FiniteSets DEF CountInv
  <2>2. runningWorkers \in [Groups -> 0 .. Cardinality(Workers)]
    BY <1>1, <2>1 DEF Typed
  <2>3. activeGroups \in -NumGroups .. NumGroups
    <3>1. Cardinality(CountedIn) \in 0 .. NumGroups /\ Cardinality(CountedOut) \in 0 .. NumGroups
      BY GroupSets DEF GroupSetsFinite
    <3>2. activeGroups \in Int /\ startup \in Int /\ startup >= 0
      BY <1>1, StartupZero, FiniteSets DEF Typed
    <3>3. activeGroups <= NumGroups /\ -NumGroups <= activeGroups
      BY <1>1, <3>1, <3>2, FiniteSets DEF GroupsInv
    <3> QED
      BY <3>2, <3>3, FiniteSets
  <2>4. totalRunning \in -Cardinality(Workers) .. Cardinality(Workers)
    <3>1. CountIn(Workers, pc, Totalled) \in 0 .. Cardinality(Workers)
          /\ CountIn(Workers, pc, Untotalled) \in 0 .. Cardinality(Workers)
      BY FiniteSets, CountType
    <3>2. totalRunning \in Int /\ totalRunning <= CountIn(Workers, pc, Totalled)
          /\ -totalRunning <= CountIn(Workers, pc, Untotalled)
      BY <1>1 DEF Typed, CountInv
    <3> QED
      BY <3>1, <3>2, FiniteSets
  <2>5. startup \in 0 .. Cardinality(Workers) /\ shutdown \in 0 .. Cardinality(Workers)
    BY <1>1, StartupZero, ShutdownZero
  <2>6. pc \in [Workers -> BeforeCount \cup Starting \cup Running \cup Stopping \cup Stopped]
    <3>1. Labels = BeforeCount \cup Starting \cup Running \cup Stopping \cup Stopped
      BY DEF Labels, Up, Ending
    <3> QED
      BY <1>1, <3>1 DEF Typed
  <2>7. \A i \in DOMAIN hooks : hooks[i] \in
           {"beforeStart", "started", "beforeStop", "servicesStopped", "stopped", "afterStop"}
    BY <1>1 DEF Typed, HookNames
  <2> QED
    BY <1>1, <2>2, <2>3, <2>4, <2>5, <2>6, <2>7 DEF Typed, TypeOK
<1>3. ASSUME Only({"beforeStart", "threadInit", "acceptor", "serverStart", "beforeStop", "earlyStop"})
      PROVE  CountsExact
  <2>1. AllStart /\ AllStop /\ "workerStart" \notin faults /\ "stopHandler" \notin faults
    BY <1>3 DEF Only, AllStart, AllStop
  <2>2. \A w \in Workers : pc[w] \in Labels
    BY <1>1 DEF Typed
  <2>3. \A g \in Groups : runningWorkers[g] = Cardinality({w \in Members(g) : pc[w] \in Starting \cup Running})
    BY <1>1 DEF CountInv, CountIn, Up
  <2>4. totalRunning = Cardinality({w \in Workers : pc[w] \in (Starting \ {"started"}) \cup Running \cup {"stopped"}})
    BY <1>1, <2>1 DEF CountInv, CountIn, Totalled
  <2>5. startup = Cardinality({w \in Workers : pc[w] \in BeforeCount \cup Starting})
    BY <1>1 DEF CountInv, CountIn
  <2>6. shutdown = Cardinality({w \in Workers : pc[w] \notin Stopped})
    <3>1. {w \in Workers : pc[w] \notin Stopped} = {w \in Workers : pc[w] \in Labels \ Stopped}
      BY <2>2
    <3> QED
      BY <1>1, <2>1, <3>1 DEF CountInv, CountIn
  <2>7. RanFirst => servicesLeft = Cardinality({s \in Services : service[s] # "down"})
    <3>1. {s \in Services : service[s] # "down"} = {s \in Services : service[s] \in {"up", "pending"}}
      BY <1>1 DEF Typed
    <3> QED
      BY <1>1, <3>1 DEF WalkInv, Remaining, CountIn
  <2>8. startup = 0 /\ shutdown > 0 => activeGroups = NumGroups
    BY <1>1, <2>1 DEF GroupsInv
  <2>9. shutdown = 0 => activeGroups = Cardinality({g \in Groups : ~Ended(g)})
    <3>1. shutdown = 0 => startup = 0
      BY <1>1, StartupZero, ShutdownZero DEF BeforeCount, Starting, Stopped
    <3>2. {g \in Groups : ~Ended(g)} = Groups \ CountedOut
      BY DEF CountedOut
    <3> QED
      BY <1>1, <2>1, <3>1, <3>2 DEF GroupsInv
  <2> QED
    BY <2>3, <2>4, <2>5, <2>6, <2>7, <2>8, <2>9 DEF CountsExact
<1> QED
  BY <1>2, <1>3 DEF CountersInv

(* The counters of ServerInstance and WorkerGroup and the two latches, for *)
(* any number of workers, groups and services, whatever calls may fail.    *)
THEOREM CountersCount == Spec => []CountersInv
BY Inductive, IInvGivesCounters, PTL

LEMMA IInvGivesOrder == IInv => HookOrder
<1> SUFFICES ASSUME IInv PROVE HookOrder
  OBVIOUS
<1>1. StartBarrier /\ StoppedAfterAll /\ WalkInv /\ InTurn
  BY DEF IInv, LatchInv, HookInv
<1>2. RanFirst => ServicesFirst
  BY <1>1 DEF WalkInv, GroupStops, ServicesFirst, AllDown
<1> QED
  BY <1>1, <1>2 DEF HookOrder, InTurn

(* The hooks of a server come in the order that Worker::RunImpl and        *)
(* ServerInstance mean, for any number of workers, groups and services.    *)
THEOREM HooksInOrder == Spec => []HookOrder
BY Inductive, IInvGivesOrder, PTL

(***************************************************************************)
(* The promises of ServerLifetime.                                         *)
(***************************************************************************)
InLoop == {w \in Workers : Followed /\ pc[w] = "run"}
Gone   == {w \in Workers : Followed /\ pc[w] \in {"decrement"} \cup Stopping \cup Stopped}

(* In the behaviours that are followed no stop is signalled before the     *)
(* start, and the server stops only because it was told to.                *)
FollowInv ==
    Followed => /\ Called("beforeStop") => Called("started")
                /\ Called("stopped") => Called("beforeStop")

LEMMA FollowedMeans ==
    ASSUME Followed
    PROVE  /\ AllStart /\ "serverStart" \notin faults /\ "acceptor" \notin faults
           /\ "earlyStop" \notin faults
BY DEF Followed, Only, AllStart

(* Nobody who reports fails.                                               *)
LEMMA NoFailure ==
    ASSUME OkInv, Followed, NEW w \in Workers, pc[w] \in {"arriveStart"} \cup Running \cup Ending
    PROVE  ok[w] /\ pc[w] # "signal"
BY FollowedMeans DEF OkInv, NotYet

LEMMA FaultsStay == Typed /\ SpawnInv /\ [Next]_vars => faults' = faults
<1>1. Typed /\ SpawnInv /\ Others => faults' = faults
  BY OthersSpawn DEF Spawns
<1>2. \A w \in Workers : Typed /\ Step(w) => faults' = faults
  BY StepMoves DEF mainVars
<1> QED
  BY <1>1, <1>2, NextCases

(* A stop that has come to the groups was begun.                           *)
LEMMA StopWasBegun ==
    ASSUME WalkInv, GroupStops
    PROVE  Called("beforeStop")
BY DEF WalkInv, Untouched, GroupStops

LEMMA FollowNext ==
    ASSUME IInv, FollowInv, [Next]_vars
    PROVE  FollowInv'
<1>0. /\ Typed /\ SpawnInv /\ CountInv /\ LatchInv /\ WalkInv /\ OkInv /\ StoppedAfterAll
      /\ hooks \in Seq(HookNames)
      /\ faults' = faults
      /\ \A h : Called(h) => Called(h)'
  BY CalledStays, FaultsStay DEF IInv, HookInv, Typed
<1> SUFFICES ASSUME Followed
             PROVE  /\ Called("beforeStop")' => Called("started")'
                    /\ Called("stopped")' => Called("beforeStop")'
  BY <1>0 DEF FollowInv, Followed, Only
<1>1. CASE hooks' = hooks
  BY <1>1 DEF FollowInv, Called
<1>2. ASSUME NEW x \in HookNames \ {"beforeStop", "stopped"}, Call(x)
      PROVE  /\ Called("beforeStop")' => Called("started")'
             /\ Called("stopped")' => Called("beforeStop")'
  BY <1>0, <1>2, CallAdds DEF FollowInv
<1>3. ASSUME NEW force \in BOOLEAN, SignalToStop(force)
      PROVE  /\ Called("beforeStop")' => Called("started")'
             /\ Called("stopped")' => Called("beforeStop")'
  <2>1. Called("started") /\ Begin(None, force)
    BY <1>3, FollowedMeans DEF SignalToStop
  <2>2. Called("stopped")' => Called("stopped")
    BY <1>0, <2>1, BeginWays DEF Called
  <2> QED
    BY <1>0, <2>1, <2>2 DEF FollowInv
<1>4. CASE Others
  BY <1>1, <1>2, <1>3, <1>4 DEF Others, Main, StartServer, StartGroup, RunMaster, JoinAllGroups, StopService,
     StopGroup, OnServiceStopped, CountService, vars, HookNames
<1>5. ASSUME NEW w \in Workers, OnWorkerGroupStopped(w)
      PROVE  /\ Called("beforeStop")' => Called("started")'
             /\ Called("stopped")' => Called("beforeStop")'
  <2>1. CASE activeGroups # 1
    BY <1>1, <1>5, <2>1 DEF OnWorkerGroupStopped
  <2>2. CASE activeGroups = 1
    <3>1. \A h : Called(h)' <=> Called(h) \/ h = "stopped" \/ (h = "afterStop" /\ master = None)
      BY <1>0, <1>5, <2>2, StoppedAdds DEF OnWorkerGroupStopped
    <3>2. pc[w] = "groupStopped" /\ UNCHANGED ok
      BY <1>5 DEF OnWorkerGroupStopped, At
    <3>3. ok[w]
      BY <1>0, <3>2, NoFailure DEF Ending, Stopped
    <3>4. RanFirst'
      BY <3>2, <3>3 DEF RanFirst
    <3>5. Called("beforeStop")
      BY <1>0, <1>5, <2>2, <3>4, GroupsHaveStopped, StopWasBegun
    <3> QED
      BY <1>0, <3>1, <3>5 DEF FollowInv
  <2> QED
    BY <2>1, <2>2
<1>6. ASSUME NEW w \in Workers, Step(w), ~OnWorkerGroupStopped(w)
      PROVE  /\ Called("beforeStop")' => Called("started")'
             /\ Called("stopped")' => Called("beforeStop")'
  <2>1. ~SignalFailure(w)
    BY <1>0, NoFailure DEF SignalFailure, At, Running
  <2>2. hooks' = hooks \/ Call("started")
    BY <1>6, <2>1, FollowedMeans DEF Step, Begins, IncrementRunning, OnWorkerStarted, StartHandler, StartAcceptors,
       OnWorkerGroupStarted, ArriveStart, WaitStart, LeaveLoop, DecrementRunning,
       OnWorkerStopped, StopHandler, ArriveStop, WaitStop
  <2> QED
    BY <1>1, <1>2, <2>2 DEF HookNames
<1> QED
  BY <1>4, <1>5, <1>6, NextCases

LEMMA Follow == Spec => []FollowInv
<1>1. Init => FollowInv
  BY DEF Init, FollowInv, Called
<1>2. IInv /\ FollowInv /\ [Next]_vars => FollowInv'
  BY FollowNext
<1> QED
  BY <1>1, <1>2, Inductive, PTL DEF Spec

(* When the abstract state does not change.                                *)
LEMMA PhaseSame ==
    ASSUME faults' = faults, \A h \in {"started", "beforeStop", "stopped"} : Called(h)' <=> Called(h)
    PROVE  Phase' = Phase
BY DEF Phase, Followed, Only

LEMMA PlacesSame ==
    ASSUME faults' = faults,
           \A w \in Workers : /\ pc'[w] = "run" <=> pc[w] = "run"
                              /\ pc'[w] \in {"decrement"} \cup Ending <=> pc[w] \in {"decrement"} \cup Ending
    PROVE  InLoop' = InLoop /\ Gone' = Gone
<1>1. Followed' <=> Followed
  BY DEF Followed, Only
<1> QED
  BY <1>1 DEF InLoop, Gone, Ending

(* A step of the server is a step of ServerLifetime, or changes nothing.   *)
LEMMA LifetimeStep ==
    ASSUME IInv, FollowInv, [Next]_vars
    PROVE  \/ UNCHANGED <<Phase, InLoop, Gone>>
           \/ Phase = "starting" /\ Phase' = "up" /\ UNCHANGED <<InLoop, Gone>>
           \/ Phase = "up" /\ Phase' = "stopping" /\ UNCHANGED <<InLoop, Gone>>
           \/ Phase = "stopping" /\ Gone = Workers /\ Phase' = "stopped" /\ UNCHANGED <<InLoop, Gone>>
           \/ \E w \in Workers : /\ Phase # "starting" /\ w \notin InLoop \cup Gone
                                 /\ InLoop' = InLoop \cup {w} /\ UNCHANGED <<Phase, Gone>>
           \/ \E w \in Workers : /\ Phase = "stopping" /\ w \in InLoop
                                 /\ InLoop' = InLoop \ {w} /\ Gone' = Gone \cup {w} /\ UNCHANGED Phase
<1>0. /\ Typed /\ SpawnInv /\ CountInv /\ LatchInv /\ LastInv /\ GroupsInv /\ WalkInv /\ OkInv
      /\ CalledInv /\ StoppedAfterAll
      /\ hooks \in Seq(HookNames)
      /\ faults' = faults
  BY FaultsStay DEF IInv, HookInv, Typed
<1>1. CASE ~Followed
  <2>1. ~Followed'
    BY <1>0, <1>1 DEF Followed, Only
  <2> QED
    BY <1>1, <2>1 DEF Phase, InLoop, Gone
<1>2. ASSUME Followed, Others
      PROVE  /\ UNCHANGED <<InLoop, Gone>>
             /\ Phase' = Phase \/ (Phase = "up" /\ Phase' = "stopping")
  <2>1. UNCHANGED <<InLoop, Gone>>
    <3>1. \A w \in Workers : /\ pc'[w] = "run" <=> pc[w] = "run"
                             /\ pc'[w] \in {"decrement"} \cup Ending <=> pc[w] \in {"decrement"} \cup Ending
      BY <1>0, <1>2, OthersSpawn DEF Spawns, Ending, Stopping, Stopped
    <3> QED
      BY <1>0, <3>1, PlacesSame
  <2>2. (Called("started")' <=> Called("started")) /\ (Called("stopped")' <=> Called("stopped"))
    BY <1>0, <1>2, OthersHooks
  <2>3. CASE Called("beforeStop")' <=> Called("beforeStop")
    BY <1>0, <2>1, <2>2, <2>3, PhaseSame
  <2>4. CASE ~(Called("beforeStop")' <=> Called("beforeStop"))
    <3>1. ~Called("beforeStop") /\ Called("beforeStop")'
      BY <1>0, <2>4, CalledStays
    <3>2. Followed'
      BY <1>0, <1>2 DEF Followed, Only
    <3>3. Called("started") /\ ~Called("stopped")
      <4>1. Called("started")'
        BY <3>1, <3>2, FollowNext DEF FollowInv
      <4> QED
        BY <1>2, <2>2, <3>1, <4>1 DEF FollowInv
    <3> QED
      BY <1>2, <2>1, <2>2, <3>1, <3>2, <3>3 DEF Phase
  <2> QED
    BY <2>3, <2>4
<1>3. ASSUME Followed, NEW w \in Workers, OnWorkerGroupStarted(w)
      PROVE  /\ UNCHANGED <<InLoop, Gone>>
             /\ Phase' = Phase \/ (Phase = "starting" /\ Phase' = "up")
  <2>1. pc[w] = "groupStarted" /\ pc'[w] = "arriveStart" /\ \A v \in Workers : v # w => pc'[v] = pc[v]
    BY <1>0, <1>3 DEF OnWorkerGroupStarted, At, Goto, Typed
  <2>2. UNCHANGED <<InLoop, Gone>>
    BY <1>0, <2>1, PlacesSame DEF Ending, Stopping, Stopped
  <2>3. hooks' = hooks \/ Call("started")
    BY <1>3 DEF OnWorkerGroupStarted
  <2>4. CASE hooks' = hooks
    BY <1>0, <2>2, <2>4, PhaseSame DEF Called
  <2>5. CASE Call("started")
    <3>1. \A h : Called(h)' <=> Called(h) \/ h = "started"
      BY <1>0, <2>5, CallAdds DEF HookNames
    <3>2. ~Called("started")
      <4>1. activeGroups < NumGroups /\ startup > 0
        BY <1>0, <1>3, GroupsStarted
      <4>2. activeGroups # NumGroups /\ startup # 0
        BY <1>0, <4>1, FiniteSets DEF Typed
      <4> QED
        BY <1>0, <4>2 DEF CalledInv
    <3>3. ~Called("beforeStop") /\ ~Called("stopped")
      BY <1>3, <3>2 DEF FollowInv
    <3>4. Followed'
      BY <1>0, <1>3 DEF Followed, Only
    <3> QED
      BY <1>3, <2>2, <3>1, <3>2, <3>3, <3>4 DEF Phase
  <2> QED
    BY <2>3, <2>4, <2>5
<1>4. ASSUME Followed, NEW w \in Workers, OnWorkerGroupStopped(w)
      PROVE  /\ UNCHANGED <<InLoop, Gone>>
             /\ Phase' = Phase \/ (Phase = "stopping" /\ Gone = Workers /\ Phase' = "stopped")
  <2>1. pc[w] = "groupStopped" /\ pc'[w] = "gone" /\ \A v \in Workers : v # w => pc'[v] = pc[v]
    BY <1>0, <1>4 DEF OnWorkerGroupStopped, At, Goto, Typed
  <2>2. UNCHANGED <<InLoop, Gone>>
    BY <1>0, <2>1, PlacesSame DEF Ending, Stopped
  <2>3. CASE activeGroups # 1
    <3>1. hooks' = hooks
      BY <1>4, <2>3 DEF OnWorkerGroupStopped
    <3> QED
      BY <1>0, <2>2, <3>1, PhaseSame DEF Called
  <2>4. CASE activeGroups = 1
    <3>1. \A h : Called(h)' <=> Called(h) \/ h = "stopped" \/ (h = "afterStop" /\ master = None)
      BY <1>0, <1>4, <2>4, StoppedAdds DEF OnWorkerGroupStopped
    <3>2. ~Called("stopped")
      BY <1>0, <2>4 DEF CalledInv
    <3>3. Followed'
      BY <1>0, <1>4 DEF Followed, Only
    <3>4. Called("beforeStop")
      BY <3>1, <3>3, FollowNext DEF FollowInv
    <3>5. Gone = Workers
      BY <1>0, <1>4, <2>1 DEF LatchInv, Gone
    <3> QED
      BY <1>4, <2>2, <3>1, <3>2, <3>3, <3>4, <3>5 DEF Phase
  <2> QED
    BY <2>3, <2>4
<1>5. ASSUME Followed, NEW w \in Workers, Step(w), ~OnWorkerGroupStarted(w), ~OnWorkerGroupStopped(w)
      PROVE  /\ Phase' = Phase
             /\ \A v \in Workers : v # w => pc'[v] = pc[v]
             /\ pc[w] # "signal"
  <2>1. pc[w] # "signal"
    BY <1>0, <1>5, NoFailure DEF Running
  <2>2. hooks' = hooks
    BY <1>5, <2>1, FollowedMeans DEF Step, Begins, IncrementRunning, OnWorkerStarted, StartHandler, StartAcceptors,
       ArriveStart, WaitStart, LeaveLoop, SignalFailure, DecrementRunning, At,
       OnWorkerStopped, StopHandler, ArriveStop, WaitStop
  <2> QED
    BY <1>0, <1>5, <2>1, <2>2, PhaseSame, StepMoves DEF Called
<1>6. ASSUME Followed, NEW w \in Workers, WaitStart(w)
      PROVE  /\ Phase # "starting" /\ w \notin InLoop \cup Gone
             /\ InLoop' = InLoop \cup {w} /\ UNCHANGED <<Phase, Gone>>
  <2>1. pc[w] = "waitStart" /\ startup = 0 /\ (ok[w] => Goto(w, "run"))
    BY <1>6 DEF WaitStart, At
  <2>2. ok[w]
    BY <1>0, <1>6, <2>1, NoFailure DEF Running
  <2>3. pc'[w] = "run"
    BY <1>0, <2>1, <2>2 DEF Goto, Typed
  <2>4. Called("started")
    BY <1>0, <1>6, <2>1, FollowedMeans DEF CalledInv
  <2>5. Phase' = Phase /\ \A v \in Workers : v # w => pc'[v] = pc[v]
    <3>1. Step(w) /\ ~OnWorkerGroupStarted(w) /\ ~OnWorkerGroupStopped(w)
      BY <1>6, <2>1 DEF Step, OnWorkerGroupStarted, OnWorkerGroupStopped, At
    <3> QED
      BY <1>5, <1>6, <3>1
  <2>6. Followed'
    BY <1>0, <1>6 DEF Followed, Only
  <2>7. Phase # "starting"
    BY <1>6, <2>4 DEF Phase
  <2> QED
    BY <1>6, <2>1, <2>3, <2>5, <2>6, <2>7 DEF InLoop, Gone, Stopping, Stopped
<1>7. ASSUME Followed, NEW w \in Workers, LeaveLoop(w)
      PROVE  /\ Phase = "stopping" /\ w \in InLoop
             /\ InLoop' = InLoop \ {w} /\ Gone' = Gone \cup {w} /\ UNCHANGED Phase
  <2>1. pc[w] = "run" /\ ~groupRunning[GroupOf[w]] /\ pc'[w] = "decrement"
    BY <1>0, <1>7 DEF LeaveLoop, At, Goto, Typed
  <2>2. GroupOf[w] <= started /\ GroupOf[w] \in Groups
    BY <1>0, <2>1, FiniteSets DEF SpawnInv
  <2>3. GroupStops
    BY <1>0, <2>1, <2>2, FiniteSets DEF GroupStops, Groups, Typed
  <2>4. Called("beforeStop") /\ ~Called("stopped")
    BY <1>0, <2>1, <2>3, StopWasBegun DEF StoppedAfterAll, Stopped
  <2>5. Phase' = Phase /\ \A v \in Workers : v # w => pc'[v] = pc[v]
    <3>1. Step(w) /\ ~OnWorkerGroupStarted(w) /\ ~OnWorkerGroupStopped(w)
      BY <1>7, <2>1 DEF Step, OnWorkerGroupStarted, OnWorkerGroupStopped, At
    <3> QED
      BY <1>5, <1>7, <3>1
  <2>6. Followed'
    BY <1>0, <1>7 DEF Followed, Only
  <2>7. Phase = "stopping"
    BY <1>7, <2>4 DEF Phase
  <2> QED
    BY <1>7, <2>1, <2>5, <2>6, <2>7 DEF InLoop, Gone, Stopping, Stopped
<1>8. ASSUME Followed, NEW w \in Workers, Step(w), ~OnWorkerGroupStarted(w), ~OnWorkerGroupStopped(w),
             ~WaitStart(w), ~LeaveLoop(w)
      PROVE  UNCHANGED <<Phase, InLoop, Gone>>
  <2>1. Phase' = Phase /\ (\A v \in Workers : v # w => pc'[v] = pc[v]) /\ pc[w] # "signal"
    BY <1>5, <1>8
  <2>2. \A l : Goto(w, l) => pc'[w] = l
    BY <1>0 DEF Goto, Typed
  <2>3. /\ pc'[w] = "run" <=> pc[w] = "run"
        /\ pc'[w] \in {"decrement"} \cup Ending <=> pc[w] \in {"decrement"} \cup Ending
    <3>1. CASE Begins(w) \/ IncrementRunning(w) \/ OnWorkerStarted(w) \/ StartHandler(w) \/ StartAcceptors(w)
               \/ ArriveStart(w)
      BY <2>2, <3>1 DEF Begins, IncrementRunning, OnWorkerStarted, StartHandler, StartAcceptors,
         ArriveStart, At, Ending, Stopping, Stopped
    <3>2. CASE DecrementRunning(w) \/ OnWorkerStopped(w) \/ StopHandler(w) \/ ArriveStop(w) \/ WaitStop(w)
      BY <2>2, <3>2 DEF DecrementRunning, OnWorkerStopped, StopHandler, ArriveStop, WaitStop, At,
         Ending, Stopping, Stopped
    <3> QED
      BY <1>8, <2>1, <3>1, <3>2 DEF Step, SignalFailure, At
  <2> QED
    BY <1>0, <2>1, <2>3, PlacesSame
<1> QED
  BY <1>1, <1>2, <1>3, <1>4, <1>6, <1>7, <1>8, NextCases

LEMMA LifetimeInit == Init => Lifetime!Init
<1> SUFFICES ASSUME Init PROVE Lifetime!Init
  OBVIOUS
<1>1. Phase = "starting"
  BY DEF Init, Phase, Called
<1>2. InLoop = {} /\ Gone = {}
  BY DEF Init, InLoop, Gone, Stopping, Stopped
<1> QED
  BY <1>1, <1>2 DEF Lifetime!Init, InLoop, Gone

LEMMA LifetimeNext == IInv /\ FollowInv /\ [Next]_vars => [Lifetime!Next]_(Lifetime!vars)
<1> SUFFICES ASSUME IInv, FollowInv, [Next]_vars PROVE Lifetime!Next \/ Lifetime!vars' = Lifetime!vars
  OBVIOUS
<1>1. CASE UNCHANGED <<Phase, InLoop, Gone>>
  BY <1>1 DEF Lifetime!vars, InLoop, Gone
<1>2. CASE Phase = "starting" /\ Phase' = "up" /\ UNCHANGED <<InLoop, Gone>>
  BY <1>2 DEF Lifetime!Next, Lifetime!Started, InLoop, Gone
<1>3. CASE Phase = "up" /\ Phase' = "stopping" /\ UNCHANGED <<InLoop, Gone>>
  BY <1>3 DEF Lifetime!Next, Lifetime!Stopping, InLoop, Gone
<1>4. CASE Phase = "stopping" /\ Gone = Workers /\ Phase' = "stopped" /\ UNCHANGED <<InLoop, Gone>>
  BY <1>4 DEF Lifetime!Next, Lifetime!Stopped, InLoop, Gone
<1>5. ASSUME NEW w \in Workers, Phase # "starting", w \notin InLoop \cup Gone,
             InLoop' = InLoop \cup {w}, UNCHANGED <<Phase, Gone>>
      PROVE  Lifetime!Next
  BY <1>5 DEF Lifetime!Next, Lifetime!Enter, InLoop, Gone
<1>6. ASSUME NEW w \in Workers, Phase = "stopping", w \in InLoop,
             InLoop' = InLoop \ {w}, Gone' = Gone \cup {w}, UNCHANGED Phase
      PROVE  Lifetime!Next
  BY <1>6 DEF Lifetime!Next, Lifetime!Leave, InLoop, Gone
<1> QED
  BY <1>1, <1>2, <1>3, <1>4, <1>5, <1>6, LifetimeStep

(* A server keeps the promises of ServerLifetime: no worker enters its run *)
(* loop before OnServerStarted, none leaves it before a stop was signalled,*)
(* and OnServerStopped comes when every worker has left, for any number of *)
(* workers, groups and services and although threads may fail to begin,    *)
(* stops be cancelled and stop handlers fail.                              *)
THEOREM KeepsItsPromises == Spec => KeepsLifetime
<1>1. Spec => [](IInv /\ FollowInv)
  BY Inductive, Follow, PTL
<1> QED
  BY <1>1, LifetimeInit, LifetimeNext, PTL DEF Spec, KeepsLifetime, Lifetime!Spec
=============================================================================
