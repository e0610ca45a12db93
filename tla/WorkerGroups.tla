---------------------------- MODULE WorkerGroups ----------------------------
(***************************************************************************)
(* The worker groups of a server as its configuration gives them: the      *)
(* flags of WorkerGroupTag that decide where a delayed task goes, the      *)
(* lists that ServerInstance::CreateWorkerGroup builds from them, and the  *)
(* round robin with which both ScheduleTask functions choose a worker.     *)
(***************************************************************************)
EXTENDS Naturals, Sequences, FiniteSets, Functions

CONSTANTS Groups,   \* the groups in the order in which they are created
          Team,     \* Team[g]: the workers of g in order, without the null one
          Active,   \* groups with bIsActive
          Timers,   \* groups with bHandlesTimerTasks
          AODs,     \* groups with bSupportsAOD
          Wrap      \* number of values of the uint16_t round robin indexes

AllGroups == Range(Groups)
TeamOf(g) == Range(Team[g])
Workers   == UNION {TeamOf(g) : g \in AllGroups}
GroupOf(w) == CHOOSE g \in AllGroups : w \in TeamOf(g)

(* WorkerGroupTag::Validate, and an index that does not overflow at once.  *)
ASSUME TagAssumption ==
    /\ Timers \subseteq Active
    /\ Active \subseteq AllGroups /\ AODs \subseteq AllGroups
    /\ Groups \in Seq(AllGroups)
    /\ \A g \in AllGroups : Team[g] \in Seq(TeamOf(g)) \ {<<>>}
    /\ Wrap \in Nat \ {0}

(* ServerBuiltFlags.bAllGroupsAreActive: every task stays with its thread. *)
AllActive == Active = AllGroups

(* The groups of S in the order in which they are created.                 *)
PlacesOf(S) == {i \in DOMAIN Groups : Groups[i] \in S}
NthPlace(S, n) == CHOOSE i \in PlacesOf(S) : Cardinality({j \in PlacesOf(S) : j <= i}) = n
Listed(S) == [n \in 1 .. Cardinality(PlacesOf(S)) |-> Groups[NthPlace(S, n)]]

DeferredTasksHandlingGroups    == Listed(Timers)
DeferredAODTasksHandlingGroups == Listed(AODs \cap Active)

(* Round robin over groups with one index and over workers with another.   *)
TargetGroup(list, rr) == list[(rr % Len(list)) + 1]
TargetWorker(g, rr)   == Team[g][(rr % Len(Team[g])) + 1]

Following(rr) == (rr + 1) % Wrap
=============================================================================
