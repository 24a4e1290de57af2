----------------------------- MODULE PlanGraph -----------------------------
(***************************************************************************)
(* A task graph as the cloud planner returns it, reduced to what the       *)
(* scheduler uses of it: the task ids, what each task depends on, and the  *)
(* tier it was assigned.  Accepts(p) says in one formula what Plan.parse   *)
(* decides step by step; PlanParseProofs shows that the two agree.         *)
(***************************************************************************)
EXTENDS RelayLimits, FiniteSets

CONSTANT Tasks   \* every id a planner may use

ASSUME TasksAssumption == IsFiniteSet(Tasks)

PlanType ==
  [ids : SUBSET Tasks, deps : [Tasks -> SUBSET Tasks], tier : [Tasks -> TierNames]]

\* Every nonempty set of tasks has one that depends on no other task of the set.
Acyclic(ids, deps) ==
  \A S \in SUBSET ids : S # {} => \E t \in S : deps[t] \cap S = {}

\* Mutant of Accepts: the search for a cycle is dropped.
AcceptsCycles(p) ==
  /\ Cardinality(p.ids) \in 1..MaxTasks
  /\ \A t \in p.ids : \E i \in 1..Len(Tiers) : Tiers[i] = p.tier[t]
  /\ \A t \in p.ids : p.deps[t] \subseteq p.ids \ {t}

\* Plan.parse returns a plan instead of raising ValidationError.
Accepts(p) ==
  /\ Cardinality(p.ids) \in 1..MaxTasks
  /\ \A t \in p.ids : \E i \in 1..Len(Tiers) : Tiers[i] = p.tier[t]
  /\ \A t \in p.ids : p.deps[t] \subseteq p.ids \ {t}
  /\ Acyclic(p.ids, p.deps)

\* RoutingPolicy.check_plan: the plan of a big goal spreads its bulk over local tasks.
Wasteful(p, bulk) ==
  /\ bulk
  /\ Cardinality({t \in p.ids : p.tier[t] # "cloud" /\ p.deps[t] = {}}) < MinParallelLocal
=============================================================================
