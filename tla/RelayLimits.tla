---------------------------- MODULE RelayLimits ----------------------------
(***************************************************************************)
(* The parameters of one relay run and the pure rules computed from them:  *)
(* the available tiers, settings.Limits, the RoutingPolicy fields that     *)
(* shape control flow, the cloud budget's spending rule and the tier of    *)
(* each attempt at a subtask.                                              *)
(***************************************************************************)
EXTENDS Integers, Sequences

CONSTANTS
  HasMid,                   \* is a middle model configured?
  MaxTasks,                 \* Limits.max_tasks
  LocalConcurrency,         \* Limits.local_concurrency
  CloudCalls,               \* Limits.cloud_calls
  CloudWorkerCalls,         \* Limits.cloud_worker_calls
  CloudEnabled,             \* Limits.cloud_enabled
  LocalSamples,             \* RoutingPolicy.local_samples
  UseCritic,                \* RoutingPolicy.use_critic
  SkipSmall,                \* RoutingPolicy.skip_small_above is not None
  LocalWorkerAttempts,      \* RoutingPolicy.local_worker_attempts
  EscalateFailedLocalTasks, \* RoutingPolicy.escalate_failed_local_tasks
  PlanAttempts,             \* RoutingPolicy.plan_attempts
  MinParallelLocal          \* RoutingPolicy.min_parallel_local

(***************************************************************************)
(* What Limits.__post_init__ and RoutingPolicy.__post_init__ enforce.      *)
(***************************************************************************)
ASSUME LimitsAssumption ==
  /\ MaxTasks \in 1..12
  /\ LocalConcurrency \in 1..4
  /\ CloudCalls \in Nat
  /\ CloudWorkerCalls \in Nat
  /\ CloudEnabled \in BOOLEAN

ASSUME PolicyAssumption ==
  /\ HasMid \in BOOLEAN
  /\ LocalSamples \in Nat \ {0}
  /\ LocalWorkerAttempts \in Nat \ {0}
  /\ PlanAttempts \in Nat \ {0}
  /\ UseCritic \in BOOLEAN
  /\ SkipSmall \in BOOLEAN
  /\ EscalateFailedLocalTasks \in BOOLEAN
  /\ MinParallelLocal \in Nat

TierNames == {"local", "mid", "cloud"}

\* The available tiers, smallest first; the cloud is always the last one.
Tiers == IF HasMid THEN <<"local", "mid", "cloud">> ELSE <<"local", "cloud">>

LocalTiers == IF HasMid THEN <<"local", "mid">> ELSE <<"local">>

\* The tiers after preferred in Tiers: tiers[tiers.index(preferred) + 1:].
LargerTiers(preferred) ==
  IF HasMid /\ preferred = "local" THEN <<"mid", "cloud">> ELSE <<"cloud">>

\* The tier of each attempt at a subtask, in order.
WorkerTiers(preferred) ==
  IF preferred = "cloud"
  THEN <<"cloud">>
  ELSE [i \in 1..LocalWorkerAttempts |-> preferred]
         \o (IF EscalateFailedLocalTasks THEN LargerTiers(preferred) ELSE <<>>)

\* Mutant of Skips: every local model may be skipped, not only the smallest.
SkipsEveryModel(tier, hard) == SkipSmall /\ hard /\ HasMid

\* RoutingPolicy.skips: only the smallest model, only if a larger local one exists.
Skips(tier, hard) ==
  SkipSmall /\ hard /\ HasMid /\ tier = "local"

-----------------------------------------------------------------------------
\* Mutant of Reserve: nothing is held back for subtasks.
ReserveForPlansOnly(operation) == IF operation = "plan" THEN 1 ELSE 0

\* One cloud call is held back for the call that produces the final answer.
Reserve(operation) == IF operation \in {"synthesize", "answer"} THEN 0 ELSE 1

\* Mutant of BudgetAllows: the limit on all calls is off by one.
BudgetAllowsOneMore(operation, calls, workerCalls) ==
  /\ CloudEnabled
  /\ calls <= CloudCalls - Reserve(operation)
  /\ operation = "work" => workerCalls < CloudWorkerCalls

\* CloudBudget.spend raises BudgetError unless all of this holds.
BudgetAllows(operation, calls, workerCalls) ==
  /\ CloudEnabled
  /\ calls < CloudCalls - Reserve(operation)
  /\ operation = "work" => workerCalls < CloudWorkerCalls
=============================================================================
