-------------------------- MODULE RelayProperties --------------------------
(***************************************************************************)
(* What makes a relay run correct, stated over the states of RelayEngine.  *)
(***************************************************************************)
EXTENDS RelayEngine

RouteTypes ==
  /\ request \in RequestType
  /\ main \in TimedStates \cup {"failing", "reported", "cancelling"} \cup EndedStates
  /\ rung \in 0..Len(LocalTiers) + 1
  /\ sample \in 0..LocalSamples
  /\ verdicts \subseteq TierNames
  /\ skipped \subseteq TierNames
  /\ route \in TierNames \cup {"none"}
  /\ planTry \in 0..PlanAttempts

TaskTypes ==
  /\ plan \in PlanType
  /\ pending \subseteq Tasks
  /\ batch \subseteq Tasks
  /\ outer \in {"pending", "values", "cancelled"} \cup Errors
  /\ seen \subseteq Tasks
  /\ raised \in {"none", "cancelled"} \cup Errors
  /\ doomed \subseteq Tasks

EndTypes ==
  /\ cancels \in 0..MaxCancels
  /\ closing \in Seq({"run_completed", "run_failed", "run_cancelled"})
  /\ cause \in {"none", "deadline", "cancelled"} \cup Errors

FlagTypes ==
  /\ distrust \in BOOLEAN
  /\ hit \in BOOLEAN
  /\ expired \in BOOLEAN

JobTypes ==
  /\ results \subseteq Tasks
  /\ pc \in [Tasks -> {"idle"} \cup ActiveStates \cup FinishedStates]
  /\ attempt \in [Tasks -> Nat]
  /\ reply \in [Tasks -> CallResults \cup {"none", "budget"}]
  /\ slots \in Int
  /\ cloudCalls \in Nat
  /\ workerCalls \in Nat

\* Every variable keeps its type, and the semaphore never has fewer than zero nor
\* more than LocalConcurrency free permits.
TypeOK ==
  /\ RouteTypes
  /\ TaskTypes
  /\ EndTypes
  /\ FlagTypes
  /\ JobTypes
  /\ slots \in 0..LocalConcurrency

\* The cloud calls made are exactly the planner's, the workers' and at most one
\* final call, and no limit of the budget is ever exceeded, however many jobs ask
\* for the cloud at once (CloudBudget.spend).
BudgetKept ==
  /\ cloudCalls <= CloudCalls
  /\ workerCalls <= CloudWorkerCalls
  /\ cloudCalls - planTry - workerCalls \in {0, 1}
  /\ cloudCalls > 0 => CloudEnabled

\* "One call is always held back for the final synthesis": from the first planner
\* call on, until the synthesis is paid for, its call is still there.
SynthesisReserved ==
  main \in {"planning", "planned", "gather", "cleanup", "assembling"} => cloudCalls < CloudCalls

\* Every permit of local_slots is free or held by a job that is starting, running
\* or finishing a local call; cancelled and failed jobs have given theirs back.
SlotsAccounted ==
  slots + Cardinality({t \in Tasks : Holds(t)}) = LocalConcurrency

\* A job exists only once every result its inputs may refer to has been accepted,
\* so worker never looks up a missing key of results.
DependenciesFirst ==
  \A t \in Tasks : pc[t] # "idle" => t \in plan.ids /\ plan.deps[t] \subseteq results

\* run_tasks never runs out of executable tasks: a plan that Plan.parse accepted
\* cannot raise "No executable task remains".
NeverStuck == cause # "stuck"

\* No job outlives run_tasks: while the main coroutine is anywhere else, on its way
\* to an answer or out of the run, no job is running and no call is in flight.
NoOrphanJobs == main \notin TaskStates => \A t \in Tasks : ~Active(t)

\* A task with an accepted result is never queued, called or failed again.
AcceptedOnce ==
  \A t \in results : pc[t] \in {"accepting", "done", "cancelled"} /\ reply[t] = "valid"

\* The synthesis, and the answer, come only after every task of the plan has an
\* accepted result.
AnswerNeedsEveryTask ==
  main \in FinalStates \cup {"returned"} => results = plan.ids

\* A run that was cancelled, or whose deadline expired, before it returned does
\* not return an answer, wherever the interruption found it.
InterruptedRunsDoNotAnswer ==
  main = "returned" => ~expired /\ cancels = 0

\* The cloud is called only after every local model was skipped or distrusted,
\* and at least one of them was really asked.
LocalModelsFirst ==
  cloudCalls > 0 =>
    /\ verdicts # {}
    /\ verdicts \cup skipped = {LocalTiers[i] : i \in 1..Len(LocalTiers)}

\* The last terminal event tells how the run ended.  (A caller who cancels while
\* run_failed is being delivered gets CancelledError and no run_cancelled.)
LastEventTellsOutcome ==
  LET last == closing[Len(closing)]
  IN  /\ main = "returned" => closing = <<"run_completed">>
      /\ main = "raised" => Len(closing) > 0 /\ last = "run_failed"
      /\ main = "cancelled" /\ cause = "cancelled" => Len(closing) > 0 /\ last = "run_cancelled"

\* Once run_tasks has begun to cancel its jobs, no job starts another model call.
NoCallDuringCleanup ==
  [][main = "cleanup" => \A t \in Tasks : pc'[t] = "calling" => pc[t] = "calling"]_vars

\* Every run ends: it returns, raises RelayError or is cancelled.
Terminates == <>(main \in EndedStates)

\* The run implements PlanExecution.
Abstract == INSTANCE PlanExecution WITH
  TaskIds  <- Tasks,
  ids      <- plan.ids,
  deps     <- plan.deps,
  accepted <- results,
  status   <- CASE main = "returned"                 -> "answered"
                [] main \in {"raised", "cancelled"}  -> "stopped"
                [] OTHER                             -> "running"

ImplementsPlanExecution == Abstract!Spec

-----------------------------------------------------------------------------
(* What comments and documents say of the program, and the code does not do. *)

\* engine.py: "A call that fails (token limit, timeout, unreadable reply) counts as
\* a failed attempt": a call timeout never ends the job.
CallTimeoutIsFailedAttempt ==
  \A t \in Tasks : ~(pc[t] = "failed" /\ reply[t] = "timeout")

\* IMPLEMENTATION_STATUS.md: cancellation "propagates": a run the caller cancelled
\* before it ended does not end with a RelayError instead.
CancellationPropagates == main = "raised" => cancels = 0
=============================================================================
