---------------------------- MODULE RelayEngine ----------------------------
(***************************************************************************)
(* One call of RelayEngine.run: the main coroutine (execute, try_extract,  *)
(* judge_locally, make_plan, run_tasks, synthesis), the jobs it starts     *)
(* (RelayWorkers), the run deadline, cancellation by the caller, and the   *)
(* terminal event that reports how the run ended.                          *)
(*                                                                         *)
(* main is the await where the main coroutine is suspended:                *)
(*   starting     run_started and provider_notice events                   *)
(*   extracting   the /local-extract call                                  *)
(*   skipping     the local_skipped event                                  *)
(*   solving      a local model's answer   critiquing  the critic's reply  *)
(*   deciding     the last event before policy.decide                      *)
(*   escalated    the escalated (and answering) events                     *)
(*   answering    the direct cloud answer  planning    the planner's reply *)
(*   planned      the plan_created event                                   *)
(*   gather       asyncio.gather(jobs)     cleanup  the gather in finally  *)
(*   assembling   the synthesizing event   synthesizing  its cloud call    *)
(*   completing   run_completed, not yet handed to the callback            *)
(*   completed    run_completed, handed to the callback                    *)
(*   failing, reported   the same two points of run_failed                 *)
(*   cancelling   the shielded run_cancelled event                         *)
(*   returned, raised, cancelled   the run is over                         *)
(* Events that change nothing but the display share the await of the call  *)
(* next to them.  Deadline and caller interrupt the main coroutine through *)
(* Task.cancel: hit is a CancelledError it will see when it next runs.     *)
(***************************************************************************)
EXTENDS RelayWorkers

CONSTANTS
  Requests,     \* what a request can ask for: see RequestType
  Plans,        \* the task graphs the planner may return, good and bad
  MaxCancels    \* bound on the number of times the caller cancels

VARIABLES
  request,      \* the request: see RequestType
  main,         \* where the main coroutine is suspended
  rung,         \* index into LocalTiers of the model being judged
  sample,       \* answers it has given so far
  distrust,     \* a rule will reject it: it asked for help, or a call failed
  verdicts,     \* local tiers whose verdict was to escalate
  skipped,      \* local tiers the policy skipped
  route,        \* the tier whose answer is returned
  planTry,      \* planner calls made
  pending,      \* tasks of the plan not yet collected by run_tasks
  batch,        \* tasks whose jobs the current gather awaits
  outer,        \* the gather future: pending, values, or an exception
  seen,         \* jobs whose done-callback the gather future has run
  raised,       \* the exception that run_tasks' finally block interrupts
  hit,          \* the main coroutine has a pending CancelledError
  expired,      \* the run_timeout timer has fired
  cancels,      \* Task.cancel calls by the caller
  closing,      \* terminal events handed to the callback, in order
  cause         \* why the run failed

mainVars == <<request, main, rung, sample, distrust, verdicts, skipped, route,
              planTry, pending, batch, outer, seen, raised, hit, expired,
              cancels, closing, cause, plan, doomed>>

vars == <<mainVars, jobVars>>

frontVars == <<rung, sample, distrust, verdicts, skipped, route, planTry>>
taskVars  == <<plan, pending, batch, outer, seen, raised, doomed>>
callVars  == <<cloudCalls, workerCalls>>
endVars   == <<expired, cancels, closing>>

\* extract: /local-extract.  hard: task_complexity >= skip_small_above.
\* plans: RoutingPolicy.plans(text).  bulk: request_parts(text) >= bulk_parts.
RequestType == [extract : BOOLEAN, hard : BOOLEAN, plans : BOOLEAN, bulk : BOOLEAN]

ASSUME InputsAssumption ==
  /\ Requests \subseteq RequestType
  /\ Plans \subseteq PlanType
  /\ MaxCancels \in Nat

FrontStates == {"starting", "extracting", "skipping", "solving", "critiquing", "deciding",
                "escalated", "answering", "planning", "planned"}
TaskStates  == {"gather", "cleanup"}
FinalStates == {"assembling", "synthesizing", "completing", "completed"}
EndedStates == {"returned", "raised", "cancelled"}

\* Inside `async with asyncio.timeout(run_timeout)`.
TimedStates == FrontStates \cup TaskStates \cup FinalStates

Errors == {"budget", "invalid", "error", "timeout", "crash", "stuck"}

NoPlan == [ids  |-> {},
           deps |-> [t \in Tasks |-> {}],
           tier |-> [t \in Tasks |-> "local"]]

Init ==
  /\ request \in Requests
  /\ main = "starting"
  /\ rung = 0
  /\ sample = 0
  /\ distrust = FALSE
  /\ verdicts = {}
  /\ skipped = {}
  /\ route = "none"
  /\ planTry = 0
  /\ plan = NoPlan
  /\ pending = {}
  /\ batch = {}
  /\ outer = "pending"
  /\ seen = {}
  /\ raised = "none"
  /\ hit = FALSE
  /\ expired = FALSE
  /\ cancels = 0
  /\ closing = <<>>
  /\ cause = "none"
  /\ results = {}
  /\ pc = [t \in Tasks |-> "idle"]
  /\ attempt = [t \in Tasks |-> 0]
  /\ reply = [t \in Tasks |-> "none"]
  /\ doomed = {}
  /\ slots = LocalConcurrency
  /\ cloudCalls = 0
  /\ workerCalls = 0

-----------------------------------------------------------------------------
(* How the main coroutine moves on. *)

\* An exception leaves the timeout block.  The block turns the CancelledError of
\* its own timer into TimeoutError, unless the caller has cancelled as well.
Raise(error) ==
  LET kind == IF error = "cancelled" /\ expired /\ cancels = 0 THEN "deadline" ELSE error
  IN  /\ cause' = kind
      /\ main' = IF kind = "cancelled" THEN "cancelling" ELSE "failing"

\* A cloud call by the main coroutine: pay, then await the reply at state.
CloudCall(operation, state) ==
  IF BudgetAllows(operation, cloudCalls, workerCalls)
  THEN /\ cloudCalls' = cloudCalls + 1
       /\ main' = state
       /\ UNCHANGED <<workerCalls, cause>>
  ELSE /\ Raise("budget")
       /\ UNCHANGED callVars

\* One planner call of make_plan.
PlannerCall ==
  /\ CloudCall("plan", "planning")
  /\ planTry' = IF main' = "planning" THEN planTry + 1 ELSE planTry

\* execute's loop over the local tiers, entered after tier number k: skip the next
\* one, judge it, or leave the loop for the cloud.
ClimbFrom(k) ==
  LET left == k < Len(LocalTiers)
      skip == left /\ Skips(LocalTiers[k + 1], request.hard)
  IN  /\ rung' = k + 1
      /\ sample' = 0
      /\ distrust' = FALSE
      /\ skipped' = IF skip THEN skipped \cup {LocalTiers[k + 1]} ELSE skipped
      /\ main' = IF skip THEN "skipping" ELSE IF left THEN "solving" ELSE "escalated"
      /\ route' = IF left THEN route ELSE "cloud"

\* Mutant of MainAt: a pending cancellation is overlooked.
MainAtAnyway(state) == main = state

\* The main coroutine runs on from state, no cancellation pending.
MainAt(state) == main = state /\ ~hit

Start ==
  /\ MainAt("starting")
  /\ IF request.extract
     THEN main' = "extracting" /\ UNCHANGED <<rung, sample, distrust, skipped, route>>
     ELSE ClimbFrom(0)
  /\ UNCHANGED <<request, verdicts, planTry, taskVars, hit, endVars, cause, jobVars>>

\* try_extract: a failed call is not caught here.  (The extract itself, kept under
\* the key local_answer, is no result of a task.)
ExtractReturns ==
  /\ MainAt("extracting")
  /\ \/ /\ main' = "completing"
        /\ route' = "local"
        /\ UNCHANGED <<rung, sample, distrust, skipped, cause>>
     \/ ClimbFrom(0) /\ UNCHANGED cause
     \/ \E e \in {"error", "timeout", "crash"} :
          Raise(e) /\ UNCHANGED <<rung, sample, distrust, skipped, route>>
  /\ UNCHANGED <<request, verdicts, planTry, taskVars, hit, endVars, jobVars>>

SkipTier ==
  /\ MainAt("skipping")
  /\ ClimbFrom(rung)
  /\ UNCHANGED <<request, verdicts, planTry, taskVars, hit, endVars, cause, jobVars>>

\* One solve call of judge_locally.  A RelayError counts as an answer that needs
\* escalation, and such an answer ends the sampling.
SolveReturns ==
  /\ MainAt("solving")
  /\ \/ \E asks \in BOOLEAN :
          /\ sample' = sample + 1
          /\ distrust' = asks
          /\ main' = IF asks THEN "deciding"
                     ELSE IF sample + 1 < LocalSamples THEN "solving"
                     ELSE IF UseCritic THEN "critiquing" ELSE "deciding"
          /\ UNCHANGED cause
     \/ \E e \in {"timeout", "crash"} : Raise(e) /\ UNCHANGED <<sample, distrust>>
  /\ UNCHANGED <<request, rung, verdicts, skipped, route, planTry, taskVars, hit,
                 endVars, jobVars>>

\* The critic's reply; a critic that raises RelayError counts as a rejection.
CritiqueReturns ==
  /\ MainAt("critiquing")
  /\ \/ /\ main' = "deciding"
        /\ distrust' \in BOOLEAN
        /\ UNCHANGED cause
     \/ \E e \in {"timeout", "crash"} : Raise(e) /\ UNCHANGED distrust
  /\ UNCHANGED <<request, rung, sample, verdicts, skipped, route, planTry, taskVars,
                 hit, endVars, jobVars>>

\* policy.decide: big goals and the rules force escalation, the score decides otherwise.
MayDecide(escalate) == (request.bulk \/ distrust) => escalate

Decide ==
  /\ MainAt("deciding")
  /\ \E escalate \in BOOLEAN :
       /\ MayDecide(escalate)
       /\ IF escalate
          THEN /\ verdicts' = verdicts \cup {LocalTiers[rung]}
               /\ ClimbFrom(rung)
          ELSE /\ route' = LocalTiers[rung]
               /\ main' = "completing"
               /\ UNCHANGED <<rung, sample, distrust, verdicts, skipped>>
  /\ UNCHANGED <<request, planTry, taskVars, hit, endVars, cause, jobVars>>

\* The cloud takes over: one direct answer, or a plan.
EscalateToCloud ==
  /\ MainAt("escalated")
  /\ IF request.plans
     THEN PlannerCall
     ELSE CloudCall("answer", "answering") /\ UNCHANGED planTry
  /\ UNCHANGED <<request, rung, sample, distrust, verdicts, skipped, route, taskVars,
                 hit, endVars, pc, attempt, reply, slots, results>>

AnswerReturns ==
  /\ MainAt("answering")
  /\ \/ main' = "completing" /\ UNCHANGED cause
     \/ \E e \in {"invalid", "error", "timeout", "crash"} : Raise(e)
  /\ UNCHANGED <<request, frontVars, taskVars, hit, endVars, jobVars>>

\* make_plan: a refused graph costs another planner call while attempts are left.
PlanReturns ==
  /\ MainAt("planning")
  /\ \/ \E p \in Plans :
          IF Accepts(p) /\ ~Wasteful(p, request.bulk)
          THEN /\ plan' = p
               /\ pending' = p.ids
               /\ main' = "planned"
               /\ UNCHANGED <<planTry, cause, callVars>>
          ELSE /\ IF planTry < PlanAttempts
                  THEN PlannerCall
                  ELSE Raise("invalid") /\ UNCHANGED <<planTry, callVars>>
               /\ UNCHANGED <<plan, pending>>
     \/ \E e \in {"error", "timeout", "crash"} :
          Raise(e) /\ UNCHANGED <<planTry, callVars, plan, pending>>
  /\ UNCHANGED <<request, rung, sample, distrust, verdicts, skipped, route, batch,
                 outer, seen, raised, doomed, hit, endVars, pc, attempt, reply,
                 slots, results>>

-----------------------------------------------------------------------------
(* run_tasks *)

\* Mutant of Ready: dependencies are ignored.
ReadyAll == pending

Ready == {t \in pending : plan.deps[t] \subseteq results}

\* The head of run_tasks' loop while tasks are pending: one job per ready task.
NextBatch ==
  IF Ready = {}
  THEN Raise("stuck") /\ UNCHANGED <<batch, outer, seen, pc, attempt, reply>>
  ELSE /\ batch' = Ready
       /\ outer' = "pending"
       /\ seen' = {}
       /\ pc' = [t \in Tasks |-> IF t \in Ready THEN Entry(t, 1) ELSE pc[t]]
       /\ attempt' = [t \in Tasks |-> IF t \in Ready THEN 1 ELSE attempt[t]]
       /\ reply' = [t \in Tasks |-> IF t \in Ready THEN "none" ELSE reply[t]]
       /\ main' = "gather"
       /\ UNCHANGED cause

StartTasks ==
  /\ MainAt("planned")
  /\ NextBatch
  /\ UNCHANGED <<request, frontVars, plan, pending, raised, doomed, hit, endVars,
                 slots, results, callVars>>

\* Mutant of Settle: failures are collected like values, as return_exceptions=True does.
SettleOnLast(t) == IF outer = "pending" /\ seen \cup {t} = batch THEN "values" ELSE outer

\* What the gather future becomes when job t is over: the first exception settles
\* it, or the last value.
Settle(t) ==
  IF outer # "pending" THEN outer
  ELSE IF pc[t] = "cancelled" THEN "cancelled"
  ELSE IF pc[t] = "failed" THEN reply[t]
  ELSE IF seen \cup {t} = batch THEN "values" ELSE "pending"

JobCallback(t) ==
  /\ main = "gather"
  /\ t \in batch \ seen
  /\ Finished(t)
  /\ seen' = seen \cup {t}
  /\ outer' = Settle(t)
  /\ UNCHANGED <<request, main, frontVars, plan, pending, batch, raised, doomed, hit,
                 endVars, cause, jobVars>>

\* Mutant of CancelledByFinally: the jobs still running are left alone.
CancelledByNobody == {}

\* The jobs that the finally block cancels.
CancelledByFinally == {t \in batch : Active(t)}

\* Mutant of Collected: accepted tasks stay pending.
CollectedNone == pending

\* What is pending once the batch has returned its values.
Collected == pending \ batch

\* await gather ends, by value or exception; finally cancels the jobs still running.
GatherReturns ==
  /\ main = "gather"
  /\ outer # "pending"
  /\ raised' = IF hit THEN "cancelled" ELSE IF outer = "values" THEN "none" ELSE outer
  /\ hit' = FALSE
  /\ pending' = IF raised' = "none" THEN Collected ELSE pending
  /\ doomed' = doomed \cup CancelledByFinally
  /\ main' = "cleanup"
  /\ UNCHANGED <<request, frontVars, plan, batch, outer, seen, endVars, cause, jobVars>>

\* Mutant of JobsOver: finally does not wait for the jobs it cancelled.
JobsNotAwaited == TRUE

JobsOver == \A t \in batch : ~Active(t)

\* Every job is over.  A cancellation that came meanwhile replaces the exception.
CleanupReturns ==
  /\ main = "cleanup"
  /\ JobsOver
  /\ hit' = FALSE
  /\ raised' = "none"
  /\ LET error == IF hit THEN "cancelled" ELSE raised
     IN  IF error # "none"
         THEN Raise(error) /\ UNCHANGED <<batch, outer, seen, pc, attempt, reply>>
         ELSE IF pending = {}
              THEN /\ main' = "assembling"
                   /\ UNCHANGED <<cause, batch, outer, seen, pc, attempt, reply>>
              ELSE NextBatch
  /\ UNCHANGED <<request, frontVars, plan, pending, doomed, endVars, slots, results,
                 callVars>>

-----------------------------------------------------------------------------
(* Synthesis and the end of the run *)

Synthesize ==
  /\ MainAt("assembling")
  /\ CloudCall("synthesize", "synthesizing")
  /\ UNCHANGED <<request, frontVars, taskVars, hit, endVars, pc, attempt, reply, slots,
                 results>>

SynthesisReturns ==
  /\ MainAt("synthesizing")
  /\ \/ main' = "completing" /\ UNCHANGED cause
     \/ \E e \in {"invalid", "error", "timeout", "crash"} : Raise(e)
  /\ UNCHANGED <<request, frontVars, taskVars, hit, endVars, jobVars>>

\* Mutant of Close: every terminal event carries the same name.
CloseUnnamed(name) == closing' = Append(closing, "run_completed")

\* A terminal event reaches the callback.
Close(name) == closing' = Append(closing, name)

SendCompleted ==
  /\ MainAt("completing")
  /\ Close("run_completed")
  /\ main' = "completed"
  /\ UNCHANGED <<request, frontVars, taskVars, hit, expired, cancels, cause, jobVars>>

ReturnAnswer ==
  /\ MainAt("completed")
  /\ main' = "returned"
  /\ UNCHANGED <<request, frontVars, taskVars, hit, endVars, cause, jobVars>>

SendFailed ==
  /\ MainAt("failing")
  /\ Close("run_failed")
  /\ main' = "reported"
  /\ UNCHANGED <<request, frontVars, taskVars, hit, expired, cancels, cause, jobVars>>

RaiseError ==
  /\ MainAt("reported")
  /\ main' = "raised"
  /\ UNCHANGED <<request, frontVars, taskVars, hit, endVars, cause, jobVars>>

\* run_cancelled is shielded: it is delivered even if the caller cancels again.  Then run
\* raises at once, while the delivery goes on; here both are one step.
SendCancelled ==
  /\ main = "cancelling"
  /\ Close("run_cancelled")
  /\ hit' = FALSE
  /\ main' = "cancelled"
  /\ UNCHANGED <<request, frontVars, taskVars, expired, cancels, cause, jobVars>>

\* CancelledError at an await of the main coroutine other than the two gathers.
Interrupted ==
  /\ hit
  /\ main \in FrontStates \cup FinalStates
  /\ hit' = FALSE
  /\ Raise("cancelled")
  /\ UNCHANGED <<request, frontVars, taskVars, endVars, jobVars>>

\* The same while run_failed is being reported: nothing catches it.
ReportInterrupted ==
  /\ hit
  /\ main \in {"failing", "reported"}
  /\ hit' = FALSE
  /\ main' = "cancelled"
  /\ UNCHANGED <<request, frontVars, taskVars, endVars, cause, jobVars>>

-----------------------------------------------------------------------------
(* Interruption *)

\* Task.cancel on the main coroutine.  While it awaits an unsettled gather the
\* cancellation goes to the running jobs instead, and comes back through them.
CancelMain ==
  LET running == {t \in batch : Active(t)}
  IN  IF main = "gather" /\ outer = "pending" /\ running # {}
      THEN doomed' = doomed \cup running /\ UNCHANGED hit
      ELSE hit' = TRUE /\ UNCHANGED doomed

\* The caller cancels the run.
CallerCancels ==
  /\ main \notin EndedStates
  /\ cancels < MaxCancels
  /\ cancels' = cancels + 1
  /\ CancelMain
  /\ UNCHANGED <<request, main, frontVars, plan, pending, batch, outer, seen, raised,
                 expired, closing, cause, jobVars>>

\* run_timeout elapses inside the timeout block.
DeadlineExpires ==
  /\ main \in TimedStates
  /\ ~expired
  /\ expired' = TRUE
  /\ CancelMain
  /\ UNCHANGED <<request, main, frontVars, plan, pending, batch, outer, seen, raised,
                 cancels, closing, cause, jobVars>>

-----------------------------------------------------------------------------
MainStep ==
  \/ Start \/ ExtractReturns \/ SkipTier \/ SolveReturns \/ CritiqueReturns \/ Decide
  \/ EscalateToCloud \/ AnswerReturns \/ PlanReturns
  \/ StartTasks \/ GatherReturns \/ CleanupReturns
  \/ Synthesize \/ SynthesisReturns
  \/ SendCompleted \/ ReturnAnswer \/ SendFailed \/ RaiseError \/ SendCancelled
  \/ Interrupted \/ ReportInterrupted

JobStep(t) == Worker(t) /\ UNCHANGED mainVars

\* The run is over and stays so.
Ended == main \in EndedStates /\ UNCHANGED vars

Next ==
  \/ MainStep
  \/ \E t \in Tasks : JobStep(t) \/ JobCallback(t)
  \/ CallerCancels
  \/ DeadlineExpires
  \/ Ended

Spec == Init /\ [][Next]_vars

(***************************************************************************)
(* The event loop runs every coroutine that can run; every provider call   *)
(* ends within call_timeout and every event within one second.  Nothing    *)
(* obliges the deadline to expire or the caller to cancel.                 *)
(***************************************************************************)
Fairness ==
  /\ WF_vars(MainStep)
  /\ \A t \in Tasks : WF_vars(JobStep(t)) /\ WF_vars(JobCallback(t))

FairSpec == Spec /\ Fairness
=============================================================================
