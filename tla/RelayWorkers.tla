---------------------------- MODULE RelayWorkers ----------------------------
(***************************************************************************)
(* The jobs of one run: for every subtask of the plan, the coroutine       *)
(* _Run.worker together with the call_with_record it awaits, the cloud     *)
(* budget and the semaphore local_slots that all jobs share.               *)
(*                                                                         *)
(* asyncio runs one coroutine at a time, from one await to the next, so    *)
(* every action below is the code between two awaits and pc[t] is the      *)
(* await where job t is suspended:                                         *)
(*   waiting    local_slots.acquire (after the task_escalated event)       *)
(*   starting   the task_started event, slot held if the tier is local     *)
(*   calling    provider.complete, record outcome "started"                *)
(*   replied    the call_finished event, slot still held                   *)
(*   rejecting  the task_invalid event                                     *)
(*   accepting  the task_completed event, result already stored            *)
(* A job that asyncio has been told to cancel is doomed: whatever it       *)
(* awaits, its next step raises CancelledError.                            *)
(***************************************************************************)
EXTENDS PlanGraph

VARIABLES
  plan,         \* the validated plan
  results,      \* ids with an accepted result (keys of _Run.results)
  pc,           \* where each job is suspended
  attempt,      \* index into WorkerTiers of the current attempt
  reply,        \* what the last attempt came to, or the exception of a failed job
  doomed,       \* jobs with a pending cancellation
  slots,        \* free permits of local_slots
  cloudCalls,   \* CloudBudget.calls
  workerCalls   \* CloudBudget.worker_calls

jobVars == <<pc, attempt, reply, slots, results, cloudCalls, workerCalls>>

ActiveStates   == {"waiting", "starting", "calling", "replied", "rejecting", "accepting"}
FinishedStates == {"done", "failed", "cancelled"}

\* What a call can come to: a value that passes its checks, one that does not, a
\* RelayError of the provider, the TimeoutError of call_timeout, anything else.
CallResults == {"valid", "invalid", "error", "timeout", "crash"}

Active(t)   == pc[t] \in ActiveStates
Finished(t) == pc[t] \in FinishedStates

\* The tier of attempt k at task t, and of the attempt under way.
AttemptTier(t, k) == WorkerTiers(plan.tier[t])[k]
Tier(t) == AttemptTier(t, attempt[t])

\* Where attempt k at task t begins: only local tiers queue for a slot.
Entry(t, k) == IF AttemptTier(t, k) = "cloud" THEN "starting" ELSE "waiting"

\* Job t holds a permit of local_slots.
Holds(t) == pc[t] \in {"starting", "calling", "replied"} /\ Tier(t) # "cloud"

\* Mutants of SlotsAfterExit: an exit that keeps its permit, and one that gives
\* back a permit it never took.
SlotsLeaked(t) == IF Holds(t) /\ t \notin doomed THEN slots + 1 ELSE slots
SlotsOverReleased(t) == slots + 1

\* Leaving `async with self.local_slots`, by whatever exit.
SlotsAfterExit(t) == IF Holds(t) THEN slots + 1 ELSE slots

\* Job t is at the given await and not about to be cancelled.
At(t, state) == pc[t] = state /\ t \notin doomed

Goto(t, state) == pc' = [pc EXCEPT ![t] = state]

-----------------------------------------------------------------------------
\* The semaphore lets job t in.
AcquireSlot(t) ==
  /\ At(t, "waiting")
  /\ slots > 0
  /\ slots' = slots - 1
  /\ Goto(t, "starting")
  /\ UNCHANGED <<attempt, reply, results, cloudCalls, workerCalls>>

\* call_with_record up to the provider call.  A cloud call is paid for first;
\* the BudgetError of a refused one ends the job.
StartCall(t) ==
  /\ At(t, "starting")
  /\ IF Tier(t) = "cloud"
     THEN IF BudgetAllows("work", cloudCalls, workerCalls)
          THEN /\ cloudCalls' = cloudCalls + 1
               /\ workerCalls' = workerCalls + 1
               /\ Goto(t, "calling")
               /\ UNCHANGED reply
          ELSE /\ Goto(t, "failed")
               /\ reply' = [reply EXCEPT ![t] = "budget"]
               /\ UNCHANGED <<cloudCalls, workerCalls>>
     ELSE /\ Goto(t, "calling")
          /\ UNCHANGED <<reply, cloudCalls, workerCalls>>
  /\ UNCHANGED <<attempt, slots, results>>

\* The provider answers, raises a RelayError, exceeds call_timeout (TimeoutError)
\* or raises anything else.
Reply(t) ==
  /\ At(t, "calling")
  /\ \E r \in CallResults : reply' = [reply EXCEPT ![t] = r]
  /\ Goto(t, "replied")
  /\ UNCHANGED <<attempt, slots, results, cloudCalls, workerCalls>>

\* call_finished is delivered and the slot given back.  A value that passes
\* validate_result is stored before task_completed is emitted; a RelayError or an
\* invalid value makes a failed attempt; every other exception ends the job.
FinishCall(t) ==
  /\ At(t, "replied")
  /\ slots' = SlotsAfterExit(t)
  /\ Goto(t, CASE reply[t] = "valid"               -> "accepting"
               [] reply[t] \in {"invalid", "error"} -> "rejecting"
               [] OTHER                             -> "failed")
  /\ results' = IF reply[t] = "valid" THEN results \cup {t} ELSE results
  /\ UNCHANGED <<attempt, reply, cloudCalls, workerCalls>>

\* Mutant of NextAttempt: the attempt counter is not advanced.
NextAttemptForever(t) ==
  /\ At(t, "rejecting")
  /\ reply' = [reply EXCEPT ![t] = "none"]
  /\ Goto(t, Entry(t, attempt[t]))
  /\ UNCHANGED <<attempt, slots, results, cloudCalls, workerCalls>>

\* After task_invalid: the next attempt, or ValidationError when none is left.
NextAttempt(t) ==
  /\ At(t, "rejecting")
  /\ IF attempt[t] < Len(WorkerTiers(plan.tier[t]))
     THEN /\ attempt' = [attempt EXCEPT ![t] = @ + 1]
          /\ reply' = [reply EXCEPT ![t] = "none"]
          /\ Goto(t, Entry(t, attempt[t] + 1))
     ELSE /\ reply' = [reply EXCEPT ![t] = "invalid"]
          /\ Goto(t, "failed")
          /\ UNCHANGED attempt
  /\ UNCHANGED <<slots, results, cloudCalls, workerCalls>>

\* task_completed is delivered and worker returns its value.
FinishTask(t) ==
  /\ At(t, "accepting")
  /\ Goto(t, "done")
  /\ UNCHANGED <<attempt, reply, slots, results, cloudCalls, workerCalls>>

\* CancelledError at the await where the job is suspended.
CancelJob(t) ==
  /\ t \in doomed
  /\ Active(t)
  /\ slots' = SlotsAfterExit(t)
  /\ Goto(t, "cancelled")
  /\ UNCHANGED <<attempt, reply, results, cloudCalls, workerCalls>>

Worker(t) ==
  \/ AcquireSlot(t)
  \/ StartCall(t)
  \/ Reply(t)
  \/ FinishCall(t)
  \/ NextAttempt(t)
  \/ FinishTask(t)
  \/ CancelJob(t)
=============================================================================
