-------------------------- MODULE RelayTaskProofs --------------------------
(***************************************************************************)
(* Every variable of RelayEngine keeps its type (TypeInv).  A plan that    *)
(* was accepted is executed completely, in the order of its dependencies,  *)
(* each task once, without getting stuck, and without a job outliving      *)
(* run_tasks (TaskInv).  And RelayEngine implements PlanExecution.         *)
(***************************************************************************)
EXTENDS RelayProperties, FiniteSetTheorems, TLAPS

-----------------------------------------------------------------------------
(***************************************************************************)
(* Types.  They are inductive together with LoopFacts (the counters of the *)
(* loops over local models and planner attempts stay in range where they   *)
(* index a tier) and ReplyFacts (a finished call has a reply, a failed job *)
(* an exception).  The bound on the semaphore's permits is not inductive   *)
(* by itself: see RelayRunProofs.                                          *)
(***************************************************************************)

\* Where the loop counters of judge_locally and make_plan stand.
LoopFacts ==
  /\ main \in {"skipping", "solving", "critiquing", "deciding"} => rung \in 1..Len(LocalTiers)
  /\ main = "solving" => sample < LocalSamples
  /\ main \in {"starting", "extracting", "skipping", "solving", "critiquing", "deciding", "escalated"}
       => planTry = 0

\* Which replies a job can have where.
ReplyFacts ==
  \A t \in Tasks : /\ pc[t] = "replied" => reply[t] \in CallResults
                   /\ pc[t] = "failed" => reply[t] \in Errors

TypeInv == RouteTypes /\ TaskTypes /\ EndTypes /\ JobTypes /\ LoopFacts /\ ReplyFacts

-----------------------------------------------------------------------------
(* What each kind of step leaves alone. *)

\* Only the two actions that start a batch touch the jobs.
LEMMA MainLeavesJobs ==
  ASSUME MainStep
  PROVE  /\ UNCHANGED <<slots, results, request>>
         /\ UNCHANGED <<pc, attempt, reply>> \/ StartTasks \/ CleanupReturns
<1> USE DEF jobVars, callVars
<1>1. CASE Start \/ ExtractReturns \/ SkipTier \/ SolveReturns \/ CritiqueReturns \/ Decide
  BY <1>1 DEF Start, ExtractReturns, SkipTier, SolveReturns, CritiqueReturns, Decide
<1>2. CASE EscalateToCloud \/ AnswerReturns \/ PlanReturns \/ Synthesize \/ SynthesisReturns
  BY <1>2 DEF EscalateToCloud, AnswerReturns, PlanReturns, Synthesize, SynthesisReturns
<1>3. CASE StartTasks \/ GatherReturns \/ CleanupReturns
  BY <1>3 DEF StartTasks, GatherReturns, CleanupReturns
<1>4. CASE SendCompleted \/ ReturnAnswer \/ SendFailed \/ RaiseError \/ SendCancelled
             \/ Interrupted \/ ReportInterrupted
  BY <1>4 DEF SendCompleted, ReturnAnswer, SendFailed, RaiseError, SendCancelled,
              Interrupted, ReportInterrupted
<1>5. QED
  BY <1>1, <1>2, <1>3, <1>4 DEF MainStep

\* Only run_tasks and the acceptance of a plan touch the state of run_tasks.
LEMMA MainLeavesTasks ==
  ASSUME MainStep
  PROVE  UNCHANGED taskVars \/ PlanReturns \/ StartTasks \/ GatherReturns \/ CleanupReturns
<1> USE DEF taskVars
<1>1. CASE Start \/ ExtractReturns \/ SkipTier \/ SolveReturns \/ CritiqueReturns \/ Decide
  BY <1>1 DEF Start, ExtractReturns, SkipTier, SolveReturns, CritiqueReturns, Decide
<1>2. CASE EscalateToCloud \/ AnswerReturns \/ Synthesize \/ SynthesisReturns
  BY <1>2 DEF EscalateToCloud, AnswerReturns, Synthesize, SynthesisReturns
<1>3. CASE SendCompleted \/ ReturnAnswer \/ SendFailed \/ RaiseError \/ SendCancelled
             \/ Interrupted \/ ReportInterrupted
  BY <1>3 DEF SendCompleted, ReturnAnswer, SendFailed, RaiseError, SendCancelled,
              Interrupted, ReportInterrupted
<1>4. QED
  BY <1>1, <1>2, <1>3 DEF MainStep

\* A step of a job, of the gather future, of the caller or of the timer leaves the
\* main coroutine where it is.
LEMMA OthersLeaveMain ==
  ASSUME \/ \E t \in Tasks : JobStep(t) \/ JobCallback(t)
         \/ CallerCancels
         \/ DeadlineExpires
         \/ Ended
         \/ UNCHANGED vars
  PROVE  UNCHANGED <<request, main, frontVars, plan, pending, batch, raised, closing, cause>>
BY DEF JobStep, JobCallback, CallerCancels, DeadlineExpires, Ended, vars, mainVars,
       frontVars, endVars, taskVars

\* Only jobs change jobs while the main coroutine is suspended.
LEMMA OthersLeaveJobs ==
  ASSUME \/ \E t \in Tasks : JobCallback(t)
         \/ CallerCancels
         \/ DeadlineExpires
         \/ Ended
         \/ UNCHANGED vars
  PROVE  UNCHANGED jobVars
BY DEF JobCallback, CallerCancels, DeadlineExpires, Ended, vars

-----------------------------------------------------------------------------
(* Types *)

LEMMA TierFacts ==
  /\ Len(LocalTiers) \in Nat \ {0}
  /\ \A i \in 1..Len(LocalTiers) : LocalTiers[i] \in TierNames
BY DEF LocalTiers, TierNames

\* Where one turn of the loop over the local tiers leads.
LEMMA Climbing ==
  ASSUME RouteTypes, NEW k \in 0..Len(LocalTiers), ClimbFrom(k)
  PROVE  /\ main' \in {"skipping", "solving", "escalated"}
         /\ rung' \in 0..Len(LocalTiers) + 1
         /\ main' \in {"skipping", "solving"} => rung' \in 1..Len(LocalTiers)
         /\ sample' = 0
         /\ skipped' \subseteq TierNames
         /\ route' \in TierNames \cup {"none"}
<1>1. LocalTiers[k + 1] \in TierNames \/ ~(k < Len(LocalTiers))
  BY TierFacts
<1>2. "cloud" \in TierNames
  BY DEF TierNames
<1>3. skipped' \subseteq TierNames /\ route' \in TierNames \cup {"none"}
  BY <1>1, <1>2 DEF ClimbFrom, RouteTypes
<1>4. rung' = k + 1 /\ sample' = 0
  BY DEF ClimbFrom
<1>5. main' \in {"skipping", "solving", "escalated"} /\ (main' \in {"skipping", "solving"} => k < Len(LocalTiers))
  BY DEF ClimbFrom
<1>6. QED
  BY <1>3, <1>4, <1>5, TierFacts

LEMMA TypeInit == Init => TypeInv
<1> SUFFICES ASSUME Init PROVE TypeInv
  OBVIOUS
<1>1. RouteTypes /\ LoopFacts
  BY TierFacts, PolicyAssumption, InputsAssumption
  DEF Init, RouteTypes, LoopFacts, TimedStates, FrontStates
<1>2. NoPlan \in PlanType
  BY DEF NoPlan, PlanType, TierNames
<1>3. TaskTypes
  BY <1>2 DEF Init, TaskTypes
<1>4. EndTypes
  BY InputsAssumption DEF Init, EndTypes
<1>5. JobTypes /\ ReplyFacts
  BY LimitsAssumption DEF Init, JobTypes, ReplyFacts
<1>6. QED
  BY <1>1, <1>3, <1>4, <1>5 DEF TypeInv

\* The main coroutine keeps the routing variables typed and its loops in range.
LEMMA RouteTypesMain ==
  ASSUME TypeInv, MainStep
  PROVE  (RouteTypes /\ LoopFacts)'
<1> USE TierFacts, PolicyAssumption
<1> USE DEF RouteTypes, LoopFacts, TimedStates, FrontStates, TaskStates, FinalStates, EndedStates
<1>0. RouteTypes /\ LoopFacts /\ request' = request
  BY MainLeavesJobs DEF TypeInv
<1>1. CASE Start
  BY <1>0, <1>1, Climbing DEF Start, MainAt
<1>2. CASE ExtractReturns
  <2>1. CASE ClimbFrom(0)
    BY <1>0, <1>2, <2>1, Climbing DEF ExtractReturns, MainAt
  <2>2. CASE main' = "completing" /\ route' = "local" /\ UNCHANGED <<rung, sample, skipped>>
    BY <1>0, <1>2, <2>2 DEF ExtractReturns, MainAt, TierNames
  <2>3. CASE main' \in {"failing", "cancelling"} /\ UNCHANGED <<rung, sample, skipped, route>>
    BY <1>0, <1>2, <2>3 DEF ExtractReturns, MainAt
  <2>4. QED
    BY <1>2, <2>1, <2>2, <2>3 DEF ExtractReturns, Raise
<1>3. CASE SkipTier
  BY <1>0, <1>3, Climbing DEF SkipTier, MainAt
<1>4. CASE SolveReturns
  BY <1>0, <1>4 DEF SolveReturns, MainAt, Raise
<1>5. CASE CritiqueReturns
  BY <1>0, <1>5 DEF CritiqueReturns, MainAt, Raise
<1>6. CASE Decide
  BY <1>0, <1>6, Climbing DEF Decide, MainAt
<1>7. CASE EscalateToCloud
  BY <1>0, <1>7 DEF EscalateToCloud, MainAt, PlannerCall, CloudCall, Raise
<1>8. CASE PlanReturns
  BY <1>0, <1>8 DEF PlanReturns, MainAt, PlannerCall, CloudCall, Raise
<1>9. CASE AnswerReturns \/ Synthesize \/ SynthesisReturns
  BY <1>0, <1>9 DEF AnswerReturns, Synthesize, SynthesisReturns, CloudCall, Raise, frontVars
<1>10. CASE StartTasks \/ GatherReturns \/ CleanupReturns
  BY <1>0, <1>10 DEF StartTasks, GatherReturns, CleanupReturns, NextBatch, Raise, frontVars
<1>11. CASE SendCompleted \/ ReturnAnswer \/ SendFailed \/ RaiseError \/ SendCancelled
              \/ Interrupted \/ ReportInterrupted
  BY <1>0, <1>11 DEF SendCompleted, ReturnAnswer, SendFailed, RaiseError, SendCancelled,
     Interrupted, ReportInterrupted, Raise, frontVars
<1>12. QED
  BY <1>1, <1>2, <1>3, <1>4, <1>5, <1>6, <1>7, <1>8, <1>9, <1>10, <1>11 DEF MainStep

\* The main coroutine keeps the state of run_tasks typed.
LEMMA TaskTypesMain ==
  ASSUME TypeInv, MainStep
  PROVE  TaskTypes'
<1>0. TaskTypes
  BY DEF TypeInv
<1>1. CASE PlanReturns
  BY <1>0, <1>1, InputsAssumption DEF PlanReturns, TaskTypes, PlanType
<1>2. CASE StartTasks
  BY <1>0, <1>2 DEF StartTasks, NextBatch, Ready, TaskTypes
<1>3. CASE GatherReturns
  BY <1>0, <1>3 DEF GatherReturns, Collected, CancelledByFinally, TaskTypes
<1>4. CASE CleanupReturns
  BY <1>0, <1>4 DEF CleanupReturns, NextBatch, Ready, TaskTypes
<1>5. CASE UNCHANGED taskVars
  BY <1>0, <1>5 DEF taskVars, TaskTypes
<1>6. QED
  BY <1>1, <1>2, <1>3, <1>4, <1>5, MainLeavesTasks

\* The main coroutine keeps the record of how the run ends typed.
LEMMA EndTypesMain ==
  ASSUME TypeInv, MainStep
  PROVE  EndTypes'
<1> USE DEF EndTypes, Errors, Raise, endVars
<1>0. EndTypes /\ TaskTypes
  BY DEF TypeInv
<1>1. CASE Start \/ SkipTier \/ Decide \/ ReturnAnswer \/ RaiseError
  BY <1>0, <1>1 DEF Start, SkipTier, Decide, ReturnAnswer, RaiseError
<1>2. CASE ExtractReturns \/ SolveReturns \/ CritiqueReturns \/ AnswerReturns \/ SynthesisReturns
  BY <1>0, <1>2 DEF ExtractReturns, SolveReturns, CritiqueReturns, AnswerReturns, SynthesisReturns
<1>3. CASE EscalateToCloud \/ Synthesize
  BY <1>0, <1>3 DEF EscalateToCloud, Synthesize, PlannerCall, CloudCall
<1>4. CASE PlanReturns
  BY <1>0, <1>4 DEF PlanReturns, PlannerCall, CloudCall
<1>5. CASE StartTasks \/ GatherReturns
  BY <1>0, <1>5 DEF StartTasks, GatherReturns, NextBatch
<1>6. CASE CleanupReturns
  BY <1>0, <1>6 DEF CleanupReturns, NextBatch, TaskTypes
<1>7. CASE SendCompleted \/ SendFailed \/ SendCancelled
  BY <1>0, <1>7 DEF SendCompleted, SendFailed, SendCancelled, Close
<1>8. CASE Interrupted \/ ReportInterrupted
  BY <1>0, <1>8 DEF Interrupted, ReportInterrupted
<1>9. QED
  BY <1>1, <1>2, <1>3, <1>4, <1>5, <1>6, <1>7, <1>8 DEF MainStep

\* A batch gives its jobs their first state and leaves the others alone.
LEMMA BatchJobs ==
  ASSUME TypeInv, NextBatch
  PROVE  /\ pc' \in [Tasks -> {"idle"} \cup ActiveStates \cup FinishedStates]
         /\ attempt' \in [Tasks -> Nat]
         /\ reply' \in [Tasks -> CallResults \cup {"none", "budget"}]
         /\ \A t \in Tasks : \/ pc'[t] = pc[t] /\ reply'[t] = reply[t]
                             \/ pc'[t] \in {"waiting", "starting"}
<1> USE DEF NextBatch, Entry, ActiveStates, CallResults
<1>0. JobTypes
  BY DEF TypeInv
<1>1. CASE Ready = {}
  BY <1>0, <1>1 DEF JobTypes
<1>2. CASE Ready # {}
  <2>1. pc' = [t \in Tasks |-> IF t \in Ready THEN Entry(t, 1) ELSE pc[t]]
    BY <1>2
  <2>2. \A t \in Tasks : Entry(t, 1) \in {"waiting", "starting"}
    OBVIOUS
  <2> HIDE DEF Entry
  <2>3. pc' \in [Tasks -> {"idle"} \cup ActiveStates \cup FinishedStates]
    BY <1>0, <2>1, <2>2 DEF JobTypes
  <2>4. attempt' \in [Tasks -> Nat] /\ reply' \in [Tasks -> CallResults \cup {"none", "budget"}]
    BY <1>0, <1>2 DEF JobTypes
  <2>5. reply' = [t \in Tasks |-> IF t \in Ready THEN "none" ELSE reply[t]]
    BY <1>2
  <2>6. QED
    BY <2>1, <2>2, <2>3, <2>4, <2>5
<1>3. QED
  BY <1>1, <1>2

LEMMA JobTypesMain ==
  ASSUME TypeInv, MainStep
  PROVE  (JobTypes /\ ReplyFacts)'
<1>0. JobTypes /\ ReplyFacts /\ UNCHANGED <<slots, results>>
  BY MainLeavesJobs DEF TypeInv
<1>1. cloudCalls' \in Nat /\ workerCalls' \in Nat
  <2> USE DEF JobTypes, jobVars, callVars
  <2>1. CASE EscalateToCloud \/ Synthesize \/ PlanReturns
    BY <1>0, <2>1 DEF EscalateToCloud, Synthesize, PlanReturns, PlannerCall, CloudCall
  <2>2. CASE Start \/ ExtractReturns \/ SkipTier \/ SolveReturns \/ CritiqueReturns \/ Decide
               \/ AnswerReturns \/ StartTasks \/ GatherReturns \/ CleanupReturns \/ SynthesisReturns
    BY <1>0, <2>2 DEF Start, ExtractReturns, SkipTier, SolveReturns, CritiqueReturns, Decide,
       AnswerReturns, StartTasks, GatherReturns, CleanupReturns, SynthesisReturns
  <2>3. CASE SendCompleted \/ ReturnAnswer \/ SendFailed \/ RaiseError \/ SendCancelled
               \/ Interrupted \/ ReportInterrupted
    BY <1>0, <2>3 DEF SendCompleted, ReturnAnswer, SendFailed, RaiseError, SendCancelled,
       Interrupted, ReportInterrupted
  <2>4. QED
    BY <2>1, <2>2, <2>3 DEF MainStep
<1>2. CASE UNCHANGED <<pc, attempt, reply>>
  BY <1>0, <1>1, <1>2 DEF JobTypes, ReplyFacts
<1>3. CASE NextBatch
  BY <1>0, <1>1, <1>3, BatchJobs DEF JobTypes, ReplyFacts
<1>4. QED
  BY <1>2, <1>3, MainLeavesJobs DEF StartTasks, CleanupReturns

LEMMA JobTypesWorker ==
  ASSUME TypeInv, NEW t \in Tasks, Worker(t)
  PROVE  (JobTypes /\ ReplyFacts)'
<1> USE DEF JobTypes, ReplyFacts, At, Goto, ActiveStates, FinishedStates, CallResults, Errors
<1>0. JobTypes /\ ReplyFacts
  BY DEF TypeInv
<1>1. CASE AcquireSlot(t)
  BY <1>0, <1>1 DEF AcquireSlot
<1>2. CASE StartCall(t)
  BY <1>0, <1>2 DEF StartCall
<1>3. CASE Reply(t)
  BY <1>0, <1>3 DEF Reply
<1>4. CASE FinishCall(t)
  BY <1>0, <1>4 DEF FinishCall, SlotsAfterExit
<1>5. CASE NextAttempt(t)
  <2>1. Entry(t, attempt[t] + 1) \in {"waiting", "starting"}
    BY DEF Entry
  <2>2. CASE /\ attempt' = [attempt EXCEPT ![t] = @ + 1]
             /\ reply' = [reply EXCEPT ![t] = "none"]
             /\ pc' = [pc EXCEPT ![t] = Entry(t, attempt[t] + 1)]
    BY <1>0, <1>5, <2>1, <2>2 DEF NextAttempt
  <2>3. CASE /\ attempt' = attempt
             /\ reply' = [reply EXCEPT ![t] = "invalid"]
             /\ pc' = [pc EXCEPT ![t] = "failed"]
    BY <1>0, <1>5, <2>3 DEF NextAttempt
  <2>4. QED
    BY <1>5, <2>2, <2>3 DEF NextAttempt
<1>6. CASE FinishTask(t)
  BY <1>0, <1>6 DEF FinishTask
<1>7. CASE CancelJob(t)
  BY <1>0, <1>7 DEF CancelJob, SlotsAfterExit
<1>8. QED
  BY <1>1, <1>2, <1>3, <1>4, <1>5, <1>6, <1>7 DEF Worker

LEMMA TypeNext == TypeInv /\ [Next]_vars => TypeInv'
<1> SUFFICES ASSUME TypeInv, [Next]_vars PROVE TypeInv'
  OBVIOUS
<1>0. RouteTypes /\ TaskTypes /\ EndTypes /\ JobTypes /\ LoopFacts /\ ReplyFacts
  BY DEF TypeInv
<1>1. CASE MainStep
  BY <1>1, RouteTypesMain, TaskTypesMain, EndTypesMain, JobTypesMain DEF TypeInv
<1>2. ASSUME NEW t \in Tasks, JobStep(t) PROVE TypeInv'
  <2>1. (JobTypes /\ ReplyFacts)'
    BY <1>2, JobTypesWorker DEF JobStep
  <2>2. (RouteTypes /\ LoopFacts)' /\ TaskTypes' /\ EndTypes'
    BY <1>0, <1>2 DEF JobStep, mainVars, RouteTypes, LoopFacts, TaskTypes, EndTypes
  <2>3. QED
    BY <2>1, <2>2 DEF TypeInv
<1>3. CASE \/ \E t \in Tasks : JobCallback(t)
           \/ CallerCancels
           \/ DeadlineExpires
           \/ Ended
           \/ UNCHANGED vars
  <2>1. (JobTypes /\ ReplyFacts)'
    BY <1>0, <1>3, OthersLeaveJobs DEF jobVars, JobTypes, ReplyFacts
  <2>2. (RouteTypes /\ LoopFacts)'
    BY <1>0, <1>3, OthersLeaveMain DEF frontVars, RouteTypes, LoopFacts
  <2>3. EndTypes'
    BY <1>0, <1>3, InputsAssumption
    DEF JobCallback, CallerCancels, DeadlineExpires, Ended, CancelMain, endVars, vars, mainVars, EndTypes
  <2>4. TaskTypes'
    <3>1. ASSUME NEW t \in Tasks, JobCallback(t) PROVE TaskTypes'
      <4>1. Settle(t) \in {"pending", "values", "cancelled"} \cup Errors
        BY <1>0 DEF Settle, ReplyFacts, TaskTypes
      <4>2. QED
        BY <1>0, <3>1, <4>1 DEF JobCallback, TaskTypes
    <3>2. CASE CallerCancels \/ DeadlineExpires \/ Ended \/ UNCHANGED vars
      BY <1>0, <3>2 DEF CallerCancels, DeadlineExpires, Ended, CancelMain, vars, mainVars, TaskTypes
    <3>3. QED
      BY <1>3, <3>1, <3>2
  <2>5. QED
    BY <2>1, <2>2, <2>3, <2>4 DEF TypeInv
<1>4. QED
  BY <1>1, <1>2, <1>3 DEF Next

-----------------------------------------------------------------------------
(***************************************************************************)
(* Tasks.  TaskInv says how pending, batch, results, the gather future and *)
(* the jobs fit together at each stage of the run.                         *)
(***************************************************************************)

\* Before there is a plan there is nothing else of run_tasks either.
BeforePlan ==
  /\ main \in FrontStates \ {"planned"} => plan = NoPlan /\ pending = {}
  /\ main \in FrontStates => batch = {} /\ results = {} /\ \A t \in Tasks : pc[t] = "idle"
  /\ main = "planned" => pending = plan.ids

\* What is not pending has a result; an accepted plan is being executed.
PlanProgress ==
  /\ pending \subseteq plan.ids
  /\ plan.ids \ pending \subseteq results
  /\ main \in {"planned"} \cup TaskStates => Accepts(plan)
  /\ main \in FinalStates \cup {"returned"} => pending = {}

\* What is known of a job, wherever the main coroutine is.
JobFacts ==
  \A t \in Tasks :
    /\ pc[t] # "idle" => t \in plan.ids /\ plan.deps[t] \subseteq results
    /\ Active(t) => t \in batch /\ main \in TaskStates
    /\ t \in results => pc[t] \in {"accepting", "done", "cancelled"} /\ reply[t] = "valid"
    /\ pc[t] \in {"accepting", "done"} => t \in results

\* How the batch, the gather future and the jobs fit together.
BatchFacts ==
  /\ main \in TaskStates => \A t \in pending \ batch : pc[t] = "idle"
  /\ main = "gather" =>
       /\ batch \subseteq pending
       /\ outer = "pending" => \A t \in seen : pc[t] = "done"
       /\ outer = "values" => \A t \in batch : pc[t] = "done"
  /\ main = "cleanup" =>
       /\ raised = "none" => batch \cap pending = {}
       /\ \A t \in Tasks : Active(t) => t \in doomed

\* "No executable task remains" is never raised.
NoStuckError == cause # "stuck" /\ outer # "stuck" /\ raised # "stuck"

TaskInv == BeforePlan /\ PlanProgress /\ JobFacts /\ BatchFacts /\ NoStuckError

-----------------------------------------------------------------------------
(* The main coroutine outside run_tasks *)

\* From where to where the main coroutine moves when it touches neither plan nor jobs.
LEMMA MainMoves ==
  ASSUME TypeInv, MainStep, ~PlanReturns, ~StartTasks, ~GatherReturns, ~CleanupReturns
  PROVE  /\ UNCHANGED <<taskVars, pc, attempt, reply, slots, results>>
         /\ \/ main \in FrontStates \ {"planned"} /\ main' \in (FrontStates \ {"planned"}) \cup {"completing"}
            \/ main \in FinalStates /\ main' \in FinalStates \cup {"returned"}
            \/ main' \in {"failing", "reported", "cancelling", "raised", "cancelled"}
                 /\ main \notin TaskStates
         /\ cause # "stuck" => cause' # "stuck"
<1> USE DEF FrontStates, TaskStates, FinalStates
<1>0. UNCHANGED <<taskVars, pc, attempt, reply, slots, results>>
  BY MainLeavesJobs, MainLeavesTasks
<1>1. CASE Start \/ SkipTier \/ Decide
  BY <1>0, <1>1 DEF Start, SkipTier, Decide, ClimbFrom, MainAt
<1>2. CASE ExtractReturns
  BY <1>0, <1>2 DEF ExtractReturns, ClimbFrom, MainAt, Raise
<1>3. CASE SolveReturns \/ CritiqueReturns
  BY <1>0, <1>3 DEF SolveReturns, CritiqueReturns, MainAt, Raise
<1>4. CASE EscalateToCloud \/ AnswerReturns
  BY <1>0, <1>4 DEF EscalateToCloud, AnswerReturns, MainAt, PlannerCall, CloudCall, Raise
<1>5. CASE Synthesize \/ SynthesisReturns
  BY <1>0, <1>5 DEF Synthesize, SynthesisReturns, MainAt, CloudCall, Raise
<1>6. CASE SendCompleted \/ ReturnAnswer \/ SendFailed \/ RaiseError \/ SendCancelled
  BY <1>0, <1>6 DEF SendCompleted, ReturnAnswer, SendFailed, RaiseError, SendCancelled, MainAt
<1>7. CASE Interrupted \/ ReportInterrupted
  BY <1>0, <1>7 DEF Interrupted, ReportInterrupted, Raise
<1>8. QED
  BY <1>1, <1>2, <1>3, <1>4, <1>5, <1>6, <1>7 DEF MainStep

\* Such a move keeps TaskInv.
LEMMA TaskInvMoves ==
  ASSUME TypeInv, TaskInv, MainStep, ~PlanReturns, ~StartTasks, ~GatherReturns, ~CleanupReturns
  PROVE  TaskInv'
<1> USE DEF FrontStates, TaskStates, FinalStates, taskVars
<1>1. /\ UNCHANGED <<taskVars, pc, attempt, reply, slots, results>>
      /\ main' \notin TaskStates \cup {"planned"}
      /\ main \notin TaskStates
      /\ main' \in FrontStates => main \in FrontStates \ {"planned"}
      /\ main' \in FinalStates \cup {"returned"} => main \in (FrontStates \ {"planned"}) \cup FinalStates
      /\ cause # "stuck" => cause' # "stuck"
  BY MainMoves
<1>2. BeforePlan'
  BY <1>1 DEF TaskInv, BeforePlan
<1>3. PlanProgress'
  BY <1>1 DEF TaskInv, BeforePlan, PlanProgress
<1>4. JobFacts'
  BY <1>1 DEF TaskInv, JobFacts, Active
<1>5. BatchFacts' /\ NoStuckError'
  BY <1>1 DEF TaskInv, BatchFacts, NoStuckError
<1>6. QED
  BY <1>2, <1>3, <1>4, <1>5 DEF TaskInv

\* A planner reply that is refused, or fails, changes nothing of run_tasks; one
\* that is accepted starts it.
LEMMA TaskInvPlanReturns ==
  ASSUME TypeInv, TaskInv, PlanReturns
  PROVE  TaskInv'
<1> USE DEF FrontStates, TaskStates, FinalStates, ActiveStates
<1>1. /\ main = "planning"
      /\ UNCHANGED <<batch, outer, seen, raised, doomed, pc, reply, results>>
  BY DEF PlanReturns, MainAt
<1>2. results = {} /\ batch = {} /\ plan = NoPlan /\ pending = {} /\ \A t \in Tasks : pc[t] = "idle"
  BY <1>1 DEF TaskInv, BeforePlan
<1>3. JobFacts' /\ BatchFacts'
  <2>1. main' \notin TaskStates
    BY DEF PlanReturns, PlannerCall, CloudCall, Raise
  <2>2. QED
    BY <1>1, <1>2, <2>1 DEF JobFacts, BatchFacts, Active
<1>4. NoStuckError'
  <2>1. cause' # "stuck"
    BY DEF PlanReturns, PlannerCall, CloudCall, Raise, TaskInv, NoStuckError
  <2>2. QED
    BY <1>1, <2>1 DEF TaskInv, NoStuckError
<1>5. CASE UNCHANGED <<plan, pending>> /\ main' \in {"planning", "failing", "cancelling"}
  BY <1>1, <1>2, <1>3, <1>4, <1>5 DEF TaskInv, BeforePlan, PlanProgress, NoPlan
<1>6. CASE main' = "planned" /\ plan' \in Plans /\ Accepts(plan') /\ pending' = plan'.ids
  BY <1>1, <1>2, <1>3, <1>4, <1>6 DEF TaskInv, BeforePlan, PlanProgress
<1>7. QED
  BY <1>5, <1>6 DEF PlanReturns, PlannerCall, CloudCall, Raise

-----------------------------------------------------------------------------
(* run_tasks *)

\* Of an accepted plan some pending task is always executable.
LEMMA SomeTaskIsReady ==
  ASSUME TypeInv, PlanProgress, Accepts(plan), pending # {}
  PROVE  Ready # {}
<1>1. /\ pending \subseteq plan.ids
      /\ plan.ids \ pending \subseteq results
  BY DEF PlanProgress
<1>2. PICK t \in pending : plan.deps[t] \cap pending = {}
  BY <1>1 DEF Accepts, Acyclic
<1>3. plan.deps[t] \subseteq plan.ids \ {t}
  BY <1>1 DEF Accepts
<1>4. plan.deps[t] \subseteq results
  BY <1>1, <1>2, <1>3
<1>5. QED
  BY <1>4 DEF Ready

\* A new batch, started when no job runs and every pending task is untouched.
LEMMA TaskInvNextBatch ==
  ASSUME TypeInv, TaskInv, NextBatch,
         Accepts(plan), pending # {},
         \A t \in Tasks : ~Active(t),
         \A t \in pending : pc[t] = "idle",
         UNCHANGED <<plan, pending, doomed, results>>,
         raised' # "stuck"
  PROVE  TaskInv'
<1>0. TaskTypes /\ JobTypes
  BY DEF TypeInv
<1>1. Ready # {} /\ Ready \subseteq pending /\ pending \subseteq Tasks
  BY <1>0, SomeTaskIsReady DEF TaskInv, Ready, TaskTypes
<1>2. /\ batch' = Ready
      /\ outer' = "pending"
      /\ seen' = {}
      /\ main' = "gather"
      /\ cause' = cause
  BY <1>1 DEF NextBatch
<1>3. \A t \in Tasks : Entry(t, 1) \in {"waiting", "starting"}
  BY DEF Entry
<1>4. \A t \in Tasks : /\ t \in Ready => pc'[t] \in {"waiting", "starting"}
                       /\ t \notin Ready => pc'[t] = pc[t] /\ reply'[t] = reply[t]
  BY <1>1, <1>3 DEF NextBatch
<1>5. BeforePlan' /\ NoStuckError'
  BY <1>2 DEF BeforePlan, FrontStates, TaskInv, NoStuckError
<1>6. PlanProgress'
  BY <1>2 DEF TaskInv, PlanProgress, FinalStates
<1>7. JobFacts'
  <2> SUFFICES ASSUME NEW t \in Tasks
               PROVE  /\ pc'[t] # "idle" => t \in plan'.ids /\ plan'.deps[t] \subseteq results'
                      /\ Active(t)' => t \in batch' /\ main' \in TaskStates
                      /\ t \in results' => pc'[t] \in {"accepting", "done", "cancelled"} /\ reply'[t] = "valid"
                      /\ pc'[t] \in {"accepting", "done"} => t \in results'
    BY DEF JobFacts, Active
  <2>0. /\ pc[t] # "idle" => t \in plan.ids /\ plan.deps[t] \subseteq results
        /\ t \in results => pc[t] \in {"accepting", "done", "cancelled"} /\ reply[t] = "valid"
        /\ pc[t] \in {"accepting", "done"} => t \in results
    BY DEF TaskInv, JobFacts
  <2>1. CASE t \in Ready
    <3>1. t \in plan.ids /\ plan.deps[t] \subseteq results /\ pc[t] = "idle"
      BY <2>1 DEF Ready, TaskInv, PlanProgress
    <3>2. QED
      BY <1>2, <1>4, <2>0, <2>1, <3>1 DEF TaskStates
  <2>2. CASE t \notin Ready
    BY <1>2, <1>4, <2>0, <2>2 DEF Active
  <2>3. QED
    BY <2>1, <2>2
<1>8. BatchFacts'
  BY <1>1, <1>2, <1>4 DEF BatchFacts
<1>9. QED
  BY <1>5, <1>6, <1>7, <1>8 DEF TaskInv

LEMMA TaskInvStartTasks ==
  ASSUME TypeInv, TaskInv, StartTasks
  PROVE  TaskInv'
<1>1. main = "planned" /\ NextBatch /\ UNCHANGED <<plan, pending, doomed, results, raised>>
  BY DEF StartTasks, MainAt
<1>2. pending = plan.ids /\ \A t \in Tasks : pc[t] = "idle"
  BY <1>1 DEF TaskInv, BeforePlan, FrontStates
<1>3. Accepts(plan) /\ raised # "stuck"
  BY <1>1 DEF TaskInv, PlanProgress, NoStuckError
<1>4. pending # {}
  BY <1>2, <1>3, FS_EmptySet DEF Accepts
<1>5. pending \subseteq Tasks
  BY DEF TypeInv, TaskTypes
<1>6. QED
  BY <1>1, <1>2, <1>3, <1>4, <1>5, TaskInvNextBatch DEF Active, ActiveStates

\* The batch has its values, and they are collected, or it has an exception; in
\* both cases the jobs still running are told to stop.
LEMMA TaskInvGatherReturns ==
  ASSUME TypeInv, TaskInv, GatherReturns
  PROVE  TaskInv'
<1> USE DEF FrontStates, TaskStates, FinalStates
<1>1. /\ main = "gather"
      /\ main' = "cleanup"
      /\ UNCHANGED <<plan, batch, outer, seen, cause, results, pc, reply>>
      /\ doomed' = doomed \cup {t \in batch : Active(t)}
      /\ outer # "pending"
  BY DEF GatherReturns, jobVars, CancelledByFinally
<1>2. \/ raised' = "none" /\ outer = "values" /\ pending' = pending \ batch
      \/ raised' # "none" /\ raised' \in {"cancelled", outer} /\ pending' = pending
  <2>1. outer # "none"
    BY DEF TypeInv, TaskTypes, Errors
  <2>2. CASE raised' = "none"
    BY <2>1, <2>2 DEF GatherReturns, Collected
  <2>3. CASE raised' # "none"
    BY <2>1, <2>3 DEF GatherReturns
  <2>4. QED
    BY <2>2, <2>3
<1>3. BatchFacts /\ JobFacts /\ PlanProgress /\ NoStuckError
  BY DEF TaskInv
<1>4. BeforePlan' /\ NoStuckError'
  BY <1>1, <1>2, <1>3 DEF BeforePlan, NoStuckError
<1>5. JobFacts'
  BY <1>1, <1>3 DEF JobFacts, Active
<1>6. PlanProgress'
  <2>1. raised' = "none" => batch \subseteq results
    BY <1>1, <1>2, <1>3 DEF BatchFacts, JobFacts, TypeInv, TaskTypes
  <2>2. QED
    BY <1>1, <1>2, <1>3, <2>1 DEF PlanProgress
<1>7. BatchFacts'
  BY <1>1, <1>2, <1>3 DEF BatchFacts, JobFacts, Active
<1>8. QED
  BY <1>4, <1>5, <1>6, <1>7 DEF TaskInv

\* finally has awaited every job: raise, assemble the answer, or start the next batch.
LEMMA TaskInvCleanupReturns ==
  ASSUME TypeInv, TaskInv, CleanupReturns
  PROVE  TaskInv'
<1> USE DEF FrontStates, TaskStates, FinalStates
<1>1. /\ main = "cleanup"
      /\ UNCHANGED <<plan, pending, doomed, results>>
      /\ raised' = "none"
  BY DEF CleanupReturns
<1>2. \A t \in Tasks : ~Active(t)
  BY <1>1 DEF CleanupReturns, JobsOver, TaskInv, JobFacts
<1>3. CASE /\ main' \in {"failing", "cancelling"}
           /\ cause' \in {"deadline", "cancelled", raised}
           /\ UNCHANGED <<batch, outer, seen, pc, attempt, reply>>
  BY <1>1, <1>2, <1>3 DEF TaskInv, BeforePlan, PlanProgress, JobFacts, BatchFacts, NoStuckError, Active
<1>4. CASE /\ pending = {}
           /\ main' = "assembling"
           /\ UNCHANGED <<cause, batch, outer, seen, pc, attempt, reply>>
  BY <1>1, <1>2, <1>4 DEF TaskInv, BeforePlan, PlanProgress, JobFacts, BatchFacts, NoStuckError, Active
<1>5. CASE raised = "none" /\ pending # {} /\ NextBatch
  <2>1. \A t \in pending : pc[t] = "idle"
    BY <1>1, <1>5 DEF TaskInv, BatchFacts
  <2>2. Accepts(plan)
    BY <1>1 DEF TaskInv, PlanProgress
  <2>3. QED
    BY <1>1, <1>2, <1>5, <2>1, <2>2, TaskInvNextBatch
<1>6. QED
  BY <1>3, <1>4, <1>5 DEF CleanupReturns, Raise

-----------------------------------------------------------------------------
(* Jobs and interruptions *)

\* What a step of a job can do to the bookkeeping of run_tasks.
LEMMA JobMoves ==
  ASSUME TypeInv, NEW t \in Tasks, Worker(t)
  PROVE  /\ Active(t)
         /\ \A u \in Tasks \ {t} : pc'[u] = pc[u] /\ reply'[u] = reply[u]
         /\ pc'[t] # "idle"
         /\ pc'[t] = "done" => pc[t] = "accepting"
         /\ pc[t] = "accepting" => pc'[t] \in {"done", "cancelled"} /\ reply'[t] = reply[t]
         /\ t \in doomed => pc'[t] = "cancelled"
         /\ \/ results' = results /\ pc'[t] # "accepting"
            \/ results' = results \cup {t} /\ pc'[t] = "accepting" /\ reply'[t] = "valid"
<1> USE DEF At, Goto, Active, ActiveStates, JobTypes
<1>0. JobTypes
  BY DEF TypeInv
<1>1. CASE AcquireSlot(t) \/ Reply(t)
  BY <1>0, <1>1 DEF AcquireSlot, Reply
<1>2. CASE StartCall(t)
  BY <1>0, <1>2 DEF StartCall
<1>3. CASE FinishCall(t)
  BY <1>0, <1>3 DEF FinishCall
<1>4. CASE NextAttempt(t)
  <2>1. Entry(t, attempt[t] + 1) \in {"waiting", "starting"}
    BY DEF Entry
  <2>2. \/ pc' = [pc EXCEPT ![t] = Entry(t, attempt[t] + 1)] /\ reply' = [reply EXCEPT ![t] = "none"]
        \/ pc' = [pc EXCEPT ![t] = "failed"] /\ reply' = [reply EXCEPT ![t] = "invalid"]
    BY <1>4 DEF NextAttempt
  <2>3. QED
    BY <1>0, <1>4, <2>1, <2>2 DEF NextAttempt
<1>5. CASE FinishTask(t) \/ CancelJob(t)
  BY <1>0, <1>5 DEF FinishTask, CancelJob
<1>6. QED
  BY <1>1, <1>2, <1>3, <1>4, <1>5 DEF Worker

LEMMA TaskInvJob ==
  ASSUME TypeInv, TaskInv, NEW t \in Tasks, JobStep(t)
  PROVE  TaskInv'
<1> USE DEF TaskStates, FrontStates, FinalStates
<1>0. /\ UNCHANGED <<plan, pending, batch, outer, seen, raised, doomed, main, cause>>
      /\ Worker(t)
  BY DEF JobStep, mainVars
<1>1. JobFacts /\ BatchFacts /\ PlanProgress /\ NoStuckError
  BY DEF TaskInv
<1>2. /\ Active(t)
      /\ t \in batch
      /\ main \in TaskStates
      /\ pc[t] # "idle"
      /\ pc[t] # "done"
  BY <1>0, <1>1, JobMoves DEF JobFacts, Active, ActiveStates
<1>3. results \subseteq results' /\ results' \subseteq results \cup {t}
  BY <1>0, JobMoves
<1>4. BeforePlan' /\ NoStuckError'
  BY <1>0, <1>1, <1>2 DEF BeforePlan, NoStuckError
<1>5. PlanProgress'
  BY <1>0, <1>1, <1>3 DEF PlanProgress
<1>6. JobFacts'
  <2> SUFFICES ASSUME NEW u \in Tasks
               PROVE  /\ pc'[u] # "idle" => u \in plan'.ids /\ plan'.deps[u] \subseteq results'
                      /\ Active(u)' => u \in batch' /\ main' \in TaskStates
                      /\ u \in results' => pc'[u] \in {"accepting", "done", "cancelled"} /\ reply'[u] = "valid"
                      /\ pc'[u] \in {"accepting", "done"} => u \in results'
    BY DEF JobFacts, Active
  <2>1. CASE u = t
    <3>1. t \in plan.ids /\ plan.deps[t] \subseteq results
      BY <1>1, <1>2 DEF JobFacts
    <3>2. t \in results => pc[t] = "accepting" /\ reply[t] = "valid"
      BY <1>1, <1>2 DEF JobFacts, Active, ActiveStates
    <3>3. pc[t] = "accepting" => t \in results
      BY <1>1 DEF JobFacts
    <3>4. /\ t \in results' => pc'[t] \in {"accepting", "done", "cancelled"} /\ reply'[t] = "valid"
          /\ pc'[t] \in {"accepting", "done"} => t \in results'
      BY <1>0, <3>2, <3>3, JobMoves
    <3>5. QED
      BY <1>0, <1>2, <1>3, <2>1, <3>1, <3>4
  <2>2. CASE u # t
    <3>1. pc'[u] = pc[u] /\ reply'[u] = reply[u]
      BY <1>0, <2>2, JobMoves
    <3>2. QED
      BY <1>0, <1>1, <1>3, <2>2, <3>1 DEF JobFacts, Active
  <2>3. QED
    BY <2>1, <2>2
<1>7. BatchFacts'
  <2>1. \A u \in Tasks : pc[u] \in {"idle", "done"} => pc'[u] = pc[u]
    BY <1>0, <1>2, JobMoves
  <2>2. main = "cleanup" => \A u \in Tasks : Active(u)' => u \in doomed
    <3>1. main = "cleanup" => t \in doomed
      BY <1>1, <1>2 DEF BatchFacts
    <3>2. QED
      BY <1>0, <1>1, <3>1, JobMoves DEF BatchFacts, Active
  <2>3. pending \subseteq Tasks /\ batch \subseteq Tasks /\ seen \subseteq Tasks
    BY DEF TypeInv, TaskTypes
  <2>4. QED
    BY <1>0, <1>1, <2>1, <2>2, <2>3 DEF BatchFacts
<1>8. QED
  BY <1>4, <1>5, <1>6, <1>7 DEF TaskInv

LEMMA TaskInvCallback ==
  ASSUME TypeInv, TaskInv, NEW t \in Tasks, JobCallback(t)
  PROVE  TaskInv'
<1> USE DEF TaskStates, FrontStates, FinalStates
<1>0. /\ main = "gather"
      /\ UNCHANGED <<plan, pending, batch, raised, doomed, main, cause, pc, reply, results>>
      /\ seen' = seen \cup {t}
      /\ outer' = Settle(t)
      /\ pc[t] \in FinishedStates
  BY DEF JobCallback, jobVars, Finished
<1>1. JobFacts /\ BatchFacts /\ PlanProgress /\ NoStuckError
  BY DEF TaskInv
<1>2. /\ outer' # "stuck"
      /\ outer' = "pending" => outer = "pending" /\ pc[t] = "done"
      /\ outer' = "values" => \/ outer = "values"
                              \/ outer = "pending" /\ seen \cup {t} = batch /\ pc[t] = "done"
  <2>1. reply[t] \notin {"pending", "values", "stuck"}
    BY DEF TypeInv, JobTypes, CallResults
  <2>2. QED
    BY <1>0, <1>1, <2>1 DEF Settle, FinishedStates, NoStuckError
<1>3. BeforePlan' /\ PlanProgress' /\ JobFacts'
  BY <1>0, <1>1 DEF BeforePlan, PlanProgress, JobFacts, Active
<1>4. BatchFacts' /\ NoStuckError'
  BY <1>0, <1>1, <1>2 DEF BatchFacts, NoStuckError
<1>5. QED
  BY <1>3, <1>4 DEF TaskInv

\* Interruptions only ever add to doomed.
LEMMA TaskInvInterruption ==
  ASSUME TypeInv, TaskInv, CallerCancels \/ DeadlineExpires \/ Ended \/ UNCHANGED vars
  PROVE  TaskInv'
<1>1. /\ UNCHANGED <<plan, pending, batch, outer, seen, raised, main, cause, pc, reply, results>>
      /\ doomed \subseteq doomed'
  BY DEF CallerCancels, DeadlineExpires, CancelMain, Ended, vars, mainVars, jobVars
<1>2. BeforePlan' /\ PlanProgress' /\ NoStuckError'
  BY <1>1 DEF TaskInv, BeforePlan, PlanProgress, NoStuckError
<1>3. JobFacts' /\ BatchFacts'
  BY <1>1 DEF TaskInv, JobFacts, BatchFacts, Active
<1>4. QED
  BY <1>2, <1>3 DEF TaskInv

LEMMA TaskInit == Init => TaskInv
BY DEF Init, TaskInv, BeforePlan, PlanProgress, JobFacts, BatchFacts, NoStuckError, NoPlan,
       Active, ActiveStates, TaskStates, FinalStates

LEMMA TaskNext == TypeInv /\ TaskInv /\ [Next]_vars => TaskInv'
<1> SUFFICES ASSUME TypeInv, TaskInv, [Next]_vars PROVE TaskInv'
  OBVIOUS
<1>1. CASE MainStep
  BY <1>1, TaskInvMoves, TaskInvPlanReturns, TaskInvStartTasks, TaskInvGatherReturns,
     TaskInvCleanupReturns
<1>2. CASE \E t \in Tasks : JobStep(t) \/ JobCallback(t)
  BY <1>2, TaskInvJob, TaskInvCallback
<1>3. CASE CallerCancels \/ DeadlineExpires \/ Ended \/ UNCHANGED vars
  BY <1>3, TaskInvInterruption
<1>4. QED
  BY <1>1, <1>2, <1>3 DEF Next

-----------------------------------------------------------------------------
(* Theorems *)

LEMMA TaskInvariance == Spec => [](TypeInv /\ TaskInv)
<1>1. Init => TypeInv /\ TaskInv
  BY TypeInit, TaskInit
<1>2. TypeInv /\ TaskInv /\ [Next]_vars => TypeInv' /\ TaskInv'
  BY TypeNext, TaskNext
<1>3. QED
  BY <1>1, <1>2, PTL DEF Spec

\* A job exists only once the results its inputs refer to have been accepted:
\* worker's lookups in results never miss a key.
THEOREM JobsHaveTheirInputs == Spec => []DependenciesFirst
<1>1. TaskInv => DependenciesFirst
  BY DEF TaskInv, JobFacts, DependenciesFirst
<1>2. QED
  BY <1>1, TaskInvariance, PTL

\* run_tasks never raises "No executable task remains" for a plan that Plan.parse
\* accepted, whatever its graph.
THEOREM RunsAreNeverStuck == Spec => []NeverStuck
<1>1. TaskInv => NeverStuck
  BY DEF TaskInv, NoStuckError, NeverStuck
<1>2. QED
  BY <1>1, TaskInvariance, PTL

\* When run_tasks is left, by return or by exception, all its jobs are over.
THEOREM RunTasksAwaitsItsJobs == Spec => []NoOrphanJobs
<1>1. TaskInv => NoOrphanJobs
  BY DEF TaskInv, JobFacts, NoOrphanJobs
<1>2. QED
  BY <1>1, TaskInvariance, PTL

\* run_tasks never executes a task again whose result it has accepted.
THEOREM TasksAreAcceptedOnce == Spec => []AcceptedOnce
<1>1. TypeInv /\ TaskInv => AcceptedOnce
  BY DEF TypeInv, JobTypes, TaskInv, JobFacts, AcceptedOnce
<1>2. QED
  BY <1>1, TaskInvariance, PTL

\* The synthesis sees a result of every task of the plan.
THEOREM SynthesisSeesEveryResult == Spec => []AnswerNeedsEveryTask
<1>1. TypeInv /\ TaskInv => AnswerNeedsEveryTask
  BY DEF TypeInv, JobTypes, TaskInv, PlanProgress, JobFacts, AnswerNeedsEveryTask
<1>2. QED
  BY <1>1, TaskInvariance, PTL

\* While finally awaits the jobs it cancelled, no job starts another model call.
THEOREM CleanupStartsNoCall == Spec => NoCallDuringCleanup
<1>1. TypeInv /\ TaskInv /\ [Next]_vars
        => [main = "cleanup" => \A t \in Tasks : pc'[t] = "calling" => pc[t] = "calling"]_vars
  <2> SUFFICES ASSUME TypeInv, TaskInv, [Next]_vars, main = "cleanup",
                      NEW u \in Tasks, pc'[u] = "calling"
               PROVE  pc[u] = "calling"
    OBVIOUS
  <2>1. CASE MainStep
    BY <2>1, MainLeavesJobs, BatchJobs DEF StartTasks, CleanupReturns
  <2>2. ASSUME NEW t \in Tasks, JobStep(t) PROVE pc[u] = "calling"
    <3>1. CASE u = t
      BY <2>2, <3>1, JobMoves DEF JobStep, TaskInv, BatchFacts
    <3>2. CASE u # t
      BY <2>2, <3>2, JobMoves DEF JobStep
    <3>3. QED
      BY <3>1, <3>2
  <2>3. CASE \/ \E t \in Tasks : JobCallback(t)
             \/ CallerCancels
             \/ DeadlineExpires
             \/ Ended
             \/ UNCHANGED vars
    BY <2>3, OthersLeaveJobs DEF jobVars
  <2>4. QED
    BY <2>1, <2>2, <2>3 DEF Next
<1>2. QED
  BY <1>1, TaskInvariance, PTL DEF Spec, NoCallDuringCleanup

-----------------------------------------------------------------------------
(***************************************************************************)
(* RelayEngine implements PlanExecution: every step of a run is a step of  *)
(* the abstract execution of its plan, or leaves that execution alone.     *)
(***************************************************************************)

Status ==
  CASE main = "returned"                 -> "answered"
    [] main \in {"raised", "cancelled"}  -> "stopped"
    [] OTHER                             -> "running"

\* The state of PlanExecution as a function of the state of a run.
Mapped == <<plan.ids, plan.deps, results, Status>>

-----------------------------------------------------------------------------
LEMMA AbstractVars == UNCHANGED Mapped => UNCHANGED Abstract!vars
BY DEF Abstract!vars, Mapped, Status

LEMMA InitImplements == Init => Abstract!Init
BY DEF Init, NoPlan, Abstract!Init

\* A planner's reply adopts a plan or leaves the abstract state alone.
LEMMA PlanReturnsImplements ==
  ASSUME TypeInv, TaskInv, PlanReturns
  PROVE  Abstract!AdoptPlan \/ UNCHANGED Mapped
<1>1. main = "planning" /\ results' = results
  BY DEF PlanReturns, MainAt
<1>2. main' \in {"planning", "planned", "failing", "cancelling"}
  BY <1>1 DEF PlanReturns, PlannerCall, CloudCall, Raise
<1>3. Status = "running" /\ Status' = "running"
  BY <1>1, <1>2 DEF Status
<1>4. plan.ids = {}
  BY <1>1 DEF TaskInv, BeforePlan, FrontStates, NoPlan
<1>5. CASE plan' = plan
  BY <1>1, <1>3, <1>5 DEF Mapped
<1>6. CASE plan' \in Plans
  <2>1. plan'.ids \in SUBSET Tasks /\ plan'.deps \in [Tasks -> SUBSET Tasks]
    BY <1>6, InputsAssumption DEF PlanType
  <2>2. QED
    BY <1>1, <1>3, <1>4, <2>1 DEF Abstract!AdoptPlan, Status
<1>7. QED
  BY <1>5, <1>6 DEF PlanReturns

\* Only the end of a run changes its abstract status.
LEMMA EndImplements ==
  ASSUME TypeInv, TaskInv, MainStep, ~PlanReturns
  PROVE  Abstract!Answer \/ Abstract!Stop \/ UNCHANGED Mapped
<1> USE DEF FrontStates, TaskStates, FinalStates
<1>1. UNCHANGED <<plan, results>>
  BY MainLeavesJobs, MainLeavesTasks DEF taskVars, StartTasks, GatherReturns, CleanupReturns
<1>2. CASE ReturnAnswer
  <2>1. main = "completed" /\ main' = "returned"
    BY <1>2 DEF ReturnAnswer, MainAt
  <2>2. results = plan.ids
    BY <2>1 DEF TypeInv, JobTypes, TaskInv, PlanProgress, JobFacts
  <2>3. QED
    BY <1>1, <2>1, <2>2 DEF Abstract!Answer
<1>3. CASE RaiseError \/ SendCancelled \/ ReportInterrupted
  <2>1. main \in {"reported", "failing", "cancelling"} /\ main' \in {"raised", "cancelled"}
    BY <1>3 DEF RaiseError, SendCancelled, ReportInterrupted, MainAt
  <2>2. QED
    BY <1>1, <2>1 DEF Abstract!Stop
<1>4. CASE ~ReturnAnswer /\ ~RaiseError /\ ~SendCancelled /\ ~ReportInterrupted
  <2>1. {main, main'} \cap {"returned", "raised", "cancelled"} = {}
    <3>1. CASE Start \/ ExtractReturns \/ SkipTier \/ SolveReturns \/ CritiqueReturns \/ Decide
      BY <3>1 DEF Start, ExtractReturns, SkipTier, SolveReturns, CritiqueReturns, Decide,
         ClimbFrom, MainAt, Raise
    <3>2. CASE EscalateToCloud \/ AnswerReturns \/ Synthesize \/ SynthesisReturns
      BY <3>2 DEF EscalateToCloud, AnswerReturns, Synthesize, SynthesisReturns,
         MainAt, PlannerCall, CloudCall, Raise
    <3>3. CASE StartTasks \/ GatherReturns \/ CleanupReturns
      BY <3>3 DEF StartTasks, GatherReturns, CleanupReturns, NextBatch, MainAt, Raise
    <3>4. CASE SendCompleted \/ SendFailed \/ Interrupted
      BY <3>4 DEF SendCompleted, SendFailed, Interrupted, MainAt, Raise
    <3>5. QED
      BY <1>4, <3>1, <3>2, <3>3, <3>4 DEF MainStep
  <2>2. Status = "running" /\ Status' = "running"
    BY <2>1 DEF Status
  <2>3. QED
    BY <1>1, <2>2 DEF Mapped
<1>5. QED
  BY <1>2, <1>3, <1>4

\* A job accepts the result of its task, or leaves the abstract state alone.
LEMMA JobImplements ==
  ASSUME TypeInv, TaskInv, NEW t \in Tasks, JobStep(t)
  PROVE  Abstract!Accept(t) \/ UNCHANGED Mapped
<1>1. Worker(t) /\ UNCHANGED <<plan, main>>
  BY DEF JobStep, mainVars
<1>2. Active(t) /\ main \in TaskStates /\ t \in plan.ids /\ plan.deps[t] \subseteq results
  BY <1>1, JobMoves DEF TaskInv, JobFacts, Active, ActiveStates
<1>3. Status = "running" /\ Status' = "running"
  BY <1>1, <1>2 DEF Status, TaskStates
<1>4. CASE results' = results
  BY <1>1, <1>3, <1>4 DEF Mapped
<1>5. CASE results' = results \cup {t} /\ t \notin results
  BY <1>1, <1>2, <1>3, <1>5 DEF Abstract!Accept, Status
<1>6. QED
  BY <1>1, <1>4, <1>5, JobMoves

LEMMA StepImplements ==
  ASSUME TypeInv, TaskInv, [Next]_vars
  PROVE  [Abstract!Next]_(Abstract!vars)
<1>1. CASE MainStep
  BY <1>1, PlanReturnsImplements, EndImplements, AbstractVars DEF Abstract!Next
<1>2. CASE \E t \in Tasks : JobStep(t)
  BY <1>2, JobImplements, AbstractVars DEF Abstract!Next
<1>3. CASE \/ \E t \in Tasks : JobCallback(t)
           \/ CallerCancels
           \/ DeadlineExpires
           \/ Ended
           \/ UNCHANGED vars
  <2>1. UNCHANGED <<main, plan, results>>
    BY <1>3, OthersLeaveMain, OthersLeaveJobs DEF jobVars
  <2>2. UNCHANGED Mapped
    BY <2>1 DEF Mapped, Status
  <2>3. QED
    BY <2>2, AbstractVars
<1>4. QED
  BY <1>1, <1>2, <1>3 DEF Next

\* A run accepts the results of its plan in the order of the dependencies, each
\* once, and answers only when it has them all, whatever fails or is cancelled.
THEOREM RunsImplementPlanExecution == Spec => ImplementsPlanExecution
<1>1. Init => Abstract!Init
  BY InitImplements
<1>2. TypeInv /\ TaskInv /\ [Next]_vars => [Abstract!Next]_(Abstract!vars)
  BY StepImplements
<1>3. QED
  BY <1>1, <1>2, TaskInvariance, PTL DEF Spec, ImplementsPlanExecution, Abstract!Spec
=============================================================================
