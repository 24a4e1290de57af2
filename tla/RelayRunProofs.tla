--------------------------- MODULE RelayRunProofs ---------------------------
(***************************************************************************)
(* What a run shares and how it ends.  The two resources of its jobs are   *)
(* the cloud budget and the semaphore local_slots: BudgetInv counts the    *)
(* cloud calls by kind at each stage of the run, SlotInv says who holds    *)
(* the permits; both need TaskInv, for a job can only spend or hold while  *)
(* run_tasks is active.  RouteInv follows the loop over the local models.  *)
(* StopInv says that an interruption is never lost, CloseInv what the      *)
(* callback has been told of the end.                                      *)
(***************************************************************************)
EXTENDS RelayTaskProofs


\* The cloud calls so far, by kind, at each stage of the run.
BudgetInv ==
  /\ main \in FrontStates \ {"answering", "planning", "planned"} =>
       cloudCalls = 0 /\ planTry = 0 /\ workerCalls = 0
  /\ main \in {"planning", "planned", "assembling"} \cup TaskStates =>
       cloudCalls = planTry + workerCalls /\ cloudCalls < CloudCalls /\ CloudEnabled
  /\ cloudCalls = planTry + workerCalls \/ cloudCalls = planTry + workerCalls + 1
  /\ cloudCalls <= CloudCalls
  /\ workerCalls <= CloudWorkerCalls
  /\ cloudCalls > 0 => CloudEnabled

\* The jobs with a permit of local_slots.
Holders == {t \in Tasks : Holds(t)}

\* Every permit is free or held, and only local attempts queue for one.
SlotInv ==
  /\ slots >= 0
  /\ slots + Cardinality(Holders) = LocalConcurrency
  /\ \A t \in Tasks : pc[t] = "waiting" => Tier(t) # "cloud"

-----------------------------------------------------------------------------
(* The budget *)

\* What a paid call leaves of the budget.
LEMMA Spending ==
  ASSUME NEW calls \in Nat, NEW worked \in Nat, NEW operation, BudgetAllows(operation, calls, worked)
  PROVE  /\ CloudEnabled
         /\ calls + 1 <= CloudCalls
         /\ operation \in {"plan", "work"} => calls + 1 < CloudCalls
         /\ operation = "work" => worked + 1 <= CloudWorkerCalls
BY LimitsAssumption DEF BudgetAllows, Reserve

LEMMA BudgetMain ==
  ASSUME TypeInv, BudgetInv, MainStep
  PROVE  BudgetInv'
<1> USE DEF FrontStates, TaskStates, FinalStates, BudgetInv
<1>0. cloudCalls \in Nat /\ workerCalls \in Nat /\ planTry \in Nat /\ CloudCalls \in Nat
  BY LimitsAssumption DEF TypeInv, JobTypes, RouteTypes
<1>1. CASE Start \/ SkipTier \/ Decide
  BY <1>0, <1>1 DEF Start, SkipTier, Decide, ClimbFrom, MainAt, jobVars
<1>2. CASE ExtractReturns
  BY <1>0, <1>2 DEF ExtractReturns, ClimbFrom, MainAt, Raise, jobVars
<1>3. CASE SolveReturns \/ CritiqueReturns
  BY <1>0, <1>3 DEF SolveReturns, CritiqueReturns, MainAt, Raise, jobVars
<1>4. CASE EscalateToCloud
  <2>1. main = "escalated"
    BY <1>4 DEF EscalateToCloud, MainAt
  <2>2. CASE PlannerCall
    BY <1>0, <2>1, <2>2, Spending DEF PlannerCall, CloudCall, Raise, callVars
  <2>3. CASE CloudCall("answer", "answering") /\ UNCHANGED planTry
    BY <1>0, <2>1, <2>3, Spending DEF CloudCall, Raise, callVars
  <2>4. QED
    BY <1>4, <2>2, <2>3 DEF EscalateToCloud
<1>5. CASE PlanReturns
  <2>1. main = "planning"
    BY <1>5 DEF PlanReturns, MainAt
  <2>2. CASE PlannerCall
    BY <1>0, <2>1, <2>2, Spending DEF PlannerCall, CloudCall, Raise, callVars
  <2>3. CASE UNCHANGED <<planTry, callVars>> /\ main' \in {"planned", "failing", "cancelling"}
    BY <1>0, <2>1, <2>3 DEF callVars
  <2>4. QED
    BY <1>5, <2>2, <2>3 DEF PlanReturns, Raise
<1>6. CASE Synthesize
  <2>1. main = "assembling" /\ UNCHANGED planTry
    BY <1>6 DEF Synthesize, MainAt, frontVars
  <2>2. QED
    BY <1>0, <1>6, <2>1, Spending DEF Synthesize, CloudCall, Raise, callVars
<1>7. CASE AnswerReturns \/ SynthesisReturns
  BY <1>0, <1>7 DEF AnswerReturns, SynthesisReturns, MainAt, Raise, jobVars, frontVars
<1>8. CASE StartTasks
  BY <1>0, <1>8 DEF StartTasks, MainAt, NextBatch, Raise, callVars, frontVars
<1>9. CASE GatherReturns
  BY <1>0, <1>9 DEF GatherReturns, jobVars, frontVars
<1>10. CASE CleanupReturns
  BY <1>0, <1>10 DEF CleanupReturns, NextBatch, Raise, callVars, frontVars
<1>11. CASE SendCompleted \/ ReturnAnswer \/ SendFailed \/ RaiseError \/ SendCancelled
              \/ Interrupted \/ ReportInterrupted
  BY <1>0, <1>11 DEF SendCompleted, ReturnAnswer, SendFailed, RaiseError, SendCancelled,
     Interrupted, ReportInterrupted, MainAt, Raise, jobVars, frontVars
<1>12. QED
  BY <1>1, <1>2, <1>3, <1>4, <1>5, <1>6, <1>7, <1>8, <1>9, <1>10, <1>11 DEF MainStep

LEMMA BudgetJob ==
  ASSUME TypeInv, TaskInv, BudgetInv, NEW t \in Tasks, JobStep(t)
  PROVE  BudgetInv'
<1>0. cloudCalls \in Nat /\ workerCalls \in Nat /\ planTry \in Nat /\ CloudCalls \in Nat
  BY LimitsAssumption DEF TypeInv, JobTypes, RouteTypes
<1>1. Worker(t) /\ UNCHANGED <<main, planTry>>
  BY DEF JobStep, mainVars
<1>2. main \in TaskStates
  BY <1>1, JobMoves DEF TaskInv, JobFacts
<1>3. CASE StartCall(t)
  BY <1>0, <1>1, <1>2, <1>3, Spending DEF StartCall, BudgetInv, TaskStates, FrontStates
<1>4. CASE ~StartCall(t)
  BY <1>1, <1>4 DEF Worker, AcquireSlot, Reply, FinishCall, NextAttempt, FinishTask, CancelJob, BudgetInv
<1>5. QED
  BY <1>3, <1>4

LEMMA BudgetNext == TypeInv /\ TaskInv /\ BudgetInv /\ [Next]_vars => BudgetInv'
<1> SUFFICES ASSUME TypeInv, TaskInv, BudgetInv, [Next]_vars PROVE BudgetInv'
  OBVIOUS
<1>1. CASE MainStep
  BY <1>1, BudgetMain
<1>2. CASE \E t \in Tasks : JobStep(t)
  BY <1>2, BudgetJob
<1>3. CASE \/ \E t \in Tasks : JobCallback(t)
           \/ CallerCancels
           \/ DeadlineExpires
           \/ Ended
           \/ UNCHANGED vars
  BY <1>3, OthersLeaveMain, OthersLeaveJobs DEF jobVars, frontVars, BudgetInv
<1>4. QED
  BY <1>1, <1>2, <1>3 DEF Next

LEMMA BudgetInit == Init => BudgetInv
BY LimitsAssumption DEF Init, BudgetInv, TaskStates

LEMMA BudgetInvariance == Spec => [](TypeInv /\ BudgetInv)
<1>1. Init => BudgetInv
  BY BudgetInit
<1>2. TypeInv /\ TaskInv /\ BudgetInv /\ [Next]_vars => BudgetInv'
  BY BudgetNext
<1>3. QED
  BY <1>1, <1>2, TaskInvariance, PTL DEF Spec

\* No limit of the cloud budget is exceeded, however many jobs run at once, and
\* every call is accounted for.
THEOREM BudgetIsKept == Spec => []BudgetKept
<1>1. TypeInv /\ BudgetInv => BudgetKept
  BY DEF TypeInv, JobTypes, RouteTypes, BudgetInv, BudgetKept
<1>2. QED
  BY <1>1, BudgetInvariance, PTL

\* The call that the synthesis needs is there from the first planner call on.
THEOREM SynthesisIsReserved == Spec => []SynthesisReserved
<1>1. BudgetInv => SynthesisReserved
  BY DEF BudgetInv, SynthesisReserved, TaskStates
<1>2. QED
  BY <1>1, BudgetInvariance, PTL

-----------------------------------------------------------------------------
(* The semaphore *)

LEMMA HoldersFinite == IsFiniteSet(Holders) /\ Cardinality(Holders) \in Nat
<1>1. Holders \subseteq Tasks
  BY DEF Holders
<1>2. QED
  BY <1>1, TasksAssumption, FS_Subset, FS_CardinalityType

\* Jobs that are not running hold nothing.
LEMMA IdleHoldNothing ==
  ASSUME \A t \in Tasks : ~Active(t)
  PROVE  Holders = {}
BY DEF Holders, Holds, Active, ActiveStates

\* Nothing that the semaphore depends on changes.
LEMMA SlotsUntouched ==
  ASSUME SlotInv, UNCHANGED <<slots, pc, attempt, plan>>
  PROVE  SlotInv'
BY DEF SlotInv, Holders, Holds, Tier, AttemptTier

\* Jobs of a new batch queue for their permits, or need none.
LEMMA SlotsNextBatch ==
  ASSUME TypeInv, SlotInv, NextBatch, \A t \in Tasks : ~Active(t), UNCHANGED <<plan, slots>>
  PROVE  SlotInv'
<1>1. CASE Ready = {}
  BY <1>1, SlotsUntouched DEF NextBatch
<1>2. CASE Ready # {}
  <2>1. /\ pc' = [t \in Tasks |-> IF t \in Ready THEN Entry(t, 1) ELSE pc[t]]
        /\ attempt' = [t \in Tasks |-> IF t \in Ready THEN 1 ELSE attempt[t]]
    BY <1>2 DEF NextBatch
  <2>2. \A t \in Ready : t \in Tasks => Tier(t)' = AttemptTier(t, 1)
    BY <2>1 DEF Tier, AttemptTier
  <2>3. \A t \in Tasks : t \in Ready => \/ pc'[t] = "starting" /\ Tier(t)' = "cloud"
                                        \/ pc'[t] = "waiting" /\ Tier(t)' # "cloud"
    BY <2>1, <2>2 DEF Entry
  <2>4. \A t \in Tasks : t \notin Ready => pc'[t] = pc[t]
    BY <2>1
  <2>5. Holders = {}
    BY IdleHoldNothing
  <2>6. Holders' = {}
    BY <2>3, <2>4 DEF Holders, Holds, Active, ActiveStates
  <2>7. \A t \in Tasks : pc'[t] = "waiting" => Tier(t)' # "cloud"
    BY <2>3, <2>4 DEF Active, ActiveStates
  <2>8. QED
    BY <2>5, <2>6, <2>7 DEF SlotInv
<1>3. QED
  BY <1>1, <1>2

LEMMA SlotMain ==
  ASSUME TypeInv, TaskInv, SlotInv, MainStep
  PROVE  SlotInv'
<1>0. slots' = slots
  BY MainLeavesJobs
<1>1. CASE PlanReturns
  <2>1. UNCHANGED pc /\ \A t \in Tasks : pc[t] = "idle"
    BY <1>1 DEF PlanReturns, MainAt, TaskInv, BeforePlan, FrontStates
  <2>2. Holders = {} /\ Holders' = {}
    BY <2>1 DEF Holders, Holds
  <2>3. QED
    BY <1>0, <2>1, <2>2 DEF SlotInv
<1>2. CASE StartTasks
  <2>1. \A t \in Tasks : ~Active(t)
    BY <1>2 DEF StartTasks, MainAt, TaskInv, BeforePlan, FrontStates, Active, ActiveStates
  <2>2. QED
    BY <1>0, <1>2, <2>1, SlotsNextBatch DEF StartTasks
<1>3. CASE CleanupReturns
  <2>1. \A t \in Tasks : ~Active(t)
    BY <1>3 DEF CleanupReturns, JobsOver, TaskInv, JobFacts
  <2>2. CASE UNCHANGED <<pc, attempt>>
    BY <1>0, <1>3, <2>2, SlotsUntouched DEF CleanupReturns
  <2>3. CASE NextBatch
    BY <1>0, <1>3, <2>1, <2>3, SlotsNextBatch DEF CleanupReturns
  <2>4. QED
    BY <1>3, <2>2, <2>3 DEF CleanupReturns
<1>4. CASE ~PlanReturns /\ ~StartTasks /\ ~CleanupReturns
  <2>1. UNCHANGED plan
    BY <1>4, MainLeavesTasks DEF taskVars, GatherReturns
  <2>2. QED
    BY <1>0, <1>4, <2>1, MainLeavesJobs, SlotsUntouched
<1>5. QED
  BY <1>1, <1>2, <1>3, <1>4

\* A step of a job changes nobody else's permit, and its own attempt only between calls.
LEMMA JobLeavesOthers ==
  ASSUME TypeInv, NEW t \in Tasks, JobStep(t)
  PROVE  /\ plan' = plan
         /\ \A u \in Tasks \ {t} : /\ Holds(u)' <=> Holds(u)
                                   /\ pc'[u] = pc[u]
                                   /\ Tier(u)' = Tier(u)
<1>1. plan' = plan /\ Worker(t)
  BY DEF JobStep, mainVars
<1>2. \A u \in Tasks \ {t} : attempt'[u] = attempt[u]
  BY <1>1 DEF Worker, AcquireSlot, StartCall, Reply, FinishCall, NextAttempt, FinishTask, CancelJob,
     TypeInv, JobTypes
<1>3. \A u \in Tasks \ {t} : pc'[u] = pc[u]
  BY <1>1, JobMoves
<1>4. QED
  BY <1>1, <1>2, <1>3 DEF Holds, Tier, AttemptTier

\* A job takes a permit, gives one back, or does neither.
LEMMA SlotsTaken ==
  ASSUME TypeInv, SlotInv, NEW t \in Tasks, JobStep(t), ~Holds(t), Holds(t)', slots > 0, slots' = slots - 1
  PROVE  slots' >= 0 /\ slots' + Cardinality(Holders') = LocalConcurrency
<1>1. Holders' = Holders \cup {t} /\ t \notin Holders
  BY JobLeavesOthers DEF Holders
<1>2. Cardinality(Holders') = Cardinality(Holders) + 1
  BY <1>1, HoldersFinite, FS_AddElement
<1>3. QED
  BY <1>2, HoldersFinite DEF SlotInv, TypeInv, JobTypes

LEMMA SlotsReturned ==
  ASSUME TypeInv, SlotInv, NEW t \in Tasks, JobStep(t), ~Holds(t)', slots' = SlotsAfterExit(t)
  PROVE  slots' >= 0 /\ slots' + Cardinality(Holders') = LocalConcurrency
<1>1. CASE Holds(t)
  <2>1. Holders' = Holders \ {t} /\ t \in Holders
    BY <1>1, JobLeavesOthers DEF Holders
  <2>2. Cardinality(Holders') = Cardinality(Holders) - 1
    BY <2>1, HoldersFinite, FS_RemoveElement
  <2>3. QED
    BY <1>1, <2>2, HoldersFinite DEF SlotInv, SlotsAfterExit, TypeInv, JobTypes
<1>2. CASE ~Holds(t)
  <2>1. Holders' = Holders
    BY <1>2, JobLeavesOthers DEF Holders
  <2>2. QED
    BY <1>2, <2>1 DEF SlotInv, SlotsAfterExit
<1>3. QED
  BY <1>1, <1>2

LEMMA SlotsKept ==
  ASSUME TypeInv, SlotInv, NEW t \in Tasks, JobStep(t), Holds(t)' <=> Holds(t), slots' = slots
  PROVE  slots' >= 0 /\ slots' + Cardinality(Holders') = LocalConcurrency
<1>1. Holders' = Holders
  BY JobLeavesOthers DEF Holders
<1>2. QED
  BY <1>1 DEF SlotInv

LEMMA SlotJob ==
  ASSUME TypeInv, SlotInv, NEW t \in Tasks, JobStep(t)
  PROVE  SlotInv'
<1> USE DEF At, Goto
<1>0. JobTypes /\ plan' = plan /\ Worker(t)
  BY JobLeavesOthers DEF TypeInv, JobStep
<1>1. \A u \in Tasks \ {t} : pc'[u] = "waiting" => Tier(u)' # "cloud"
  BY JobLeavesOthers DEF SlotInv
<1>2. CASE AcquireSlot(t)
  <2>1. /\ pc[t] = "waiting" /\ pc'[t] = "starting"
        /\ Tier(t)' = Tier(t) /\ Tier(t) # "cloud"
        /\ slots > 0 /\ slots' = slots - 1
    BY <1>0, <1>2 DEF AcquireSlot, Tier, AttemptTier, SlotInv, JobTypes
  <2>2. ~Holds(t) /\ Holds(t)'
    BY <2>1 DEF Holds
  <2>3. QED
    BY <1>1, <2>1, <2>2, SlotsTaken DEF SlotInv
<1>3. CASE StartCall(t)
  <2>1. /\ pc[t] = "starting" /\ slots' = slots
        /\ pc'[t] = "calling" \/ (pc'[t] = "failed" /\ Tier(t) = "cloud")
        /\ Tier(t)' = Tier(t)
    BY <1>0, <1>3 DEF StartCall, Tier, AttemptTier, JobTypes
  <2>2. Holds(t)' <=> Holds(t)
    BY <2>1 DEF Holds
  <2>3. QED
    BY <1>1, <2>1, <2>2, SlotsKept DEF SlotInv
<1>4. CASE Reply(t)
  <2>1. pc[t] = "calling" /\ slots' = slots /\ pc'[t] = "replied" /\ Tier(t)' = Tier(t)
    BY <1>0, <1>4 DEF Reply, Tier, AttemptTier, JobTypes
  <2>2. Holds(t)' <=> Holds(t)
    BY <2>1 DEF Holds
  <2>3. QED
    BY <1>1, <2>1, <2>2, SlotsKept DEF SlotInv
<1>5. CASE FinishCall(t) \/ CancelJob(t)
  <2>1. slots' = SlotsAfterExit(t) /\ pc'[t] \in {"accepting", "rejecting", "failed", "cancelled"}
    BY <1>0, <1>5 DEF FinishCall, CancelJob, JobTypes
  <2>2. ~Holds(t)'
    BY <2>1 DEF Holds
  <2>3. QED
    BY <1>1, <2>1, <2>2, SlotsReturned DEF SlotInv
<1>6. CASE NextAttempt(t)
  <2>1. pc[t] = "rejecting" /\ slots' = slots
    BY <1>6 DEF NextAttempt
  <2>2. \/ pc'[t] = "starting" /\ Tier(t)' = "cloud"
        \/ pc'[t] = "waiting" /\ Tier(t)' # "cloud"
        \/ pc'[t] = "failed"
    <3>1. CASE /\ attempt' = [attempt EXCEPT ![t] = @ + 1]
               /\ pc' = [pc EXCEPT ![t] = Entry(t, attempt[t] + 1)]
      <4>1. pc'[t] = Entry(t, attempt[t] + 1) /\ attempt'[t] = attempt[t] + 1
        BY <1>0, <3>1 DEF JobTypes
      <4>2. Tier(t)' = AttemptTier(t, attempt[t] + 1)
        BY <1>0, <4>1 DEF Tier, AttemptTier
      <4>3. QED
        BY <4>1, <4>2 DEF Entry
    <3>2. CASE pc' = [pc EXCEPT ![t] = "failed"]
      BY <1>0, <3>2 DEF JobTypes
    <3>3. QED
      BY <1>6, <3>1, <3>2 DEF NextAttempt
  <2>3. ~Holds(t) /\ ~Holds(t)'
    BY <2>1, <2>2 DEF Holds
  <2>4. QED
    BY <1>1, <2>1, <2>2, <2>3, SlotsKept DEF SlotInv
<1>7. CASE FinishTask(t)
  <2>1. pc[t] = "accepting" /\ slots' = slots /\ pc'[t] = "done"
    BY <1>0, <1>7 DEF FinishTask, JobTypes
  <2>2. ~Holds(t) /\ ~Holds(t)'
    BY <2>1 DEF Holds
  <2>3. QED
    BY <1>1, <2>1, <2>2, SlotsKept DEF SlotInv
<1>8. QED
  BY <1>0, <1>2, <1>3, <1>4, <1>5, <1>6, <1>7 DEF Worker

LEMMA SlotInit == Init => SlotInv
<1> SUFFICES ASSUME Init PROVE SlotInv
  OBVIOUS
<1>1. Holders = {}
  BY DEF Init, Holders, Holds
<1>2. QED
  BY <1>1, FS_EmptySet, LimitsAssumption DEF Init, SlotInv

LEMMA SlotNext == TypeInv /\ TaskInv /\ SlotInv /\ [Next]_vars => SlotInv'
<1> SUFFICES ASSUME TypeInv, TaskInv, SlotInv, [Next]_vars PROVE SlotInv'
  OBVIOUS
<1>1. CASE MainStep
  BY <1>1, SlotMain
<1>2. CASE \E t \in Tasks : JobStep(t)
  BY <1>2, SlotJob
<1>3. CASE \/ \E t \in Tasks : JobCallback(t)
           \/ CallerCancels
           \/ DeadlineExpires
           \/ Ended
           \/ UNCHANGED vars
  BY <1>3, OthersLeaveMain, OthersLeaveJobs, SlotsUntouched DEF jobVars
<1>4. QED
  BY <1>1, <1>2, <1>3 DEF Next

LEMMA SlotInvariance == Spec => []SlotInv
<1>1. Init => SlotInv
  BY SlotInit
<1>2. TypeInv /\ TaskInv /\ SlotInv /\ [Next]_vars => SlotInv'
  BY SlotNext
<1>3. QED
  BY <1>1, <1>2, TaskInvariance, PTL DEF Spec

\* No permit of local_slots is lost or given back twice, on any way out of a call.
THEOREM SlotsAreAccounted == Spec => []SlotsAccounted
<1>1. SlotInv => SlotsAccounted
  BY DEF SlotInv, Holders, SlotsAccounted
<1>2. QED
  BY <1>1, SlotInvariance, PTL

-----------------------------------------------------------------------------
(* Types, completed *)

LEMMA FlagsMain ==
  ASSUME FlagTypes, MainStep
  PROVE  FlagTypes'
<1> USE DEF FlagTypes
<1>1. CASE Start \/ SkipTier \/ Decide
  BY <1>1, Zenon DEF Start, SkipTier, Decide, ClimbFrom, endVars
<1>2. CASE ExtractReturns
  BY <1>2, Zenon DEF ExtractReturns, ClimbFrom, endVars
<1>3. CASE SolveReturns \/ CritiqueReturns
  BY <1>3, Zenon DEF SolveReturns, CritiqueReturns, endVars
<1>4. CASE EscalateToCloud \/ AnswerReturns \/ PlanReturns
  BY <1>4, Zenon DEF EscalateToCloud, AnswerReturns, PlanReturns, frontVars, endVars
<1>5. CASE StartTasks \/ GatherReturns \/ CleanupReturns
  BY <1>5, Zenon DEF StartTasks, GatherReturns, CleanupReturns, frontVars, endVars
<1>6. CASE Synthesize \/ SynthesisReturns
  BY <1>6, Zenon DEF Synthesize, SynthesisReturns, frontVars, endVars
<1>7. CASE SendCompleted \/ ReturnAnswer \/ SendFailed \/ RaiseError \/ SendCancelled
  BY <1>7, Zenon DEF SendCompleted, ReturnAnswer, SendFailed, RaiseError, SendCancelled, frontVars, endVars
<1>8. CASE Interrupted \/ ReportInterrupted
  BY <1>8, Zenon DEF Interrupted, ReportInterrupted, frontVars, endVars
<1>9. QED
  BY <1>1, <1>2, <1>3, <1>4, <1>5, <1>6, <1>7, <1>8 DEF MainStep

LEMMA FlagsNext == FlagTypes /\ [Next]_vars => FlagTypes'
<1> SUFFICES ASSUME FlagTypes, [Next]_vars PROVE FlagTypes'
  OBVIOUS
<1>1. CASE MainStep
  BY <1>1, FlagsMain
<1>2. CASE \E t \in Tasks : JobStep(t) \/ JobCallback(t)
  BY <1>2, Zenon DEF FlagTypes, JobStep, JobCallback, mainVars, frontVars, endVars
<1>3. CASE CallerCancels \/ DeadlineExpires
  BY <1>3, Zenon DEF FlagTypes, CallerCancels, DeadlineExpires, CancelMain, frontVars
<1>4. CASE Ended \/ UNCHANGED vars
  BY <1>4, Zenon DEF FlagTypes, Ended, vars, mainVars
<1>5. QED
  BY <1>1, <1>2, <1>3, <1>4 DEF Next

\* Every variable keeps its type, the semaphore's count its range.
THEOREM TypesAreKept == Spec => []TypeOK
<1>1. Init => FlagTypes
  BY Zenon DEF Init, FlagTypes
<1>2. FlagTypes /\ [Next]_vars => FlagTypes'
  BY FlagsNext
<1>3. TypeInv /\ SlotInv /\ FlagTypes => TypeOK
  <2>1. SlotInv /\ TypeInv => slots \in 0..LocalConcurrency
    BY HoldersFinite, LimitsAssumption DEF SlotInv, TypeInv, JobTypes
  <2>2. QED
    BY <2>1, Zenon DEF TypeInv, TypeOK
<1>4. QED
  BY <1>1, <1>2, <1>3, SlotInvariance, TaskInvariance, PTL DEF Spec

-----------------------------------------------------------------------------
(* The local models come first *)

LocalNames == {LocalTiers[i] : i \in 1..Len(LocalTiers)}

\* Each of the first k local models was distrusted or skipped.
Judged(k) == \A i \in 1..k : LocalTiers[i] \in verdicts \cup skipped

\* How far execute's loop over the local models has come, at each stage of the run; the
\* last of them is never skipped.
RouteInv ==
  /\ verdicts \cup skipped \subseteq LocalNames
  /\ LocalTiers[Len(LocalTiers)] \notin skipped
  /\ main = "skipping" => Judged(rung)
  /\ main \in {"solving", "critiquing", "deciding"} => Judged(rung - 1)
  /\ main \in {"escalated", "answering", "planning", "planned", "assembling", "synthesizing"} \cup TaskStates
       => Judged(Len(LocalTiers))
  /\ cloudCalls > 0 => Judged(Len(LocalTiers))

\* RoutingPolicy.skips spares the largest local model.
LEMMA LastIsNotSkipped ==
  ASSUME NEW k \in 1..Len(LocalTiers), NEW hard, Skips(LocalTiers[k], hard)
  PROVE  LocalTiers[k] # LocalTiers[Len(LocalTiers)]
BY DEF LocalTiers, Skips

\* One turn of the loop, after k models with a verdict or skipped.
LEMMA ClimbJudged ==
  ASSUME RouteTypes, NEW k \in 0..Len(LocalTiers), ClimbFrom(k),
         (\A i \in 1..k : LocalTiers[i] \in verdicts' \cup skipped),
         verdicts' \cup skipped \subseteq LocalNames,
         LocalTiers[Len(LocalTiers)] \notin skipped,
         cloudCalls = 0, cloudCalls' = 0
  PROVE  RouteInv'
<1>0. Len(LocalTiers) \in Nat /\ k \in Nat
  BY TierFacts
<1>1. CASE k < Len(LocalTiers) /\ Skips(LocalTiers[k + 1], request.hard)
  <2>1. main' = "skipping" /\ rung' = k + 1 /\ skipped' = skipped \cup {LocalTiers[k + 1]}
    BY <1>1 DEF ClimbFrom
  <2>2. k + 1 \in 1..Len(LocalTiers)
    BY <1>0, <1>1
  <2>3. LocalTiers[k + 1] # LocalTiers[Len(LocalTiers)] /\ LocalTiers[k + 1] \in LocalNames
    BY <1>1, <2>2, LastIsNotSkipped DEF LocalNames
  <2>4. \A i \in 1..(k + 1) : LocalTiers[i] \in verdicts' \cup skipped'
    BY <1>0, <2>1
  <2>5. QED
    BY <2>1, <2>3, <2>4 DEF RouteInv, Judged, TaskStates
<1>2. CASE k < Len(LocalTiers) /\ ~Skips(LocalTiers[k + 1], request.hard)
  <2>1. main' = "solving" /\ rung' = k + 1 /\ skipped' = skipped
    BY <1>2 DEF ClimbFrom
  <2>2. QED
    BY <1>0, <2>1 DEF RouteInv, Judged, TaskStates
<1>3. CASE k = Len(LocalTiers)
  <2>1. main' = "escalated" /\ skipped' = skipped
    BY <1>0, <1>3 DEF ClimbFrom
  <2>2. QED
    BY <1>3, <2>1 DEF RouteInv, Judged, TaskStates
<1>4. QED
  BY <1>0, <1>1, <1>2, <1>3

\* A step that leaves verdicts and skipped alone keeps what has been judged.
LEMMA RouteMoves ==
  ASSUME RouteInv, UNCHANGED <<verdicts, skipped>>,
         \/ main' \notin {"skipping", "solving", "critiquing", "deciding", "escalated", "answering",
                          "planning", "planned", "assembling", "synthesizing"} \cup TaskStates
         \/ main' = main /\ UNCHANGED rung
         \/ {main, main'} \subseteq {"solving", "critiquing", "deciding"} /\ UNCHANGED rung
         \/ {main, main'} \subseteq {"escalated", "answering", "planning", "planned", "assembling",
                                     "synthesizing"} \cup TaskStates,
         cloudCalls' > 0 => cloudCalls > 0 \/ Judged(Len(LocalTiers))
  PROVE  RouteInv'
BY DEF RouteInv, Judged, TaskStates

LEMMA RouteMain ==
  ASSUME TypeInv, BudgetInv, RouteInv, MainStep
  PROVE  RouteInv'
<1> USE DEF FrontStates, TaskStates, MainAt
<1>0. RouteTypes /\ LoopFacts /\ Len(LocalTiers) \in Nat \ {0}
  BY TierFacts DEF TypeInv
<1>1. main \in FrontStates \ {"answering", "planning", "planned"} => cloudCalls = 0
  BY DEF BudgetInv
<1>2. CASE Start
  <2>1. main = "starting" /\ cloudCalls = 0 /\ cloudCalls' = 0 /\ UNCHANGED verdicts
    BY <1>1, <1>2 DEF Start, jobVars
  <2>2. CASE ClimbFrom(0)
    BY <1>0, <2>1, <2>2, ClimbJudged DEF RouteInv
  <2>3. CASE main' = "extracting" /\ UNCHANGED skipped
    BY <2>1, <2>3, RouteMoves
  <2>4. QED
    BY <1>2, <2>2, <2>3 DEF Start
<1>3. CASE ExtractReturns
  <2>1. main = "extracting" /\ cloudCalls = 0 /\ cloudCalls' = 0 /\ UNCHANGED verdicts
    BY <1>1, <1>3 DEF ExtractReturns, jobVars
  <2>2. CASE ClimbFrom(0)
    BY <1>0, <2>1, <2>2, ClimbJudged DEF RouteInv
  <2>3. CASE main' \in {"completing", "failing", "cancelling"} /\ UNCHANGED skipped
    BY <2>1, <2>3, RouteMoves
  <2>4. QED
    BY <1>3, <2>2, <2>3 DEF ExtractReturns, Raise
<1>4. CASE SkipTier
  <2>1. main = "skipping" /\ cloudCalls = 0 /\ cloudCalls' = 0 /\ UNCHANGED verdicts /\ ClimbFrom(rung)
    BY <1>1, <1>4 DEF SkipTier, jobVars
  <2>2. rung \in 0..Len(LocalTiers) /\ Judged(rung)
    BY <1>0, <2>1 DEF LoopFacts, RouteInv
  <2>3. QED
    BY <1>0, <2>1, <2>2, ClimbJudged DEF RouteInv, Judged
<1>5. CASE SolveReturns \/ CritiqueReturns
  <2>1. UNCHANGED <<verdicts, skipped, rung, cloudCalls>>
    BY <1>5 DEF SolveReturns, CritiqueReturns, jobVars
  <2>2. /\ main \in {"solving", "critiquing"}
        /\ main' \in {"solving", "critiquing", "deciding", "failing", "cancelling"}
    BY <1>5 DEF SolveReturns, CritiqueReturns, Raise
  <2>3. QED
    BY <2>1, <2>2, RouteMoves
<1>6. CASE Decide
  <2>1. main = "deciding" /\ cloudCalls = 0 /\ cloudCalls' = 0
    BY <1>1, <1>6 DEF Decide, jobVars
  <2>2. rung \in 1..Len(LocalTiers) /\ Judged(rung - 1)
    BY <1>0, <2>1 DEF LoopFacts, RouteInv
  <2>3. CASE verdicts' = verdicts \cup {LocalTiers[rung]} /\ ClimbFrom(rung)
    <3>1. \A i \in 1..rung : LocalTiers[i] \in verdicts' \cup skipped
      BY <2>2, <2>3 DEF Judged
    <3>2. verdicts' \cup skipped \subseteq LocalNames
      BY <2>2, <2>3 DEF RouteInv, LocalNames
    <3>3. rung \in 0..Len(LocalTiers)
      BY <2>2
    <3>4. QED
      BY <1>0, <2>1, <2>3, <3>1, <3>2, <3>3, ClimbJudged DEF RouteInv
  <2>4. CASE main' = "completing" /\ UNCHANGED <<verdicts, skipped>>
    BY <2>1, <2>4, RouteMoves
  <2>5. QED
    BY <1>6, <2>3, <2>4 DEF Decide
<1>7. CASE EscalateToCloud \/ AnswerReturns \/ Synthesize \/ SynthesisReturns
  <2>1. UNCHANGED <<verdicts, skipped>>
    BY <1>7 DEF EscalateToCloud, AnswerReturns, Synthesize, SynthesisReturns, frontVars
  <2>2. /\ main \in {"escalated", "answering", "assembling", "synthesizing"}
        /\ main' \in {"answering", "planning", "synthesizing", "completing", "failing", "cancelling"}
    BY <1>7 DEF EscalateToCloud, AnswerReturns, Synthesize, SynthesisReturns, PlannerCall, CloudCall, Raise
  <2>3. Judged(Len(LocalTiers))
    BY <2>2 DEF RouteInv
  <2>4. QED
    BY <2>1, <2>2, <2>3, RouteMoves
<1>8. CASE PlanReturns
  <2>1. UNCHANGED <<verdicts, skipped>> /\ main = "planning"
    BY <1>8 DEF PlanReturns
  <2>2. main' \in {"planning", "planned", "failing", "cancelling"}
    BY <1>8 DEF PlanReturns, PlannerCall, CloudCall, Raise
  <2>3. Judged(Len(LocalTiers))
    BY <2>1 DEF RouteInv
  <2>4. QED
    BY <2>1, <2>2, <2>3, RouteMoves
<1>9. CASE StartTasks \/ GatherReturns \/ CleanupReturns
  <2>1. UNCHANGED <<verdicts, skipped, cloudCalls>>
    BY <1>9 DEF StartTasks, GatherReturns, CleanupReturns, frontVars, callVars, jobVars
  <2>2. /\ main \in {"planned"} \cup TaskStates
        /\ main' \in {"assembling", "failing", "cancelling"} \cup TaskStates
    BY <1>9 DEF StartTasks, GatherReturns, CleanupReturns, NextBatch, Raise
  <2>3. QED
    BY <2>1, <2>2, RouteMoves
<1>10. CASE SendCompleted \/ ReturnAnswer \/ SendFailed \/ RaiseError \/ SendCancelled
              \/ Interrupted \/ ReportInterrupted
  <2>1. UNCHANGED <<verdicts, skipped, cloudCalls>>
    BY <1>10 DEF SendCompleted, ReturnAnswer, SendFailed, RaiseError, SendCancelled, Interrupted,
       ReportInterrupted, frontVars, jobVars
  <2>2. main' \in {"completed", "returned", "reported", "raised", "cancelled", "failing", "cancelling"}
    BY <1>10 DEF SendCompleted, ReturnAnswer, SendFailed, RaiseError, SendCancelled, Interrupted,
       ReportInterrupted, Raise
  <2>3. QED
    BY <2>1, <2>2, RouteMoves
<1>11. QED
  BY <1>2, <1>3, <1>4, <1>5, <1>6, <1>7, <1>8, <1>9, <1>10 DEF MainStep

LEMMA RouteNext == TypeInv /\ TaskInv /\ BudgetInv /\ RouteInv /\ [Next]_vars => RouteInv'
<1> SUFFICES ASSUME TypeInv, TaskInv, BudgetInv, RouteInv, [Next]_vars PROVE RouteInv'
  OBVIOUS
<1>1. CASE MainStep
  BY <1>1, RouteMain
<1>2. ASSUME NEW t \in Tasks, JobStep(t) PROVE RouteInv'
  <2>1. Worker(t) /\ UNCHANGED <<main, rung, verdicts, skipped>>
    BY <1>2 DEF JobStep, mainVars
  <2>2. main \in TaskStates
    BY <2>1, JobMoves DEF TaskInv, JobFacts
  <2>3. Judged(Len(LocalTiers))
    BY <2>2 DEF RouteInv
  <2>4. QED
    BY <2>1, <2>3, RouteMoves
<1>3. CASE \/ \E t \in Tasks : JobCallback(t)
           \/ CallerCancels
           \/ DeadlineExpires
           \/ Ended
           \/ UNCHANGED vars
  BY <1>3, OthersLeaveMain, OthersLeaveJobs, RouteMoves DEF jobVars, frontVars
<1>4. QED
  BY <1>1, <1>2, <1>3 DEF Next

\* No request reaches the cloud past a local model that could have answered it: each was
\* skipped or distrusted, and at least one of them was asked.
THEOREM LocalModelsComeFirst == Spec => []LocalModelsFirst
<1>1. Init => RouteInv
  BY DEF Init, RouteInv, TaskStates
<1>2. TypeInv /\ TaskInv /\ BudgetInv /\ RouteInv /\ [Next]_vars => RouteInv'
  BY RouteNext
<1>3. RouteInv => LocalModelsFirst
  <2> SUFFICES ASSUME RouteInv, cloudCalls > 0
               PROVE  verdicts # {} /\ verdicts \cup skipped = LocalNames
    BY DEF LocalModelsFirst, LocalNames
  <2>1. LocalTiers[Len(LocalTiers)] \in verdicts
    BY TierFacts DEF RouteInv, Judged
  <2>2. LocalNames \subseteq verdicts \cup skipped
    BY DEF RouteInv, Judged, LocalNames
  <2>3. QED
    BY <2>1, <2>2 DEF RouteInv
<1>4. QED
  BY <1>1, <1>2, <1>3, TaskInvariance, BudgetInvariance, PTL DEF Spec

-----------------------------------------------------------------------------
(***************************************************************************)
(* Interruptions.  From the moment the caller cancels or the deadline      *)
(* expires, until the main coroutine leaves the timeout block, the         *)
(* interruption is on its way: as a CancelledError of the main coroutine,  *)
(* in a job of the batch that it awaits, or as the exception that          *)
(* run_tasks' finally block interrupts.                                    *)
(***************************************************************************)
Stopped == expired \/ cancels # 0

StopPending ==
  \/ hit
  \/ main = "gather" /\ \E t \in batch : pc[t] = "cancelled" \/ (t \in doomed /\ Active(t))
  \/ main = "cleanup" /\ raised # "none"

StopInv ==
  /\ main \in TimedStates /\ Stopped => StopPending
  /\ main = "returned" => ~Stopped

-----------------------------------------------------------------------------
\* A main coroutine that runs on outside run_tasks has not been interrupted.
LEMMA RunsOnUninterrupted ==
  ASSUME StopInv, ~hit, main \in FrontStates \cup FinalStates
  PROVE  ~Stopped
BY DEF StopInv, StopPending, TimedStates, FrontStates, FinalStates

\* Nothing changes who was interrupted.
LEMMA StoppedUnchanged ==
  ASSUME UNCHANGED <<expired, cancels>>
  PROVE  Stopped' <=> Stopped
BY Zenon DEF Stopped

\* Only the caller and the timer interrupt; the rest of the system does not.
LEMMA MainInterruptsNobody ==
  ASSUME MainStep
  PROVE  UNCHANGED <<expired, cancels>>
<1> USE DEF endVars
<1>1. CASE Start \/ ExtractReturns \/ SkipTier \/ SolveReturns \/ CritiqueReturns \/ Decide
  BY <1>1, Zenon DEF Start, ExtractReturns, SkipTier, SolveReturns, CritiqueReturns, Decide
<1>2. CASE EscalateToCloud \/ AnswerReturns \/ PlanReturns \/ Synthesize \/ SynthesisReturns
  BY <1>2, Zenon DEF EscalateToCloud, AnswerReturns, PlanReturns, Synthesize, SynthesisReturns
<1>3. CASE StartTasks \/ GatherReturns \/ CleanupReturns
  BY <1>3, Zenon DEF StartTasks, GatherReturns, CleanupReturns
<1>4. CASE SendCompleted \/ ReturnAnswer \/ SendFailed \/ RaiseError \/ SendCancelled
             \/ Interrupted \/ ReportInterrupted
  BY <1>4, Zenon DEF SendCompleted, ReturnAnswer, SendFailed, RaiseError, SendCancelled,
     Interrupted, ReportInterrupted
<1>5. QED
  BY <1>1, <1>2, <1>3, <1>4, Zenon DEF MainStep

LEMMA StopMain ==
  ASSUME TypeInv, TaskInv, StopInv, MainStep
  PROVE  StopInv'
<1> USE DEF TimedStates, FrontStates, TaskStates, FinalStates
<1>0. Stopped' <=> Stopped
  BY MainInterruptsNobody, StoppedUnchanged
<1>1. ASSUME ~hit, main \in FrontStates \cup FinalStates PROVE StopInv'
  <2>1. ~Stopped'
    BY <1>0, <1>1, RunsOnUninterrupted
  <2>2. QED
    BY <2>1 DEF StopInv
<1>2. ASSUME main' \notin TimedStates \cup {"returned"} PROVE StopInv'
  BY <1>2 DEF StopInv
<1>3. CASE Start \/ ExtractReturns \/ SkipTier \/ SolveReturns \/ CritiqueReturns \/ Decide
             \/ EscalateToCloud \/ AnswerReturns \/ PlanReturns \/ StartTasks
  BY <1>1, <1>3 DEF Start, ExtractReturns, SkipTier, SolveReturns, CritiqueReturns, Decide,
     EscalateToCloud, AnswerReturns, PlanReturns, StartTasks, MainAt
<1>4. CASE Synthesize \/ SynthesisReturns \/ SendCompleted \/ ReturnAnswer
  BY <1>1, <1>4 DEF Synthesize, SynthesisReturns, SendCompleted, ReturnAnswer, MainAt
<1>5. CASE SendFailed \/ RaiseError \/ SendCancelled \/ Interrupted \/ ReportInterrupted
  BY <1>2, <1>5 DEF SendFailed, RaiseError, SendCancelled, Interrupted, ReportInterrupted, Raise
<1>6. CASE GatherReturns
  <2>1. main = "gather" /\ main' = "cleanup"
    BY <1>6 DEF GatherReturns
  <2>2. ASSUME Stopped PROVE raised' # "none"
    <3>1. hit \/ \E t \in batch : pc[t] = "cancelled" \/ (t \in doomed /\ Active(t))
      BY <2>1, <2>2 DEF StopInv, StopPending
    <3>2. CASE hit
      BY <1>6, <3>2 DEF GatherReturns
    <3>3. CASE \E t \in batch : pc[t] = "cancelled" \/ (t \in doomed /\ Active(t))
      <4>1. outer # "values"
        BY <2>1, <3>3 DEF TaskInv, BatchFacts, Active, ActiveStates
      <4>2. outer # "none"
        BY DEF TypeInv, TaskTypes, Errors
      <4>3. QED
        BY <1>6, <4>1, <4>2 DEF GatherReturns
    <3>4. QED
      BY <3>1, <3>2, <3>3
  <2>3. QED
    BY <1>0, <2>1, <2>2 DEF StopInv, StopPending
<1>7. CASE CleanupReturns
  <2>1. main = "cleanup"
    BY <1>7 DEF CleanupReturns
  <2>2. CASE Stopped
    <3>1. hit \/ raised # "none"
      BY <2>1, <2>2 DEF StopInv, StopPending
    <3>2. main' \in {"failing", "cancelling"}
      BY <1>7, <3>1 DEF CleanupReturns, Raise
    <3>3. QED
      BY <1>2, <3>2
  <2>3. CASE ~Stopped
    BY <1>0, <2>3 DEF StopInv
  <2>4. QED
    BY <2>2, <2>3
<1>8. QED
  BY <1>3, <1>4, <1>5, <1>6, <1>7 DEF MainStep

\* A cancelled job stays cancelled, and a doomed one can only become so.
LEMMA StopJob ==
  ASSUME TypeInv, StopInv, NEW t \in Tasks, JobStep(t)
  PROVE  StopInv'
<1>1. Worker(t) /\ UNCHANGED <<main, raised, batch, doomed>>
  BY DEF JobStep, mainVars
<1>2. Stopped' <=> Stopped
  BY StoppedUnchanged, Zenon DEF JobStep, mainVars
<1>3. hit' <=> hit
  BY Zenon DEF JobStep, mainVars
<1>4. batch \subseteq Tasks
  BY DEF TypeInv, TaskTypes
<1>5. ASSUME NEW u \in batch, pc[u] = "cancelled" \/ (u \in doomed /\ Active(u))
      PROVE  pc'[u] = "cancelled" \/ (u \in doomed' /\ Active(u)')
  <2>1. CASE u = t
    BY <1>1, <1>4, <1>5, <2>1, JobMoves DEF Active, ActiveStates
  <2>2. CASE u # t
    BY <1>1, <1>4, <1>5, <2>2, JobMoves DEF Active
  <2>3. QED
    BY <2>1, <2>2
<1>6. StopPending => StopPending'
  BY <1>1, <1>3, <1>5 DEF StopPending
<1>7. QED
  BY <1>1, <1>2, <1>6 DEF StopInv

\* The interruption itself.
LEMMA StopInterruption ==
  ASSUME StopInv, CallerCancels \/ DeadlineExpires
  PROVE  StopInv'
<1>1. main' = main /\ main \notin {"returned"} /\ UNCHANGED <<batch, raised, pc>> /\ CancelMain
  BY DEF CallerCancels, DeadlineExpires, jobVars, EndedStates, TimedStates, FrontStates, TaskStates, FinalStates
<1>2. CASE hit'
  BY <1>1, <1>2 DEF StopInv, StopPending
<1>3. CASE /\ main = "gather"
           /\ {t \in batch : Active(t)} # {}
           /\ doomed' = doomed \cup {t \in batch : Active(t)}
  BY <1>1, <1>3 DEF StopInv, StopPending, Active
<1>4. QED
  BY <1>1, <1>2, <1>3 DEF CancelMain

\* Steps that touch nothing of this.
LEMMA StopOther ==
  ASSUME StopInv, (\E t \in Tasks : JobCallback(t)) \/ Ended \/ UNCHANGED vars
  PROVE  StopInv'
<1>1. UNCHANGED <<main, raised, batch, doomed, pc>>
  BY DEF JobCallback, jobVars, Ended, vars, mainVars
<1>2. Stopped' <=> Stopped
  <2>1. UNCHANGED <<expired, cancels>>
    BY Zenon DEF JobCallback, endVars, Ended, vars, mainVars
  <2>2. QED
    BY <2>1, StoppedUnchanged
<1>3. hit' <=> hit
  <2>1. UNCHANGED hit
    BY Zenon DEF JobCallback, Ended, vars, mainVars
  <2>2. QED
    BY <2>1, Zenon
<1>4. QED
  BY <1>1, <1>2, <1>3 DEF StopInv, StopPending, Active

LEMMA StopNext == TypeInv /\ TaskInv /\ StopInv /\ [Next]_vars => StopInv'
<1> SUFFICES ASSUME TypeInv, TaskInv, StopInv, [Next]_vars PROVE StopInv'
  OBVIOUS
<1>1. CASE MainStep
  BY <1>1, StopMain
<1>2. CASE \E t \in Tasks : JobStep(t)
  BY <1>2, StopJob
<1>3. CASE CallerCancels \/ DeadlineExpires
  BY <1>3, StopInterruption
<1>4. CASE (\E t \in Tasks : JobCallback(t)) \/ Ended \/ UNCHANGED vars
  BY <1>4, StopOther
<1>5. QED
  BY <1>1, <1>2, <1>3, <1>4 DEF Next

\* A run that was interrupted before it returned does not return an answer.
THEOREM InterruptionsAreNeverLost == Spec => []InterruptedRunsDoNotAnswer
<1>1. Init => StopInv
  BY DEF Init, StopInv, Stopped
<1>2. TypeInv /\ TaskInv /\ StopInv /\ [Next]_vars => StopInv'
  BY StopNext
<1>3. StopInv => InterruptedRunsDoNotAnswer
  BY DEF StopInv, Stopped, InterruptedRunsDoNotAnswer
<1>4. QED
  BY <1>1, <1>2, <1>3, TaskInvariance, PTL DEF Spec

-----------------------------------------------------------------------------
(* The terminal events *)

EndsWith(name) == Len(closing) > 0 /\ closing[Len(closing)] = name

\* What the callback has been told of the end, at each stage of it.  A run that reports a
\* failure has not been cancelled by then; a cancellation during the report ends it
\* without another event.
CloseInv ==
  /\ main \in TimedStates \ {"completed"} => closing = <<>>
  /\ main \in {"completed", "returned"} => closing = <<"run_completed">>
  /\ main \in {"reported", "raised"} => EndsWith("run_failed")
  /\ main \in {"failing", "reported"} => cause # "cancelled"
  /\ main = "cancelled" /\ cause = "cancelled" => EndsWith("run_cancelled")

\* A terminal event is the last one once it has reached the callback.
LEMMA Closing ==
  ASSUME EndTypes, NEW name \in {"run_completed", "run_failed", "run_cancelled"}, Close(name)
  PROVE  EndsWith(name)' /\ (closing = <<>> => closing' = <<name>>)
<1>1. closing \in Seq({"run_completed", "run_failed", "run_cancelled"}) /\ closing' = Append(closing, name)
  BY DEF EndTypes, Close
<1>2. Len(closing') = Len(closing) + 1 /\ Len(closing) \in Nat /\ closing'[Len(closing) + 1] = name
  BY <1>1
<1>3. EndsWith(name)'
  BY <1>2 DEF EndsWith
<1>4. closing = <<>> => closing' = <<name>>
  BY <1>1
<1>5. QED
  BY <1>3, <1>4

\* Until run_completed is sent, nothing has been told; the block is left on the way to
\* one of the other events.
LEMMA BeforeTheEnd ==
  ASSUME MainStep, main \in TimedStates \ {"completing", "completed"}, closing = <<>>
  PROVE  /\ closing' = <<>>
         /\ main' \in (TimedStates \ {"completed"}) \cup {"failing", "cancelling"}
         /\ main' = "failing" => cause' # "cancelled"
<1> USE DEF TimedStates, FrontStates, TaskStates, FinalStates, endVars, Raise
<1>1. CASE Start \/ SkipTier \/ Decide
  BY <1>1 DEF Start, SkipTier, Decide, ClimbFrom
<1>2. CASE ExtractReturns \/ SolveReturns \/ CritiqueReturns
  BY <1>2 DEF ExtractReturns, SolveReturns, CritiqueReturns, ClimbFrom
<1>3. CASE EscalateToCloud \/ AnswerReturns
  BY <1>3 DEF EscalateToCloud, AnswerReturns, PlannerCall, CloudCall
<1>4. CASE PlanReturns
  BY <1>4 DEF PlanReturns, PlannerCall, CloudCall
<1>5. CASE Synthesize \/ SynthesisReturns
  BY <1>5 DEF Synthesize, SynthesisReturns, CloudCall
<1>6. CASE StartTasks \/ GatherReturns \/ CleanupReturns
  BY <1>6 DEF StartTasks, GatherReturns, CleanupReturns, NextBatch
<1>7. CASE Interrupted
  BY <1>7 DEF Interrupted
<1>8. CASE SendCompleted \/ ReturnAnswer \/ SendFailed \/ RaiseError \/ SendCancelled \/ ReportInterrupted
  BY <1>8 DEF SendCompleted, ReturnAnswer, SendFailed, RaiseError, SendCancelled, ReportInterrupted, MainAt
<1>9. QED
  BY <1>1, <1>2, <1>3, <1>4, <1>5, <1>6, <1>7, <1>8 DEF MainStep

\* From there on only the steps of the end are left.
LEMMA AtTheEnd ==
  ASSUME MainStep, main \notin TimedStates \ {"completing", "completed"}
  PROVE  SendCompleted \/ ReturnAnswer \/ SendFailed \/ RaiseError \/ SendCancelled \/ Interrupted
           \/ ReportInterrupted
<1> USE DEF TimedStates, FrontStates, TaskStates, FinalStates, MainAt
<1>1. ~(Start \/ SkipTier \/ Decide \/ ExtractReturns \/ SolveReturns \/ CritiqueReturns)
  BY DEF Start, SkipTier, Decide, ExtractReturns, SolveReturns, CritiqueReturns
<1>2. ~(EscalateToCloud \/ AnswerReturns \/ PlanReturns \/ Synthesize \/ SynthesisReturns)
  BY DEF EscalateToCloud, AnswerReturns, PlanReturns, Synthesize, SynthesisReturns
<1>3. ~(StartTasks \/ GatherReturns \/ CleanupReturns)
  BY DEF StartTasks, GatherReturns, CleanupReturns
<1>4. QED
  BY <1>1, <1>2, <1>3 DEF MainStep

LEMMA CloseMain ==
  ASSUME TypeInv, CloseInv, MainStep
  PROVE  CloseInv'
<1> USE DEF CloseInv, TimedStates, FrontStates, TaskStates, FinalStates
<1>0. EndTypes
  BY DEF TypeInv
<1>1. CASE main \in TimedStates \ {"completing", "completed"}
  BY <1>1, BeforeTheEnd
<1>2. CASE SendCompleted
  BY <1>0, <1>2, Closing DEF SendCompleted, MainAt
<1>3. CASE ReturnAnswer \/ RaiseError
  BY <1>3 DEF ReturnAnswer, RaiseError, MainAt, endVars, EndsWith
<1>4. CASE SendFailed
  BY <1>0, <1>4, Closing DEF SendFailed, MainAt
<1>5. CASE SendCancelled
  BY <1>0, <1>5, Closing DEF SendCancelled
<1>6. CASE Interrupted
  BY <1>6 DEF Interrupted, Raise, endVars
<1>7. CASE ReportInterrupted
  BY <1>7 DEF ReportInterrupted, endVars
<1>8. QED
  BY <1>1, <1>2, <1>3, <1>4, <1>5, <1>6, <1>7, AtTheEnd

LEMMA CloseNext == TypeInv /\ CloseInv /\ [Next]_vars => CloseInv'
<1> SUFFICES ASSUME TypeInv, CloseInv, [Next]_vars PROVE CloseInv'
  OBVIOUS
<1>1. CASE MainStep
  BY <1>1, CloseMain
<1>2. CASE UNCHANGED <<main, closing, cause>>
  BY <1>2 DEF CloseInv, EndsWith
<1>3. QED
  BY <1>1, <1>2, OthersLeaveMain DEF Next

\* Whoever follows the events of a run learns from the last one how it ended, however its
\* answer, a failure, the deadline and the caller's cancellations meet.
THEOREM LastEventIsTrue == Spec => []LastEventTellsOutcome
<1>1. Init => CloseInv
  BY DEF Init, CloseInv
<1>2. TypeInv /\ CloseInv /\ [Next]_vars => CloseInv'
  BY CloseNext
<1>3. CloseInv => LastEventTellsOutcome
  BY DEF CloseInv, LastEventTellsOutcome, EndsWith
<1>4. QED
  BY <1>1, <1>2, <1>3, TaskInvariance, PTL DEF Spec
=============================================================================
