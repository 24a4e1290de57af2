CONSTANTS
  a = a
  b = b
  c = c
  Tasks = {a, b, c}
  HasMid = FALSE
  MaxTasks = 3
  LocalConcurrency = 2
  CloudCalls = 3
  CloudWorkerCalls = 1
  CloudEnabled = TRUE
  LocalSamples = 1
  UseCritic = FALSE
  SkipSmall = FALSE
  LocalWorkerAttempts = 1
  EscalateFailedLocalTasks = TRUE
  PlanAttempts = 1
  MinParallelLocal = 2
  Requests <- PlanRequests
  Plans <- Plans3
  MaxCancels = 1
SPECIFICATION Spec
INVARIANTS
  SlotsAccounted
  DependenciesFirst
  NoOrphanJobs
  AnswerNeedsEveryTask
PROPERTIES
  NoCallDuringCleanup
  ImplementsPlanExecution
