CONSTANTS
  a = a
  b = b
  c = c
  Tasks = {a, b}
  HasMid = FALSE
  MaxTasks = 2
  LocalConcurrency = 1
  CloudCalls = 4
  CloudWorkerCalls = 1
  CloudEnabled = TRUE
  LocalSamples = 1
  UseCritic = FALSE
  SkipSmall = FALSE
  LocalWorkerAttempts = 1
  EscalateFailedLocalTasks = TRUE
  PlanAttempts = 2
  MinParallelLocal = 2
  Requests <- PlanRequests
  Plans <- FewPlans
  MaxCancels = 1
SPECIFICATION Spec
INVARIANT
  CancellationPropagates
