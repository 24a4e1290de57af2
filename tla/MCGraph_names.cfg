CONSTANTS
  a = "answer"
  b = b
  c = c
  Tasks = {"answer", b}
  HasMid = TRUE
  MaxTasks = 2
  LocalConcurrency = 2
  CloudCalls = 4
  CloudWorkerCalls = 1
  CloudEnabled = TRUE
  LocalSamples = 1
  UseCritic = FALSE
  SkipSmall = TRUE
  LocalWorkerAttempts = 1
  EscalateFailedLocalTasks = TRUE
  PlanAttempts = 2
  MinParallelLocal = 2
  Requests <- HardPlanRequest
  Plans <- FewPlans
  MaxCancels = 0
SPECIFICATION GraphSpec
INVARIANT
  StepsHaveTheirOwnNode
