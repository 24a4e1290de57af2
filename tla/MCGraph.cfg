CONSTANTS
  a = a
  b = b
  c = c
  Tasks = {a, b}
  HasMid = TRUE
  MaxTasks = 2
  LocalConcurrency = 2
  CloudCalls = 4
  CloudWorkerCalls = 1
  CloudEnabled = TRUE
  LocalSamples = 2
  UseCritic = TRUE
  SkipSmall = TRUE
  LocalWorkerAttempts = 1
  EscalateFailedLocalTasks = TRUE
  PlanAttempts = 2
  MinParallelLocal = 2
  Requests <- RoutesAndPlan
  Plans <- FewPlans
  MaxCancels = 1
SPECIFICATION GraphSpec
INVARIANTS
  TypeOK
  LocalModelsFirst
  GraphShowsRoute
  GraphAtRest
  GraphShowsTasks
  ResultsFlowForward
