CONSTANTS
  a = a
  b = b
  c = c
  Tasks = {a, b}
  HasMid = TRUE
  MaxTasks = 2
  LocalConcurrency = 1
  CloudCalls = 3
  CloudWorkerCalls = 1
  CloudEnabled = TRUE
  LocalSamples = 1
  UseCritic = TRUE
  SkipSmall = TRUE
  LocalWorkerAttempts = 2
  EscalateFailedLocalTasks = TRUE
  PlanAttempts = 2
  MinParallelLocal = 3
  Requests <- MostRequests
  Plans <- AllGraphs
  MaxCancels = 2
SPECIFICATION FairSpec
INVARIANTS
  BudgetKept
  SynthesisReserved
  NeverStuck
  AcceptedOnce
  InterruptedRunsDoNotAnswer
  LastEventTellsOutcome
PROPERTY
  Terminates
