CONSTANTS
  a = a
  b = b
  c = c
  doc = doc
  gone = gone
  Tasks = {a, b, c}
  Sources = {doc}
  Keys <- MCKeys
  Replies <- MCReplies
  HasMid = FALSE
  MaxTasks = 3
  LocalConcurrency = 1
  CloudCalls = 1
  CloudWorkerCalls = 1
  CloudEnabled = TRUE
  LocalSamples = 1
  UseCritic = FALSE
  SkipSmall = FALSE
  LocalWorkerAttempts = 1
  EscalateFailedLocalTasks = TRUE
  PlanAttempts = 1
  MinParallelLocal = 2
SPECIFICATION FairSpec
INVARIANTS
  AcceptedPlansAreExecutable
  InputsResolvable
PROPERTY
  ParseEnds
