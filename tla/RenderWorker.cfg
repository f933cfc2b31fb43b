SPECIFICATION Spec
CONSTANTS
  NumJobs = 1
  MaxRetries = 1
  MaxConcurrent = 1
  MaxDepth = 1
  MaxStops = 0
  AtomicRepo = FALSE
  Env <- OnlyCancel
INVARIANTS WorkerSurvives
CHECK_DEADLOCK FALSE
