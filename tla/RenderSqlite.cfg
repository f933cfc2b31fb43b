SPECIFICATION Spec
CONSTANTS
  NumJobs = 1
  MaxRetries = 1
  MaxConcurrent = 1
  MaxDepth = 1
  MaxStops = 1
  AtomicRepo = FALSE
  Env <- Everything
INVARIANTS RunningIsOwned EncodeIsAwaited CompletedHasOutput
CHECK_DEADLOCK FALSE
