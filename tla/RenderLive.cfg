SPECIFICATION Spec
CONSTANTS
  NumJobs = 2
  MaxRetries = 0
  MaxConcurrent = 1
  MaxDepth = 1
  MaxStops = 1
  AtomicRepo = FALSE
  Env <- CancelAndCrash
PROPERTIES QueuedJobMoves RunningEnds LockReleased
CHECK_DEADLOCK FALSE
