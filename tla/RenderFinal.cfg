SPECIFICATION Spec
CONSTANTS
  NumJobs = 1
  MaxRetries = 1
  MaxConcurrent = 1
  MaxDepth = 1
  MaxStops = 0
  AtomicRepo = FALSE
  Env <- OnlyCancel
PROPERTIES FinalIsFinal
CHECK_DEADLOCK FALSE
