SPECIFICATION Spec
CONSTANTS
  NumJobs = 2
  MaxRetries = 1
  MaxConcurrent = 1
  MaxDepth = 1
  MaxStops = 0
  AtomicRepo = TRUE
  Env <- UsersAndSweeper
INVARIANTS AttemptsBounded AnnouncementsHold
PROPERTIES FinalIsFinal Implements
CHECK_DEADLOCK FALSE
