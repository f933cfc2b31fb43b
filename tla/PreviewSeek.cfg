SPECIFICATION Spec
CONSTANTS
  NumReqs = 3
  MaxSessions = 1
  MaxStops = 0
  Env <- NoEvents
INVARIANTS SeekingIsServed
CHECK_DEADLOCK FALSE
