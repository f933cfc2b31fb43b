SPECIFICATION Spec
CONSTANTS
  NumReqs = 3
  MaxSessions = 1
  MaxStops = 1
  Env <- PreviewEvents
INVARIANTS LiveIsTracked ReadyHasFiles StopLeavesNothing
PROPERTIES RequestsAnswered
CHECK_DEADLOCK FALSE
