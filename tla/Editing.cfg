SPECIFICATION Spec
CONSTANTS
  NumReqs = 3
  Length = 2
  Keep = 1
  MaxCrashes = 1
  Kinds <- AllKinds
INVARIANTS FramesKept GoneForGood AnsweredEditsStand AnsweredVersionsStand
CHECK_DEADLOCK FALSE
