SPECIFICATION Spec
CONSTANTS
  v1 = v1
  v2 = v2
  MaxCalls = 3
  MaxStops = 1
  Videos <- TwoVideos
  Threshold = 0
  Keys <- TwoKeys
  FirstKey = "hello"
  BatchJobs <- TwoJobs
  ParallelLimit = 1
  Encoders = 2
  Timeline = 2
INVARIANTS TypeOK ReadyHasFile SectionsDisjoint EncodersWhole ReadyCueMatches CancelAnswersStand InProgressIsOwned
CHECK_DEADLOCK FALSE
