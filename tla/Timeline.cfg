SPECIFICATION Spec
CONSTANTS
  Parts = {"ranges", "plan", "transitions"}
  MaxFrame = 5
  MaxRanges = 4
  MaxClips = 3
  MaxTicks = 4
  FrameTicks = 4
  ClipCount = 5
  TrackCount = 2
  SourceFrames = 2
  LastPosition = 1
  LastTime = 3
  LongestFade = 2
  MaxEdits = 2
  FileTicks = 1
  OutputTicks = 2
  Second = 1
INVARIANTS RangesAreSets PlanIsTimeline SavedFadesRender
CHECK_DEADLOCK FALSE
