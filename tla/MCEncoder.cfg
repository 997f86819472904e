SPECIFICATION FairSpec
CONSTANTS
  Outputs = {o1, o2, o3}
  MaxCalls = 4
  MaxFrames = 3
INVARIANT OnlyOvertakenAreLost
PROPERTIES OutputsDecode DestroyedInTheEnd
CHECK_DEADLOCK FALSE
