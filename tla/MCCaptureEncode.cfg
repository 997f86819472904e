SPECIFICATION FairSpec
CONSTANTS
  PoolSize = 2
  MaxFrames = 5
INVARIANTS OnlyEndedWhenTold
PROPERTIES SamplesGoForward RequestsEnd
CHECK_DEADLOCK FALSE
