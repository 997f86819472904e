SPECIFICATION Spec
CONSTANTS
  Consumers = {c1, c2}
  CacheSize = 2
  MaxStarts = 2
  NumTextures = 2
  EncodeTextures = 3
  MaxLag = 2
  MaxTime = 5
  MaxGpuTime = 4
INVARIANTS PictureOfItsTime CountsInStep
PROPERTIES EveryIntervalOnce ImplementsFrameClock
SYMMETRY Alike
CHECK_DEADLOCK FALSE
