CONSTANTS
    MaxEntries = 1
    MaxStarts = 1
    MaxStops = 1
    MaxTime = 0
SPECIFICATION Spec
INVARIANT StoppedHoldsNoSample
CHECK_DEADLOCK FALSE
