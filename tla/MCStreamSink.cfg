CONSTANTS
    MaxEntries = 2
    MaxStarts = 2
    MaxStops = 1
    MaxTime = 1
SPECIFICATION FairSpec
INVARIANTS InOrder Backpressure QueueConsistent TimesKeepDistance
PROPERTIES FirstFrameOnConnect SilentAfterShutdown MarkersAreReported RunningAsksForSamples
CHECK_DEADLOCK FALSE
