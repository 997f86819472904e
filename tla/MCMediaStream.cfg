CONSTANTS
    Times = {0, 1}
    Amounts = {1}
    MaxFrames = 4
    MaxRequests = 2
    MaxCommands = 3
    MaxAdvice = 2
SPECIFICATION Spec
INVARIANTS OnlyNeededWaits AnsweredInOrder NothingStale Decodable DiscontinuityMarked
CHECK_DEADLOCK FALSE
