CONSTANTS
    HeaderSize = 2
    MaxPacketSize = 2
    MaxBuffer = 4
    Plans <- Answers
    Misread <- LooksLike
    Streams = {1, 2}
    MaxCalls = 3
SPECIFICATION FairSpec
INVARIANTS PacketsIntact OpensAndHears OperationsStand
PROPERTIES EverythingIsProcessed ImplementsProtocol
CHECK_DEADLOCK FALSE
