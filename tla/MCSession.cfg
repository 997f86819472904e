CONSTANTS
    video = video
    audio = audio
    Streams = {video, audio}
    MaxClients = 1
    MaxSends = 0
    MaxCalls = 4
    MaxPlays = 2
    MaxWire = 1
SPECIFICATION SessionSpec
INVARIANT Understood
PROPERTY DecisionEndsOpen
CHECK_DEADLOCK FALSE
