CONSTANTS
    video = video
    audio = audio
    Streams = {video}
    MaxClients = 1
    MaxSends = 2
    MaxCalls = 2
SPECIFICATION Spec
INVARIANT ListensAfterRefusal
CHECK_DEADLOCK FALSE
