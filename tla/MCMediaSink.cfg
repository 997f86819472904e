CONSTANTS
    video = video
    audio = audio
    Streams = {video, audio}
    MaxClients = 2
    MaxSends = 3
    MaxCalls = 5
SPECIFICATION FairSpec
INVARIANTS DecisionsStand EndTogether ClosedForGood NoStreamHeldBack
PROPERTY LossIsNoticed
CHECK_DEADLOCK FALSE
