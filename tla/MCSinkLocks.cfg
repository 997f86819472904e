CONSTANTS
    Pipeline = {p1}
    Handlers = {c1, c2}
    Application = {a1, a2}
    Free = Free
SPECIFICATION FairLocksSpec
INVARIANT OnlyErrorMeetsDispose
PROPERTY CallsReturn
CHECK_DEADLOCK FALSE
