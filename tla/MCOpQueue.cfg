CONSTANTS
    start1 = start1
    start2 = start2
    stop1 = stop1
    rate1 = rate1
    Ops <- MCOps
SPECIFICATION FairSpec
INVARIANTS FifoExactlyOnce OnlyRefusalsStrand
PROPERTY ImplementsFifo
CHECK_DEADLOCK FALSE
