CONSTANTS
    Worker = {w1, w2}
    None = None
    MaxTask = 1
SPECIFICATION FairSpec
PROPERTY ShutdownReturns
CHECK_DEADLOCK FALSE
