SPECIFICATION FairSpec
CONSTANTS
    MAX_BYTES = 2
    Sizes = {0, 5}
    Dirs = {"read", "write"}
    Blocking = TRUE
    Rearm = TRUE
    LineErrors = TRUE
    MaxOps = 3
INVARIANT ChunksInOrder
INVARIANT DoneMeansAll
PROPERTY BlockingReturns
CHECK_DEADLOCK FALSE
