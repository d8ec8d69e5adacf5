SPECIFICATION FairSpec
CONSTANTS
    Max = 2
    Sizes = {0, 2, 3}
    LastSizes = {4, 8}
    Addresses = {0, 4}
    Kinds = {"block", "cyclic", "nonblock"}
    Depth = 2
    MaxCalls = 3
    MaxPolls = 2
INVARIANT DmaInRange
INVARIANT SmallReturnMeansMoved
PROPERTY Returns
CHECK_DEADLOCK FALSE
