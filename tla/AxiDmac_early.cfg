SPECIFICATION Spec
CONSTANTS
    Max = 2
    Sizes = {}
    LastSizes = {5}
    Addresses = {0}
    Kinds = {"block"}
    Depth = 2
    MaxCalls = 1
    MaxPolls = 2
INVARIANT ReturnMeansMoved
CHECK_DEADLOCK FALSE
