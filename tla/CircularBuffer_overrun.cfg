SPECIFICATION Spec
CONSTANTS
    Size = 2
    SpinMod = 3
    MaxReq = 2
    MaxAhead = 8
    MaxBytes = 9
INVARIANT RegionInBuffer
INVARIANT SizeNeverOverstated
INVARIANT OverrunIsReal
