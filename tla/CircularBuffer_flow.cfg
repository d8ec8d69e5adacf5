SPECIFICATION FairSpec
CONSTANTS
    Size = 3
    SpinMod = 2
    MaxReq = 3
    MaxAhead = 3
    MaxBytes = 7
INVARIANT TypeOK
INVARIANT FlowInv
INVARIANT SizeExact
INVARIANT ReadRegionIntact
PROPERTY DeliveredInOrder
PROPERTY ImplementsStream
PROPERTY WriteReturns
PROPERTY ReadDrains
