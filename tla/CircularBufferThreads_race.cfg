SPECIFICATION Spec
CONSTANTS
    Size = 3
    SpinMod = 4
    MaxReq = 3
    MaxBytes = 9
INVARIANT ThreadSafe
