SPECIFICATION Spec
CONSTANTS
    MAX_CONNECTIONS = 2
    BackLogs = {1, 2}
    Memory = 5
    MaxCalls = 5
    MaxPeer = 3
    MaxUnsure = 1
INVARIANT TypeOK
INVARIANT MapsBack
INVARIANT DataToOwner
INVARIANT ConnectedIsOpen
INVARIANT BuffersApart
CHECK_DEADLOCK FALSE
