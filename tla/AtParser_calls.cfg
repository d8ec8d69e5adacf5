SPECIFICATION Spec
CONSTANTS
    MAX_CONNECTIONS = 2
    RESULT_BUFF_LEN = 5
    CbSize = 2
    Buffered = {0}
    Cmds = {"exec", "send", "disc", "reset"}
    Lengths = {3}
    MaxWrites = 2
    MaxEvents = 2
INVARIANT TypeOK
INVARIANT Listening
INVARIANT PayloadKeptApart
INVARIANT LenNeverWraps
INVARIANT AnswerIsOwn
INVARIANT ClosedIsSeen
INVARIANT NoneMissed
CHECK_DEADLOCK FALSE
