SPECIFICATION Spec
CONSTANTS
    WorkThreads = {w1, w2}
    Conns = {c1, c2}
    NoMsg = NoMsg
    Pieces = 2
    MaxSession = 1
    MaxRequests = 2
INVARIANT GateStreamIsFrames
CHECK_DEADLOCK FALSE
