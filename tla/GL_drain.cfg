SPECIFICATION FairSpec
CONSTANTS
    WORK_THREAD_NUM = 2
    MAX_CTX_LENGTH = 2
    ReadThreads = {r1}
    Conns = {c1}
    NoConn = NoConn
    MaxMsgs = 2
    MaxSessions = 1
    MaxReloads = 1
INVARIANT ReloadNotForgotten
PROPERTY DispatchDrains
CHECK_DEADLOCK FALSE
