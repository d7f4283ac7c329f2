SPECIFICATION Spec
CONSTANTS
    WORK_THREAD_NUM = 2
    MAX_CTX_LENGTH = 2
    ReadThreads = {r1}
    Conns = {c1}
    NoConn = NoConn
    MaxMsgs = 1
    MaxSessions = 1
    MaxReloads = 0
INVARIANT DispatchWakesWorker
CHECK_DEADLOCK FALSE
