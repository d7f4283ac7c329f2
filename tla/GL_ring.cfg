SPECIFICATION Spec
CONSTANTS
    WORK_THREAD_NUM = 2
    MAX_CTX_LENGTH = 2
    ReadThreads = {r1, r2}
    Conns = {c1}
    NoConn = NoConn
    MaxMsgs = 3
    MaxSessions = 2
    MaxReloads = 0
SYMMETRY Symmetry
INVARIANTS TypeOK QueueIsRingSegment ReusedOnlyAfterALap SleepersLookIdle OneOwner HandlerContext
PROPERTY ImplementsWorkQueue
CHECK_DEADLOCK FALSE
