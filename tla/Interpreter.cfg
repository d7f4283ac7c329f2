CONSTANTS
    IntKeys = {1, 2, 3}
    ShortStrings = {s}
    Objects = {o}
    Events = {s}
    Values = {v}
    NoValue = NoValue
    Ended = Ended
    MAX_INT = 3
    mt = mt
    tbl = tbl
    clo = clo
    str = str
    wk = wk
    Obj = {mt, tbl, clo, str, wk}
    Main = mt
    Kind <- KindOf
    MaxRefs = 1
    MaxLive = 3
    MAXINDEXRK = 0
    MAXARG_Bx = 30
    MAXREGS = 40
    LFIELDS_PER_FLUSH = 2
    STACK = 40
    MAXSTEPS = 40
    INSTRUCTIONS = 200
    Threads = {main, co1, co2}
    main = main
    LUAI_MAXCCALLS = 4
    MaxInfos = 6
    ResumesNormal = FALSE
    MAXCCALLS = 20
    LUA_MAXCAPTURES = 4
    MaxN = 6
    RANLIMIT = 4
    IMBALANCE = 2
    MaxRnd = 2
    WIDTH = 4
    MANT_DIG = 3
    INT_MAX = 3
    LUAI_MAXSTACK = 3
    MaxLen = 4
    NB = 2
    SZINT = 3
    MAXINTSIZE = 4
    MAXSIZE = 12
    little = TRUE
    BYTE = 8
    PieceSizes = {1, 3, 1000}
    BASE = 4
    None = None
SPECIFICATION Spec
INVARIANT NothingLiveCollected
PROPERTIES ImplementsTableMap ImplementsCoroutines CodeComputesMeaning LibraryComputesMeaning
CHECK_DEADLOCK FALSE
