CONSTANTS
    message_max_length = 2
    CHUNK = 2
    Bodies <- MixedBodies
    MaxFrames = 2
    MaxSession = 2
    MAX_SQL_CONNECTION = 2
    Threads = {t1, t2, t3}
    NoThread = NoThread
    MaxHeld = 2
    MaxGets = 4
    k = k
    k2 = k2
    main = main
    sub = sub
    text = text
    f = f
    g = g
    Keys = {k, k2}
    Texts = {main, sub, text}
    Main <- MainFile
    Disks <- FileSystems
    MaxOpen = 3
    MaxLoads = 2
    Protos = {0, 1, 2}
    Scripts <- Registrations
    NoParse = NoParse
    MaxStarts = 3
    MaxMessages = 3
    Names = {".", "a"}
    Dots = {"."}
    MaxChanges = 2
    MaxCalls = 2
SPECIFICATION Spec
INVARIANTS DeliveredAsSent InStep LoadsAsWritten HandledAsRegistered ListedAsPresent
PROPERTIES EveryMessageDelivered WaitEnds
CHECK_DEADLOCK FALSE
