CONSTANTS
    message_max_length = 2
    CHUNK = 2
    Bodies <- LegalBodies
    MaxFrames = 1
    MaxSession = 1
    MAX_SQL_CONNECTION = 2
    Threads = {t1, t2, t3}
    NoThread = NoThread
    MaxHeld = 2
    MaxGets = 0
    k = k
    k2 = k2
    main = main
    sub = sub
    text = text
    f = f
    g = g
    Keys = {k, k2}
    Texts = {main, sub, text}
    Main <- MainFile
    Disks <- FileSystems
    MaxOpen = 3
    MaxLoads = 0
    Protos = {0, 1, 2}
    Scripts <- Registrations
    NoParse = NoParse
    MaxStarts = 0
    MaxMessages = 0
    Names = {".", "a"}
    Dots = {"."}
    MaxChanges = 0
    MaxCalls = 0
SPECIFICATION Spec
PROPERTY LegalMessagesArrive
CHECK_DEADLOCK FALSE
