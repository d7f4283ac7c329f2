SPECIFICATION MCSpec
CONSTANTS
    MAX_CLIENT_CONNECTIONS = 2
    BITS_PER_BYTE = 8
    MaxSession = 2
    MaxFd = 3
    r1 = r1
    r2 = r2
    ReadThreads = {r1, r2}
    MaxClients = 3
    MaxQueue = 1
INVARIANTS TypeOK DescriptorsAccounted SessionIffOpen OneReaderPerSlot CloseHitsFailedSession
PROPERTIES ImplementsClientTable TopClientServed
CHECK_DEADLOCK FALSE
