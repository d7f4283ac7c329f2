SPECIFICATION Spec
CONSTANTS
    MAX_CLIENT_CONNECTIONS = 2
    BITS_PER_BYTE = 8
    MaxSession = 2
    MaxFd = 2
    ReadThreads = {r1}
    MaxClients = 2
    MaxQueue = 2
INVARIANT EveryClientWatched
