SPECIFICATION FairSpec
CONSTANTS
    N = 2
    Peers = {server, login, operator}
    Main = server
    NoPeer = NoPeer
PROPERTY ShutdownStopsGate
CHECK_DEADLOCK FALSE
