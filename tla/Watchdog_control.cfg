SPECIFICATION FairSpec
CONSTANTS
    N = 2
    Peers = {server, login, operator}
    Main = server
    NoPeer = NoPeer
INVARIANTS TypeOK ControlDescriptorsAccounted StopWaitsForItself
PROPERTIES CommandsRead SystemStops
CHECK_DEADLOCK FALSE
