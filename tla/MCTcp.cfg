SPECIFICATION TcpSpec
CONSTANTS
    Roles = {"client", "server"}
    MaxConnect = 2
    DataLen = 2
    Sizes = {1}
    TICK_HALF = 1
    MaxSend = 1
    MaxEmpty = 1
    MaxRecv = 1
    MaxTick = 1
    MaxPeerData = 2
    MaxData = 2
    MaxFault = 1
    MaxFlight = 1
    MaxPeerFlight = 1
INVARIANTS
    StreamInOrder
    UnackedKept
    SleeperWaits
    PanicOnlyOnRace
PROPERTY ConnectionSpec
CHECK_DEADLOCK FALSE
