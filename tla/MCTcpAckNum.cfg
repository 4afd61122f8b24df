SPECIFICATION TcpSpec
CONSTANTS
    Roles = {"client"}
    MaxConnect = 1
    DataLen = 1
    Sizes = {1}
    TICK_HALF = 1
    MaxSend = 0
    MaxEmpty = 0
    MaxRecv = 0
    MaxTick = 0
    MaxPeerData = 1
    MaxData = 1
    MaxFault = 1
    MaxFlight = 1
    MaxPeerFlight = 1
INVARIANT AckNumIsNext
CHECK_DEADLOCK FALSE
