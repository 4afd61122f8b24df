SPECIFICATION TcpFairSpec
CONSTANTS
    Roles = {"client"}
    MaxConnect = 1
    DataLen = 1
    Sizes = {1}
    TICK_HALF = 1
    MaxSend = 2
    MaxEmpty = 0
    MaxRecv = 0
    MaxTick = 0
    MaxPeerData = 1
    MaxData = 2
    MaxFault = 1
    MaxFlight = 2
    MaxPeerFlight = 1
INVARIANTS
    PeerStreamInOrder
PROPERTIES
    ConnectReturns
    DataDelivered
CHECK_DEADLOCK FALSE
