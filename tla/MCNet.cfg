SPECIFICATION NetSpec
CONSTANTS
    MAX_ARP_TABLE = 8
    Hosts = {1, 2}
    gw_addr = 1
    Remote = {3}
    MaxFrames = 1
    MaxLoss = 1
INVARIANT RightNextHop
PROPERTY Resolved
