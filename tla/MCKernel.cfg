SPECIFICATION KernelFairSpec
CONSTANTS
    MAX_TASK = 3
    Start <- KernelStart
    Causes <- MCCauses
    NULL = NULL
    TICK_MAX = 100
    QUANTUM = 2
    DELAY = 2
    TICK_HALF = 2
    UDP_SOCKET_COUNT = 1
    RAW_SOCKET_COUNT = 1
    MaxTick = 4
    MaxPkts = 2
    MaxOpens = 2
INVARIANTS
    NoLostWakeup
    TimeoutArmed
    DeliveredInOrder
PROPERTIES
    TaskSpec
    TimeoutDue
    RecvReturns
    WorkDone
CHECK_DEADLOCK FALSE
