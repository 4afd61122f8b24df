SPECIFICATION TimerSpec
CONSTANTS
    TICK_MAX = 6
    QUANTUM = 2
    Delays = {0, 3}
    MaxTimers = 3
    MaxSuspended = 2
INVARIANTS
    TimerListSorted
    TimersConserved
    NeverEarly
PROPERTIES
    NoOverdueAfterTick
    EveryTimerFires
CHECK_DEADLOCK FALSE
