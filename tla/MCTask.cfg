SPECIFICATION TaskFairSpec
CONSTANTS
    MAX_TASK = 6
    Start <- MCStart
    Causes = {wq, sock}
    NULL = NULL
INVARIANTS
    TaskTypeOK
    ReadyListsExact
    SleepYieldsCpu
PROPERTIES
    HighNotStarved
