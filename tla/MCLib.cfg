SPECIFICATION LibSpec
CONSTANTS
    Lists = {l1, l2}
    Items = {i1, i2, i3, i4}
    NULL = NULL
    COLUMNS = 7
    ROWS = 3
    APPSCREEN_WIDTH = 3
    BYTE = 4
    MaxLen = 5
    Pieces <- MCPieces
    MaxText = 7
    MaxNum = 1100
    KEY_BUF_LEN = 4
    KEY_TABLE_SIZE = 3
    keytable <- MCKeytable
    ScanCodes = {0, 1, 2, 130}
    MEM_TABLE_SIZE = 6
    NBLOCK = 5
    MEM_GRANULARITY = 8
    Sizes = {1, 8, 9}
    BLOCKS = 13
    MaxFrames = 1
    MaxSends = 2
    MaxRecvs = 1
    MaxCopies = 1
    MaxExpiries = 2
INVARIANTS
    NothingOverwritten
    ReceiverAccepts
    
    BlocksConserved
    OnlyAllocPanics
    OneOwner
PROPERTIES
    ListsAreSequences
    KeyQueueSpec
CHECK_DEADLOCK FALSE
