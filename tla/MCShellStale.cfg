SPECIFICATION ShellSpec
CONSTANTS
    Keys <- MCKeys
    Capacity = 1
    ENTER = 1
    EXIT = 2
    Command <- MCCommand
    Hops = {"h1", "h2"}
    LINE_MAX = 1
    ECHOES = 2
    SENDS = 2
    SOCKET_COUNT = 2
    TalkKeys = {1, 2, 3}
    MaxInbox = 1
    NONE = NONE
INVARIANTS
    QuerySectionSame
CHECK_DEADLOCK FALSE
