SPECIFICATION R8169Spec
CONSTANTS
    RX_RING_SIZE = 3
    TX_RING_SIZE = 3
    RX_BUF_SIZE = 2
    Frames = {1, 2}
    Loads <- MCRaceLoads
PROPERTY OwnedUntouched
CHECK_DEADLOCK FALSE
