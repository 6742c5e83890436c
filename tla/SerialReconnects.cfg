\* One failed reconnect is the last.
SPECIFICATION FairSpec
CONSTANTS
    CAP = 2
    WINDOW = 1
    MaxChunk = 1
    MaxBytes = 0
    MaxTime = 0
    AUTO_RECONNECT = TRUE
    MaxQueue = 2
    Worker = {}
PROPERTIES
    Reconnects
CHECK_DEADLOCK FALSE
