\* The TCP session: safety, it implements PortSession, it reconnects.
SPECIFICATION FairSpec
CONSTANTS
    CAP = 3
    WINDOW = 1
    MaxChunk = 2
    MaxBytes = 4
    MaxTime = 2
    AUTO_RECONNECT = TRUE
INVARIANTS
    TcpInv
    StaysDisconnected
PROPERTIES
    Reconnects
    ImplementsSession
CHECK_DEADLOCK FALSE
