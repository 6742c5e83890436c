\* The serial session: safety, it implements PortSession, disconnect() ends.
SPECIFICATION FairSpec
CONSTANTS
    CAP = 2
    WINDOW = 1
    MaxChunk = 1
    MaxBytes = 2
    MaxTime = 2
    AUTO_RECONNECT = TRUE
    MaxQueue = 2
    Worker = {"w1"}
INVARIANTS
    SerialInv
PROPERTIES
    
    DisconnectEnds
    ImplementsSession
CHECK_DEADLOCK FALSE
