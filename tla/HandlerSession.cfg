\* Servers, UDP and HID: they keep in step with their session and implement it.
SPECIFICATION FairSpec
CONSTANTS
    CAP = 2
    WINDOW = 1
    MaxChunk = 2
    MaxBytes = 3
    MaxTime = 2
    MaxClients = 3
    MaxQueue = 1
INVARIANT
    HandlerInv
PROPERTIES
    ImplementsSession
    CloseEnds
CHECK_DEADLOCK FALSE
