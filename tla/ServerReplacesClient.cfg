\* A second client while the first is connected.
SPECIFICATION Spec
CONSTANTS
    CAP = 2
    WINDOW = 1
    MaxChunk = 2
    MaxBytes = 3
    MaxTime = 2
    MaxClients = 3
    MaxQueue = 1
INVARIANT
    NewClientIsServed
CHECK_DEADLOCK FALSE
