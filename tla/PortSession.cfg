\* The coalescer and the session's log; nothing is held for ever.
SPECIFICATION FairSessionSpec
CONSTANTS
    CAP = 3
    WINDOW = 2
    MaxChunk = 2
    MaxBytes = 4
    MaxTime = 4
INVARIANTS
    TypeOK
    Lossless
    SizeAgrees
    HeldBound
    FirstStamp
PROPERTIES
    AllDelivered
    StampsOrdered
    LogTail
CHECK_DEADLOCK FALSE
