\* Two producers, a full queue, a failing disk and a stop at any moment.
SPECIFICATION FairSpec
CONSTANTS
    Main = main
    Api = {api}
    MAX_QUEUE = 2
    MaxRecords = 5
INVARIANTS
    LogInv
    Conserved
    FileInOrder
    StopDrains
PROPERTIES
    WriterEnds
CHECK_DEADLOCK FALSE
