\* Two sessions, one tap, two sequence ids; six things are done.
SPECIFICATION FairSpec
CONSTANTS
    Crc32 <- MCCrc32
    Port = {"p1", "p2"}
    Tap = {"t1"}
    SeqId = {"q1", "q2"}
    SeqDef <- MCSeqDef
    Project <- MCProject
    MaxSent = 2
    MaxDrips = 2
    MaxUses = 6
INVARIANTS
    WindowTellsTruth
    RunsHaveSessions
    RowsTellRuns
PROPERTIES
    ClosedGoesQuiet
CHECK_DEADLOCK FALSE
