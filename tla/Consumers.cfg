\* Two sessions, two paths either may log to, three chunks, four things done.
SPECIFICATION FairConsumers
CONSTANTS
    Session = {"s1", "s2"}
    Path = {"a.txt", "b.txt"}
    NoLog = "none"
    RING_SIZE = 2
    HIGH_WATER = 1
    MaxChunks = 3
    MaxPosted = 2
    MaxUses = 4

    
    
PROPERTIES
    WaitEnds
CHECK_DEADLOCK FALSE
