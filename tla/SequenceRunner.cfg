\* Every order of start, stop, pause, resume and timeouts; a counted run ends.
SPECIFICATION FairSpec
CONSTANTS
    Counts <- MCCounts
    MaxSent = 5
    MaxRuns = 5
INVARIANTS
    RunnerInv
    OneFinishPerRun
PROPERTIES
    CountedRunEnds
CHECK_DEADLOCK FALSE
