\* Three records, a table of two rows, batches of two, three uses of the tools.
SPECIFICATION FairSpec
CONSTANTS
    MAX_ROWS = 2
    DRAIN_CHUNK = 2
    Input <- MCInput
    Printable = {"a", "b"}
    Filter <- MCFilter
    Rule <- MCRule
    MaxRules = 2
    SeqPattern <- MCSeqPattern
    Needle <- MCNeedle
    Layers <- MCLayers
    MaxRecords = 3
    MaxUses = 3
INVARIANTS
    TableInv
    ArrivalOrder
PROPERTIES
    ImplementsView
    PendingIsShown
CHECK_DEADLOCK FALSE
