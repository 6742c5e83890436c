\* One id, every rule, toggled, edited, removed and added again.
SPECIFICATION EngineSpec
CONSTANTS
    Trigger = {t1}
    Rule <- MCRules
    Byte <- MCByte
    MaxChunk = 2
    MaxStream = 5
INVARIANTS
    TriggerInv
PROPERTIES
    ContainsExact
CHECK_DEADLOCK FALSE
