CONSTANTS
    AgentID = {a1, a2, a3, a4}
    Exp = {0, 1}
    TTL = 1
    MaxEntries = 2
    MaxClock = 1
    MaxInserts = 6
SYMMETRY KeySymmetry
SPECIFICATION CacheSpec
INVARIANT SizeBounded
PROPERTY EvictionIsFIFO
CHECK_DEADLOCK FALSE
PROPERTY HitsLostForCause
