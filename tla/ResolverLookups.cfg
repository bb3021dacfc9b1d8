CONSTANTS
    Absent = Absent
    Malformed = Malformed
    Fold <- MCFold
    AgentIn <- MCAgentIn
    Caller = {c1, c2}
    Zones <- MCZones
    Wanted = {1}
    Apps = {{"preferred", "version"}, {"discovery"}, {"parallel"}}
    LastChange = 0
    SliceId = {1, 2, 3}
    CacheTTL = 1
    Timeout = 1
    MaxTime = 4
SPECIFICATION Spec
INVARIANT SettledAnswer
INVARIANT SelectionIsOrderFree
SYMMETRY Symm
