\* Two workers at midnight.
SPECIFICATION Spec
CONSTANTS
    Pools = {p1}
    NoPool = NoPool
    Workers = {w1, w2}
    Plan <- MCPlan
    DefaultCap = 1
    MaxDay = 2
    MaxFailures = 1
    MaxPauses = 1
CHECK_DEADLOCK FALSE
INVARIANT
    AdvancesOnlyDaily
