\* One pool and two workers over three days.
SPECIFICATION FairSpec
CONSTANTS
    Pools = {p1}
    NoPool = NoPool
    Workers = {w1, w2}
    Plan <- MCPlan
    DefaultCap = 1
    MaxDay = 2
    MaxFailures = 1
    MaxPauses = 1
CHECK_DEADLOCK FALSE
INVARIANTS
    TypeOK
    GrantsFollowPlan
    AdvancesDaily
PROPERTIES
    PausedStandsStill
    DueIsAdvanced
