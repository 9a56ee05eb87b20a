\* What an event sets off: deliveries to endpoints, and a run of an automation.
SPECIFICATION OutboundSpec
CONSTANTS
    w1 = w1
    w2 = w2
    o1 = o1
    o2 = o2
    Hooks <- MCHooks
    Occurrences <- MCOccurrences
    Listings <- MCListings
    Connections = 2
    MaxDeliverRetry = 1
    MaxFanoutFaults = 1
    Plans <- MCPlans
    ChainTasks = {k1, k2, k3}
    MaxStepRetry = 1
    MaxRunFaults = 1
    MaxEdits = 1
CHECK_DEADLOCK FALSE
INVARIANTS
    OutboundTyped
    EveryStepOnce
PROPERTIES
    EventReachesEndpoint
    RunsEnd
