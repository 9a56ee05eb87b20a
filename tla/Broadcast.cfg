\* One broadcast to two contacts, sent at most twice.
SPECIFICATION FairSpec
CONSTANTS
    Broadcasts = {b1}
    Addrs = {a1, a2}
    MaxRetry = 1
    MaxResends = 1
CHECK_DEADLOCK FALSE
INVARIANTS
    TypeOK
    CopiesExplained
    OutcomeIsHonest
PROPERTIES
    KeepsPromise
    QueuedIsFinished
