\* One email with a reschedule: two tasks whose attempts overlap.
SPECIFICATION Spec
CONSTANTS
    Emails = {e1}
    Addrs = {a1}
    Listed = {}
    Keys = {}
    NoKey = NoKey
    NoEmail = NoEmail
    NoMessage = NoMessage
    Quota = 9
    MaxRetry = 1
    MaxReschedules = 1
    MaxTime = 1
    Notices = {"bounced"}
    Mailpit = FALSE
CHECK_DEADLOCK FALSE
INVARIANTS
    TypeOK
    CopiesExplained
    SentIsTraceable
    CompletedIsResolved
    SentOnTime
    UsageIsBacked
PROPERTY
    KeepsPromise
