\* One email with a reschedule, under the scheduling of Asynq.
SPECIFICATION FairSpec
CONSTANTS
    Emails = {e1}
    Addrs = {a1}
    Listed = {}
    Keys = {}
    NoKey = NoKey
    NoEmail = NoEmail
    NoMessage = NoMessage
    Quota = 9
    MaxRetry = 0
    MaxReschedules = 1
    MaxTime = 1
    Notices = {"bounced"}
    Mailpit = TRUE
CHECK_DEADLOCK FALSE
PROPERTIES
    EveryTaskEnds
    QueuedIsResolved
