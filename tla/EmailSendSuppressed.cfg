\* A recipient suppressed while the email waits.
SPECIFICATION Spec
CONSTANTS
    Emails = {e1}
    Addrs = {a1}
    Listed = {a1}
    Keys = {}
    NoKey = NoKey
    NoEmail = NoEmail
    NoMessage = NoMessage
    Quota = 9
    MaxRetry = 0
    MaxReschedules = 0
    MaxTime = 0
    Notices = {}
    Mailpit = FALSE
CHECK_DEADLOCK FALSE
PROPERTY
    WorkerHonoursSuppressions
