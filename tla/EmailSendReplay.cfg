\* The 200 answer of a replayed key.
SPECIFICATION Spec
CONSTANTS
    Emails = {e1, e2}
    Addrs = {a1}
    Listed = {a1}
    Keys = {k1}
    NoKey = NoKey
    NoEmail = NoEmail
    NoMessage = NoMessage
    Quota = 9
    MaxRetry = 0
    MaxReschedules = 0
    MaxTime = 0
    Notices = {}
    Mailpit = FALSE
CHECK_DEADLOCK FALSE
INVARIANT
    AnsweredIsQueued
