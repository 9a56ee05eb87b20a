\* A bounce and a delivery handled at the same time.
SPECIFICATION Spec
CONSTANTS
    e1 = e1
    to1 = to1
    cc1 = cc1
    Emails = {e1}
    Addrs = {to1, cc1}
    To <- MCTo
    Destination <- MCDestination
    Published <- MCPublished
    ApiReasons = {"manual", "bounce"}
    Notifications = {n1, n2}
    Consumers = {c1, c2}
    MaxMishaps = 1
    NoNotification = NoNotification
CHECK_DEADLOCK FALSE
PROPERTY
    EventsKeepTerminal
