\* Each part of a workspace on its own, with two or three requests at a time.
SPECIFICATION WorkspaceSpec
CONSTANTS
    Addrs = {a1}
    NoAddr = NoAddr
    Calls = {c1, c2}
    MaxContacts = 2
    MaxFailures = 2
    Teams = {t1, t2}
    NoTeam = NoTeam
    Clients = {m1, m2}
    NoClient = NoClient
    Users = {u1, u2}
    NoUser = NoUser
    TokenUsers = {NoUser}
    Invites = {i1}
    MaxMemberRows = 3
    MaxDomains = 2
    MaxDeliveries = 3
    MaxMoves = 2
    Subs = {s1, s2}
    NoSub = NoSub
    MaxEvents = 5
    Apps = {p1}
    MaxGrants = 4
    People = {b1}
    Topics = {n1, n2}
    Segments = {g1}
    MaxPeople = 2
    l1 = l1
    l2 = l2
    Listeners <- MCListeners
    Wanted <- MCWanted
    MaxLiveEvents = 3
    MaxReplay = 1
    MaxStreams = 1
    MaxExpiries = 1
    MaxSlots = 2
SYMMETRY Symmetry
CHECK_DEADLOCK FALSE
INVARIANTS
    WorkspaceTyped
    UnsubscribeHolds
    MailArrivesOnce
    BillingFollowsStripe
    TokensFollowGrants
    TopicChoiceIsKept
    MissedIsExplained
    StreamsAreBounded
PROPERTIES
    AcceptedMeansWilling
    HardReasonsStay
    MembershipIsGranted
    ImplementsClaimedName
