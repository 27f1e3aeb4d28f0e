SPECIFICATION Spec
CONSTANTS
    p1 = p1
    k1 = k1
    Processes = {p1, p2}
    RootKeys = {k1, k2}
    NoKey = NoKey
    Cut = Cut
    MaxCrashes = 1
    t1 = t1
    t2 = t2
    pa = pa
    pb = pb
    Tokens = {t1, t2}
    NoToken = NoToken
    Project <- MCProject
    Credentials <- MCCredentials
    Keys <- MCCredentials
    Clients = {s1, s2}
    Senders = {s1, s2}
    Threads = {h1, h2}
    NoSender = NoSender
    NoApiKey = NoApiKey
    Events = {e1, e2}
    NoEvent = NoEvent
    MaxQueue = 1
    PollInterval = 1
    MaxStaleness = 1
    LoadTimeout = 1
    MaxNow = 3
CONSTRAINT Focused
SYMMETRY Symmetry
INVARIANTS
    OneRoot
    VerdictIsRecent
    EventsReachTheirProject
    NothingLeftBehind
CHECK_DEADLOCK FALSE
