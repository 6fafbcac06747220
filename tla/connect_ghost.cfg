SPECIFICATION Spec
CONSTANTS
    p1 = p1
    p2 = p2
    k1 = k1
    k2 = k2
    r1 = r1
    r2 = r2
    Process = {p1, p2}
    NoProcess = NoProcess
    Task = {k1, k2}
    NoTask = NoTask
    Request = {r1}
    NoRequest = NoRequest
    Asks <- MCAsks
    Reads <- MCReads
    ForeignClaims = {}
    ForeignCaller = FALSE
    QueuedRead = TRUE
    ByBarrier = FALSE
    MaxAttempts = 2
    MaxDeaths = 0
    MaxTakeovers = 0
    MaxDrift = 0
PROPERTIES
    NoGhostMerge
CHECK_DEADLOCK FALSE
