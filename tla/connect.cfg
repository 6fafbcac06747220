SPECIFICATION FairSpec
CONSTANTS
    p1 = p1
    p2 = p2
    k1 = k1
    k2 = k2
    r1 = r1
    r2 = r2
    Process = {p1, p2}
    NoProcess = NoProcess
    Task = {k1, k2}
    NoTask = NoTask
    Request = {r1}
    NoRequest = NoRequest
    Asks <- MCAsks
    Reads <- MCReads
    ForeignClaims = {k1}
    ForeignCaller = FALSE
    QueuedRead = FALSE
    ByBarrier = FALSE
    MaxAttempts = 2
    MaxDeaths = 1
    MaxTakeovers = 2
    MaxDrift = 1
INVARIANTS
    TypeOK
    TwoStoresAgree
    LogIsComplete
    RequestsTellTheTruth
PROPERTIES
    NoGhostMerge
    AttemptsSettle
    RequestsSettle
CHECK_DEADLOCK FALSE
