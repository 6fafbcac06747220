SPECIFICATION Spec
CONSTANTS
    a1 = a1
    a2 = a2
    a3 = a3
    Agent = {a1, a2, a3}
    Priority <- MCPriority
    Task = {1, 2}
    Owner <- MCOwner
    Dependents = {1}
    MaxPermits = 2
    MaxWaits = 3
    MaxConsumers = 2
    MaxFence = 3
    MaxGeneration = 1
    MaxReclaims = 1
    MaxCrashes = 1
CHECK_DEADLOCK FALSE
INVARIANTS
    TypeOK
    SlotsAreUsed
    SignalsAreHeard
    TrippedMeansMerged
PROPERTIES
    GrantsInOrder
    TripIsOwned
    BarrierSettles
