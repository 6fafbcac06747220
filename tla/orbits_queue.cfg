SPECIFICATION Spec
CONSTANTS
    a1 = a1
    a2 = a2
    c1 = c1
    c2 = c2
    k1 = k1
    k2 = k2
    Agent = {a1, a2}
    NoAgent = NoAgent
    Task = {k1}
    NoTask = NoTask
    Cell = {c1, c2}
    Request <- QueueRequest
    Quantum = 2
    MaxBoost = 1
    AgentTTL = 1
    Windows = {}
    WaitTimeout = 3
    Capacity = 2
    MaxReclaims = 0
    ForeignStart = FALSE
    MaxOrbits = 3
    MaxFence = 0
    MaxWaste = 0
    MaxTime = 4
SYMMETRY QueueSymmetry
INVARIANTS
    SweepSettles
PROPERTIES
    NoOvertaking
    GrantsOnlyTheLiving
    NoDeadlockLeftBehind
