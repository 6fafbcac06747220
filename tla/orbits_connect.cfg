SPECIFICATION Spec
CONSTANTS
    a1 = a1
    a2 = a2
    c1 = c1
    c2 = c2
    k1 = k1
    k2 = k2
    Agent = {a1, a2}
    NoAgent = NoAgent
    Task = {k1, k2}
    NoTask = NoTask
    Cell = {c1, c2}
    Request <- ConnectRequest
    Quantum = 1
    MaxBoost = 1
    AgentTTL = 1
    Windows = {}
    WaitTimeout = 2
    Capacity = 1
    MaxReclaims = 0
    ForeignStart = FALSE
    MaxOrbits = 2
    MaxFence = 3
    MaxWaste = 0
    MaxTime = 3
SYMMETRY AgentSymmetry
INVARIANTS
    TypeOK
    Singulon
    RetiredOwnsNothing
    PinsAccountedFor
PROPERTIES
    PinProtects
