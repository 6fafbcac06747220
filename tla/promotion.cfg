SPECIFICATION Spec
CONSTANTS
    a1 = a1
    a2 = a2
    c1 = c1
    c2 = c2
    k1 = k1
    Agent = {a1, a2}
    NoAgent = NoAgent
    Task = {k1}
    NoTask = NoTask
    Cell = {c1, c2}
    Start <- MCStart
    At = 2
    Quantum = 1
    MaxBoost = 1
    AgentTTL = 1
    WaitTimeout = 2
    Capacity = 2
    MaxReclaims = 0
CHECK_DEADLOCK FALSE
INVARIANTS
    WalkAgrees
