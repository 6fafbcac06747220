SPECIFICATION FairSpec
CONSTANTS
    p1 = p1
    p2 = p2
    p3 = p3
    la = la
    lb = lb
    Proc = {p1, p2, p3}
    Label = {la, lb}
    label <- MCLabel
    Ttl <- MCTtl
    MaxTtl = 2
    MaxEpoch = 4
INVARIANTS
    TypeOK
    OnlyTheLastWrites
PROPERTIES
    PromptLeaderStays
    OrphanedLeaseEnds
