SPECIFICATION FairSpec
CONSTANTS
    Coordinators = 2
    Notifications = 2
    Plans <- MCPlans
INVARIANTS
    TypeOK
    NothingLost
    RegistryBounded
    ClosedIsSilent
PROPERTIES
    HeardInOrder
    AllIsHeard
CHECK_DEADLOCK FALSE
