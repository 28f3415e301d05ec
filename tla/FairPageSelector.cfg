SPECIFICATION FairSpec
CONSTANTS
    NServices = 3
    NDomains = 3
    MaxWeight = 3
    MaxTicks = 7
INVARIANTS
    BoundedWait
    WorkConserving
    EqualShares
PROPERTY
    SelectEnds
CHECK_DEADLOCK FALSE
