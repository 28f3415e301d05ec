SPECIFICATION FairSpec
CONSTANTS
    Key = {k1, k2}
    Filtered = {k2}
    MaxFaults = 3
    MaxRecoveryFailures = 1
INVARIANTS
    IngestedIsSafe
    HiddenIsInLake
    NoDuplicateRows
PROPERTIES
    EveryObjectSettles
