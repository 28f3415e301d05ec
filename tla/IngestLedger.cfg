SPECIFICATION FairSpec
CONSTANTS
    Key = {k1}
    Worker = {w1, w2}
    Committer = {c1}
    Nobody = Nobody
    MaxAttempts = 2
    MaxFaults = 2
    MaxOperator = 1
INVARIANTS
    NoDuplicateRows
    CommittedIsInLake
    DeletedIsInLake
PROPERTIES
    PublishedIsFlushed
    CommittedIsFinal
    EveryObjectSettles
