SPECIFICATION FairSpec
CONSTANTS
    Worker = {w1, w2}
    Sweeper = {s1, s2}
    MaxAttempts = 4
    MaxFailures = 3
    Overlap = FALSE
INVARIANTS
    CopyRemains
    MarkerIsBacked
PROPERTIES
    AtomicArchive
    Reclaimed
CHECK_DEADLOCK FALSE
