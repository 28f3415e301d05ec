SPECIFICATION PlaneSpec
CONSTANTS
    NKeys = 1
    Worker = {w1, w2}
    Sweeper = {s1, s2}
    NoWorker = NoWorker
    NoManifest = NoManifest
    Layout = {l1, l2}
    ReinspectionInterval = 1
    PageSize = 1
    Rum = FALSE
    InOrder = TRUE
    StableId = FALSE
    SlowPages = TRUE
    MaxFaults = 0
    MaxVanished = 0
    SweepLimit = 2
    CacheCap = 1
    MaxSweepFaults = 0
SYMMETRY PlaneSymmetry
INVARIANTS
    SweptIsArchived
    ExpiredHasNoRaw
PROPERTY
    AcknowledgedIsFinal
