SPECIFICATION FairPlaneSpec
CONSTANTS
    NKeys = 2
    Worker = {w1}
    Sweeper = {s1}
    NoWorker = NoWorker
    NoManifest = NoManifest
    Layout = {l1}
    ReinspectionInterval = 1
    PageSize = 2
    Rum = FALSE
    InOrder = TRUE
    StableId = FALSE
    SlowPages = FALSE
    MaxFaults = 0
    MaxVanished = 0
    SweepLimit = 2
    CacheCap = 1
    MaxSweepFaults = 1
PROPERTIES
    EveryRawIsSwept
    EveryArchiveExpires
