SPECIFICATION FairSpec
CONSTANTS
    NKeys = 2
    Worker = {w1, w2}
    NoWorker = NoWorker
    NoManifest = NoManifest
    Layout = {l1}
    ReinspectionInterval = 1
    PageSize = 1
    Rum = TRUE
    InOrder = FALSE
    StableId = FALSE
    SlowPages = FALSE
    MaxFaults = 1
    MaxVanished = 0
PROPERTY
    EveryObjectSettles
