SPECIFICATION Spec
CONSTANTS
    NKeys = 2
    Worker = {w1, w2}
    NoWorker = NoWorker
    NoManifest = NoManifest
    Layout = {l1}
    ReinspectionInterval = 1
    PageSize = 2
    Rum = FALSE
    InOrder = TRUE
    StableId = FALSE
    SlowPages = FALSE
    MaxFaults = 1
    MaxVanished = 0
INVARIANT
    RecoverableBehindCursor
