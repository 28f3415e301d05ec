SPECIFICATION Spec
CONSTANTS
    NKeys = 2
    Worker = {w1, w2}
    NoWorker = NoWorker
    NoManifest = NoManifest
    Layout = {l1}
    ReinspectionInterval = 1
    PageSize = 2
    Rum = FALSE
    InOrder = TRUE
    StableId = FALSE
    SlowPages = TRUE
    MaxFaults = 1
    MaxVanished = 1
SYMMETRY WorkerSymmetry
INVARIANTS
    TypeOK
    AcknowledgedIsDurable
    VisibleIsRebuildable
    CursorSkipsNothing
