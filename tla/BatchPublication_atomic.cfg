SPECIFICATION FairSpec
CONSTANTS
    Rows = 3
    Contents = 2
    MaxFailures = 4
INVARIANTS
    ManifestIsBacked
PROPERTIES
    AtomicToReaders
    SameRowsArePublished
