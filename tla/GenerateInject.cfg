SPECIFICATION InjectFairSpec
CONSTANTS
    t1 = t1
    t2 = t2
    Tables = {t1, t2}
    Chain <- GapChain
    Emissions <- AnyRows
    BadBlocks = {7}
    StartBlock = 1
    StopBlock = 11
    BundleSize = 2
    BufferSize = 1
    KeepsExisting = TRUE
    MaxCrashes = 1
    MaxUploadFailures = 1
    QueueSize = 1
    InjectStart = 2
    InjectStop = 8
    Keyed = {t1}
    MaxFailures = 1
INVARIANTS
    NoRowLostOrTwice
    FilesShifted
    CompletedUpToLastRoll
    FilesReadable
    InjectOK
PROPERTY
    EventuallyEnds
