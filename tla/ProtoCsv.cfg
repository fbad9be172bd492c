SPECIFICATION FairExportSpec
CONSTANTS
    Tables = {t1}
    Chain <- GapChain
    NoOutput = NoOutput
    Undecodable = Undecodable
    StartBlock = 1
    StopBlock = 11
    BundleSize = 3
    BufferSize = 2
    KeepsExisting = FALSE
    UseVersionField = TRUE
    QueueSize = 1
    MaxFaults = 2
INVARIANT
    ExportOK
PROPERTIES
    FilesNeverChange
    EventuallyReturns
