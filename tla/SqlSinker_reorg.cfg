SPECIFICATION FairSpec
CONSTANTS
    Key = {k1}
    Col = {x, y, z}
    Unknown = {z}
    Val = {1, 2}
    k1 = k1
    k2 = k2
    x = x
    y = y
    z = z
    Absent = Absent
    None = None
    Rejected = Rejected
    Changes <- OneRowChanges
    MaxChanges = 2
    StopBlock = 4
    HandleReorgs = TRUE
    BatchBlockFlushInterval = 2
    BatchRowFlushInterval = 0
    LiveBlockFlushInterval = 1
    FlushRetryCount = 1
    FlushRetryDelay = 1
    WordSize = 1024
    MaxFaults = 2
    MaxUndos = 2
INVARIANTS
    TypeOK
    RowsMatchCursor
    BufferMatchesHead
    HistorySupportsUndo
PROPERTIES
    Completes
    ImplementsReplica
