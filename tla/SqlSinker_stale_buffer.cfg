SPECIFICATION Spec
CONSTANTS
    Key = {k1}
    Col = {x, y, z}
    Unknown = {z}
    Val = {1, 2}
    k1 = k1
    k2 = k2
    x = x
    y = y
    z = z
    Absent = Absent
    None = None
    Rejected = Rejected
    Changes <- UpsertChanges
    MaxChanges = 1
    StopBlock = 4
    HandleReorgs = TRUE
    BatchBlockFlushInterval = 1
    BatchRowFlushInterval = 100
    LiveBlockFlushInterval = 1
    FlushRetryCount = 1
    FlushRetryDelay = 1
    WordSize = 1024
    MaxFaults = 0
    MaxUndos = 2
INVARIANT BufferMatchesHead
