SPECIFICATION LostFairSpec
CONSTANTS
    Key = {k1, k2}
    Col = {x, y, z}
    Unknown = {z}
    Val = {1, 2}
    k1 = k1
    k2 = k2
    x = x
    y = y
    z = z
    Absent = Absent
    None = None
    Rejected = Rejected
    Changes <- TwoRowChanges
    MaxChanges = 2
    StopBlock = 3
    HandleReorgs = FALSE
    BatchBlockFlushInterval = 3
    BatchRowFlushInterval = 1
    LiveBlockFlushInterval = 2
    FlushRetryCount = 1
    FlushRetryDelay = 1
    WordSize = 1024
    MaxFaults = 2
    MaxUndos = 2
INVARIANT
    BufferExecutable
PROPERTIES
    ImplementsReplica
    Completes
