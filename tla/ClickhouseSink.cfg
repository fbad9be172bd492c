SPECIFICATION FairSpec
CONSTANTS
    Table = {t1, t2}
    Key = {k1}
    StopBlock = 3
    Refusals <- SomeRefusals
    FlushRetryCount = 1
    MaxFaults = 2
    MaxCopies = 4
INVARIANT
    CellsFollowCursor
PROPERTIES
    LaggingReplicaSpec
    EventuallyStored
