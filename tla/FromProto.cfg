SPECIFICATION FairSpec
CONSTANTS
    Configs <- SomeConfigs
    Entity = {e1, e2}
    e1 = e1
    e2 = e2
    keyed = keyed
    keyless = keyless
    shifted = shifted
    BlockRow = BlockRow
    UserTable = {keyed, keyless, shifted}
    Ordinal <- OrdinalOf
    Keyless = {keyless}
    Shifted = {shifted}
    NoCursor = NoCursor
    StopBlock = 3
    MaxReorgs = 2
INVARIANTS
    NothingMissing
    OnlyValidBlocks
    StreamInTables
    CleanAtStart
PROPERTY
    EventuallyStored
