SPECIFICATION CsvSpec
CONSTANTS
    Drivers = {"postgres", "risingwave", "clickhouse"}
    Levels = 3
    MaxFields = 2
    MaxOfKind = 1
    ListLength = 2
    FieldKind = {"block_number", "key", "array", "messages"}
    ChildOfKind = {"block_number", "key"}
    MaxStray = 1
INVARIANTS
    ValuesAligned
    InsertsFitTables
    RowsComplete
    TombstonesAligned
    CsvAgrees
