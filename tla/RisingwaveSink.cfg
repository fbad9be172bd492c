SPECIFICATION Spec
CONSTANTS
    k1 = k1
    k2 = k2
    v1 = v1
    Key = {k1, k2}
    Val = {v1}
    Absent = Absent
    MaxBlocks = 2
    MaxReorgs = 2
    MaxFaults = 3
    MaxBoth = 2
    FlushRetryCount = 1
SYMMETRY Symmetry

    
PROPERTY
    CursorMovesWithRows
