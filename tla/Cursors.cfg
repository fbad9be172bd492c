SPECIFICATION Spec
CONSTANTS
    Hash = {a, b, c}
    Policies <- AllPolicies
    LastBlock = 4
    MaxDeploys = 3
    MaxCrashes = 2
SYMMETRY Symmetry
INVARIANTS
    TypeOK
    ResumesAtTables
    UpdateFindsRow
