SPECIFICATION Spec
CONSTANTS
    Ids = {i1}
    MaxOps = 2
    PoliteClient = TRUE
    None = None
INVARIANTS
    MapReachesOperations
CHECK_DEADLOCK FALSE
