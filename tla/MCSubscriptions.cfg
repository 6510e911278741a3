SPECIFICATION FairSpec
CONSTANTS
    Ids = {i1, i2}
    MaxOps = 2
    PoliteClient = FALSE
    None = None
INVARIANTS
    EntriesAreLive
PROPERTIES
    DisconnectEnds
CHECK_DEADLOCK FALSE
