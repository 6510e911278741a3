SPECIFICATION FairSpec
CONSTANTS
    r1 = r1
    r2 = r2
    e1 = e1
    j1 = j1
    Roots = {r1, r2}
    Entities = {e1}
    Joins = {j1}
    Parent <- ParentDef
    Retries <- RetriesDef
    MaxContainers = 2
INVARIANTS
    ReportsBalance
    GapsExplained
PROPERTIES
    ImplementsPlan
    Ends
CHECK_DEADLOCK FALSE
