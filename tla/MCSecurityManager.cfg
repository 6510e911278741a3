SPECIFICATION Spec
CONSTANTS
    Clients = {c1, c2}
    Admins = {a1, a2}
    MaxChanges = 2
    Rpm <- RpmDef
    Limit <- LimitDef
    None = None
INVARIANTS
    TypeOK
    InvalidationIsSeen
    LimiterMatches
    SlotsAccounted
SYMMETRY ClientSymmetry
