SPECIFICATION Spec
CONSTANTS
  k1 = k1
  k2 = k2
  k3 = k3
  d1 = d1
  d2 = d2
  r1 = r1
  r2 = r2
  none = none
  None = none
  Keys = {k1, k2, k3}
  Data = {d1, d2}
  Readers = {r1, r2}
  MaxEntries = 2
  DefaultTTL = 1
  MaxClock = 4
SYMMETRY Interchangeable
INVARIANTS
  TypeOK
  Coherent
PROPERTIES
  EvictsLeastRecentlyUsed
  ImplementsStore
