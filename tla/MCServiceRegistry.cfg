SPECIFICATION Spec
CONSTANTS
  users = users
  orders = orders
  on = on
  off = off
  v1 = v1
  v2 = v2
  w1 = w1
  w2 = w2
  none = none
  None = none
  Services = {users, orders}
  Regs = {on, off}
  Disabled = {off}
  Schemas = {v1, v2}
  Configured <- MCConfigured
  Workers = {w1, w2}
  Main = w1
  MaxRequests = 2
  MaxCrashes = 1
INVARIANTS
  TypeOK
  Backed
  CacheMatches
  BootRestoresEnabled
  PlannerFollows
PROPERTIES
  ComesUp
\* A server to which no request comes any more rests.
CHECK_DEADLOCK FALSE
