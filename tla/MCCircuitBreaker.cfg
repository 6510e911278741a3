SPECIFICATION Spec
CONSTANTS
  users = users
  Services <- MCServices
  FailThreshold = 2
  MaxFailures = 3
  MaxChecks = 3
  MaxCalls = 2
INVARIANTS
  TypeOK
  ClosedBelowThreshold
  HalfOpenIsProbed
  OwedReloadIsComing
PROPERTIES
  OpensOnEvidence
  ReloadsWhenProbesAreShort
  Recovers
