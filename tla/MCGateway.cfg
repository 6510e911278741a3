CONSTANTS
  none = none
  None = none
  r1 = r1
  r2 = r2
  Requests = {r1, r2}
  Keys = {"old", "new"}
  OldKeys = {"old"}
  Secrets = {"secret"}
  ConfigSecret = none
  Tokens <- MCTokens
  Roles = {"public", "clerk"}
  DefaultRole = "public"
  Public = "public"
  Queries = {"plain", "wide", "change", "meta"}
  Documents <- MCDocuments
  Schemas <- MCSchemas
  Configs <- MCConfigs
  Endpoints <- MCEndpoints
  Calls <- MCCalls
  TTL = 1
  MaxEntries = 1
  MaxRun = 1
  MaxChanges = 2
SPECIFICATION Spec
INVARIANTS
  TypeOK
  Entitled
  LimitsHold
PROPERTIES
  RevocationBites
SYMMETRY Swap
