CONSTANTS
  none = none
  None = none
  Services <- MCServices
  Definitions <- MCDefinitions
  Malformed = {"broken"}
  Deployments <- MCDeployments
  TypeNames <- MCTypeNames
  FieldNames <- MCFieldNames
  Scalars = {"ID", "String"}
  Internal = {"_Service"}
  MaxChanges = 2
  Federated = {"users", "orders", "reviews", "posts", "broken"}
  Documents <- MCDocuments
  Aliases = {"a", "b", "uid"}
  Roles = {"public", "clerk"}
  Public = "public"
  Rules <- MCRules
  Links <- MCLinks
  Bounds <- MCBounds
SPECIFICATION Spec
INVARIANT
  AsksOnlyWhatIsDefined
CHECK_DEADLOCK FALSE
