CONSTANTS
  none = none
  None = none
  Services <- MCServices
  Definitions <- MCDefinitions
  Malformed = {"broken"}
  Deployments <- MCDeployments
  TypeNames <- MCTypeNames
  FieldNames <- MCFieldNames
  Scalars = {"ID", "String"}
  Internal = {"_Service"}
  MaxChanges = 3
SPECIFICATION MergeSpec
INVARIANT
  PrimaryOwns
CHECK_DEADLOCK FALSE
