SPECIFICATION SessionFairSpec
CONSTANTS
  Gateways = {g1}
  Instances = {i1}
  Explicit = {e1}
  Unset = Unset
  Malformed = Malformed
  Deployments <- Any
  MaxConnections = 2
  MaxRequests = 2
INVARIANTS
  OwnHandlerIsRight
PROPERTIES
  Terminates
CHECK_DEADLOCK FALSE
