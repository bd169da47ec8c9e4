SPECIFICATION DeploymentSpec
CONSTANTS
  Versions = {v1, v2, v3, v4}
  None = None
  Services = {web, api, simulator}
  GraphProfile = {web, api}
  MaxFailures = 3
SYMMETRY VersionSymmetry
INVARIANTS RollbackTargetsIntact
PROPERTIES LegacyKeptUntilReady EndsAtCurrent
CHECK_DEADLOCK FALSE
