SPECIFICATION Spec
CONSTANTS
  Operators = {o1, o2}
  Values = {"a", "b"}
  Spellings = {"acme", "Acme"}
  Lower <- MCLower
  Envs = {"ACME_API_KEY"}
  EnvOf <- MCEnvOf
  Targets <- MCTargets
  Scopes <- MCScopes
  PutDefs <- MCPutDefs
  Inputs <- MCInputs
  Reports <- MCReports
  DefaultProfile = "default"
  Blank = Blank
  Bad = Bad
  None = None
  PageLimit = 1
  MaxHistory = 2
  MaxClock = 2
  MaxKeys = 1
  MaxPlans = 1
  MaxProbes = 2
INVARIANTS VersionsAreSound LayersFollowPrecedence KeysAreServed PlanFromOneVersion
  FoundUnlessOvertaken DriftIsReal
SYMMETRY Symmetry
CHECK_DEADLOCK FALSE
