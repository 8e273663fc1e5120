SPECIFICATION Spec
CONSTANTS
  Configs = {c1, c2}
  Secrets = {s1, s2}
  NoEnv = NoEnv
  PlanIDs = {1, 2}
  Keep = 1
  AllowLive = TRUE
SYMMETRY Symmetry
INVARIANTS TypeOK FailedApplyLeavesNoTrace CompletedIsLive CompletedRollbackRestores
PROPERTIES DryRunIsInert
