SPECIFICATION Spec
CONSTANTS
  n1 = n1
  n2 = n2
  old = old
  new = new
  Nodes = {n1, n2}
  Values = {old, new}
  InitialValue = old
  Specs <- Staged
  Probed = {n1, n2}
  Handlers = {h1}
  MaxRollouts = 1
  MaxJobs = 3
  MaxActions = 3
  ListLimit = 1
  Faults = {"crash", "unwritten", "silence"}
INVARIANTS CanaryFirst ProgressIsReal
PROPERTIES AbortYieldsOnlyToOlderReads RefinesRolloutLifecycle
CHECK_DEADLOCK FALSE
