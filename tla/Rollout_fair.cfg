SPECIFICATION FairSpec
CONSTANTS
  n1 = n1
  n2 = n2
  old = old
  new = new
  Nodes = {n1}
  Values = {old, new}
  InitialValue = old
  Specs <- Overlapping
  Probed = {n1}
  Handlers = {h1}
  MaxRollouts = 2
  MaxJobs = 3
  MaxActions = 3
  ListLimit = 1
  Faults = {"crash", "lease"}
PROPERTY RolloutsSettle
CHECK_DEADLOCK FALSE
