SPECIFICATION Spec
CONSTANTS
  n1 = n1
  n2 = n2
  old = old
  new = new
  Nodes = {n1, n2}
  Values = {old, new}
  InitialValue = old
  Specs <- OneBatch
  Probed = {n1, n2}
  Handlers = {h1}
  MaxRollouts = 1
  MaxJobs = 5
  MaxActions = 2
  ListLimit = 1
  Faults = {"crash", "unwritten", "outage"}
PROPERTY RollbackOnceOnRecord
CHECK_DEADLOCK FALSE
