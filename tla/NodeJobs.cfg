SPECIFICATION NSpec
CONSTANTS
  JobIDs = {j1, j2}
  Nodes = {n1}
  Keys = {k1}
  NoKey = NoKey
  Results = {r}
  NoResult = NoResult
  DefaultLease = 1
  ConfigApplyLease = 1
  Retention = 0
  MaxNow = 2
  Requests = {h1, h2}
  LabelKeys = {l1}
SYMMETRY Symmetry
INVARIANTS OneActivePerLock RowsConsistent NoOrphanJobs CountedOnce
PROPERTY RefinesLifecycle
CHECK_DEADLOCK FALSE
