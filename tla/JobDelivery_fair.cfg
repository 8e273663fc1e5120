SPECIFICATION DFairSpec
CONSTANTS
  JobIDs = {j1, j2}
  Nodes = {n1}
  Keys = {k1}
  NoKey = NoKey
  Results = {r}
  NoResult = NoResult
  DefaultLease = 1
  ConfigApplyLease = 2
  Retention = 0
  MaxNow = 2
  Types = {"restart"}
  BufferLimit = 1
PROPERTIES ResultsArrive ClaimsEnd
CHECK_DEADLOCK FALSE
