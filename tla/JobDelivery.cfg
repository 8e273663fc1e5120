SPECIFICATION DSpec
CONSTANTS
  JobIDs = {j1, j2}
  Nodes = {n1}
  Keys = {k1}
  NoKey = NoKey
  Results = {r}
  NoResult = NoResult
  DefaultLease = 1
  ConfigApplyLease = 2
  Retention = 0
  MaxNow = 3
  Types = {"restart", "config_apply"}
  BufferLimit = 1
SYMMETRY Symmetry
INVARIANTS ExecutedOnce StoredAsTold NothingForgotten
CHECK_DEADLOCK FALSE
