SPECIFICATION FairSpec
CONSTANTS
  Nodes = {n1}
  Hooks = {w1}
  Streams = {s1}
  Workers = {k1}
  None = None
  RolloutStates = {"paused"}
  ClientBuffer = 1
  QueueSize = 1
  MaxAttempts = 2
  StaleAfter = 0
  OfflineAfter = 1
  MaxNow = 3
  MaxEvents = 2
PROPERTY OfflineIsAlerted
CHECK_DEADLOCK FALSE
