SPECIFICATION FairSpec
CONSTANTS
  Nodes = {n1, n2}
  Hosts = {h1, h2}
  Tokens = {t1, t2}
  None = None
  TokenTTL = 1
  KeepHeartbeats = 1
  Starts <- MCStarts
  Base = 2
  Digits = 1
  MaxNow = 3
INVARIANTS TokenEnrollsOnce AccessUntilRemoval NewestHeartbeatKept
PROPERTY RunningIsHeard
CHECK_DEADLOCK FALSE
