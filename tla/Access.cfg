SPECIFICATION Spec
CONSTANTS
  Deployments <- MCDeployments
  TokenIDs = {t1, t2}
  Templates = {p1}
  Tickets = {k1}
  Versions = {v1, v2}
  Omitted = Omitted
  Clients = {c1, c2}
  Requests = {r1, r2}
  Callers = {g1, g2}
  Limit = 2
  Window = 2
  MaxKeys = 1
  LockWait = 1
  TicketTTL = 1
  AuditRetention = 1
  MaxNow = 3
INVARIANTS NoEscalation ChangesAreAttributed BoundedGuessing TicketBuysOneStream
PROPERTIES FrozenAfterRevocation OmittedVersionsSurvive
SYMMETRY Symmetry
CHECK_DEADLOCK FALSE
