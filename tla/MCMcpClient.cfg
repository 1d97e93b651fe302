SPECIFICATION MCSpec
CONSTANTS
  s1 = s1
  s2 = s2
  c1 = c1
  c2 = c2
  Server = {s1, s2}
  Prefix <- Nested
  Conn = {c1, c2}
  NoConn = NoConn
  Name = {n1}
  Caller = {k1, k2}
  MaxCalls = 2
  MaxChanges = 3
INVARIANTS
  OwnAnswer
  StatusMatchesTools
PROPERTY AbandonedConnectReturns
CHECK_DEADLOCK FALSE
