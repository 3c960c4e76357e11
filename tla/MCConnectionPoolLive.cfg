CONSTANTS
  DBs = {d1, d2}
  Clients = {a, b}
  Conns = {k1, k2, k3}
  MaxConns = 1
  MaxCloseFailures = 0
  NoConn = NoConn
  NoRequest = NoRequest
  Free = Free
SPECIFICATION FairSpec
PROPERTIES LoopEnds
