CONSTANTS
  DBs = {d1, d2}
  Clients = {a, b, c}
  Conns = {k1, k2, k3, k4}
  MaxConns = 1
  MaxCloseFailures = 1
  NoConn = NoConn
  NoRequest = NoRequest
  Free = Free
SPECIFICATION Spec
SYMMETRY Symmetry
INVARIANT EvictionSparesUsers
