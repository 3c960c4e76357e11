CONSTANTS
  DBs = {d1, d2, d3}
  Clients = {a, b}
  Conns = {k1, k2, k3, k4}
  MaxConns = 2
  MaxCloseFailures = 1
  NoConn = NoConn
  NoRequest = NoRequest
  Free = Free
SPECIFICATION Spec
SYMMETRY Symmetry
INVARIANTS TypeOK NoOrphan ConnectionLimit ActiveHasUser
