CONSTANTS
  c1 = c1
  c2 = c2
  Counters = {c1, c2}
  Info = info
  Pst = pst
  Configs <- AllConfigs
  Past = {1}
  MaxValue = 2
  MaxRestarts = 1
SPECIFICATION Spec
INVARIANTS TypeOK NoInflation CountsFromBirth
PROPERTY AllLabelled
