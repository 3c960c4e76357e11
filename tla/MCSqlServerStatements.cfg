CONSTANTS
  r1 = r1
  r2 = r2
  Rows = {r1, r2}
  Key <- MCKey
  Queries <- MCQueries
  Metrics = {calls}
  MaxCount = 2
  CollectionInterval = 1
  LongAgo = 4
SPECIFICATION SqlSpec
PROPERTIES NeverOvercounts LoadedIfExecuted ExactInWindow
