CONSTANTS
  Threads = {t1, t2, t3}
  Free = Free
SPECIFICATION FairSpec
INVARIANTS TypeOK WaiterHasReader
PROPERTIES ImplementsLock WaitingEnds
