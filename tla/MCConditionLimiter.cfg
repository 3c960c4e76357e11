CONSTANTS
  Checks = {c1, c2, c3}
  NoCheck = NoCheck
  Limit = 2
SPECIFICATION FairSpec
INVARIANTS LimitHolds WorkersHoldSlots
PROPERTIES HolderAdmitted CallEnds
CHECK_DEADLOCK FALSE
