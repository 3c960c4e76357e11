CONSTANTS
  Free = Free
SPECIFICATION FairSpec
INVARIANTS TypeOK NothingLeaks
PROPERTY CancelQuiets
CHECK_DEADLOCK FALSE
