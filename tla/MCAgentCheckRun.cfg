CONSTANTS
  Initializations <- MCInitializations
  Uids = {u1, u2, u3}
  Limit = 3
  MaxCalls = 8
SPECIFICATION Spec
INVARIANTS InitializedInOrder LimitExact
