SPECIFICATION Spec
CONSTANTS
  i1 = i1
  i2 = i2
  a1 = a1
  a2 = a2
  Intents <- TwoIntents
  Attempts <- TwoAttempts
  SessionsLast = TRUE
  MaxBatches = 3
  Lease = 1
  Grace = 1
  Limits = {1, 2}
  Costs = {1}
  Horizon = 2
SYMMETRY FetchSymmetry
INVARIANT OneCallPerIntent
CHECK_DEADLOCK FALSE
