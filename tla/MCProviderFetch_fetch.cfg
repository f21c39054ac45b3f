SPECIFICATION Spec
CONSTANTS
  i1 = i1
  i2 = i2
  a1 = a1
  a2 = a2
  Intents <- TwoIntents
  Attempts <- TwoAttempts
  SessionsLast = FALSE
  MaxBatches = 2
  Lease = 1
  Grace = 1
  Limits = {1, 3}
  Costs = {0, 1, 2}
  Horizon = 1
SYMMETRY FetchSymmetry
INVARIANTS IInv OneCall ReleasedMeansUncharged BudgetExact
PROPERTIES HolderUndisturbed FinalFetches
CHECK_DEADLOCK FALSE
