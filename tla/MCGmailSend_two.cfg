SPECIFICATION FairSpec
CONSTANTS
  i1 = i1
  i2 = i2
  Intents <- TwoIntents
  MaxAttempts = 1
  Failing <- DispatchOnly
  CallsOutlive = FALSE
INVARIANTS
  VerdictsAreTrue
PROPERTIES
  LaneKept
  SlotEventuallyFreed
CHECK_DEADLOCK FALSE
