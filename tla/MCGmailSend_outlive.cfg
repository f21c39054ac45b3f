SPECIFICATION Spec
CONSTANTS
  i1 = i1
  i2 = i2
  Intents <- OneIntent
  MaxAttempts = 2
  Failing <- AllActivities
  CallsOutlive = TRUE
INVARIANTS
  AtMostOneDelivery
CHECK_DEADLOCK FALSE
