SPECIFICATION Spec
CONSTANTS
  i1 = i1
  i2 = i2
  Intents <- OneIntent
  MaxAttempts = 3
  Failing <- AllActivities
  CallsOutlive = FALSE
INVARIANTS
  IInv
  RowsAgree
  AtMostOneDelivery
  FailedMeansNotSent
  AcceptancesAreTrue
PROPERTIES
  FactsAreFinal
  PromiseKept
CHECK_DEADLOCK FALSE
