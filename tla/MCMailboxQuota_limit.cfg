SPECIFICATION Spec
CONSTANTS
  i1 = i1  i2 = i2  i3 = i3  i4 = i4
  Intents <- FourIntents
  Limit = 2
  Window = 4
  Interval = 1
  Ttl = 2
  MaxAttempts = 2
  MaxDelay = 1
  Horizon = 5
INVARIANT RollingLimit
SYMMETRY IntentSymmetry
CHECK_DEADLOCK FALSE
