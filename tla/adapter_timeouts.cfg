CONSTANTS
  c1 = c1
  c2 = c2
  c3 = c3
  Callers <- TwoCallers
  ConfigFailureThreshold = 0
  ConfigRecoveryTimeout = 0
  ConfigHalfOpenMaxProbe = 0
  DefaultRecoveryTimeout = 2
  MaxCallTime = 1
  FnMayPanic = FALSE
SPECIFICATION AdapterSpec
PROPERTY TimeoutsAreUpstream
