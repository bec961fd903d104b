CONSTANTS
  c1 = c1
  c2 = c2
  c3 = c3
  Callers <- TwoCallers
  ConfigFailureThreshold = 1
  ConfigRecoveryTimeout = 1
  ConfigHalfOpenMaxProbe = 1
  DefaultRecoveryTimeout = 2
  MaxCallTime = 1
  FnMayPanic = FALSE
SPECIFICATION WrapperSpec
PROPERTY ClosedByAnAnswer
