CONSTANTS
  c1 = c1
  c2 = c2
  c3 = c3
  c4 = c4
  Callers <- ThreeCallers
  ConfigFailureThreshold = 2
  ConfigRecoveryTimeout = 2
  ConfigHalfOpenMaxProbe = 1
  DefaultRecoveryTimeout = 2
  MaxCallTime = 4
  FnMayPanic = FALSE
SPECIFICATION Spec
PROPERTY WindowHonoured
