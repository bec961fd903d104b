CONSTANTS
  c1 = c1
  c2 = c2
  c3 = c3
  c4 = c4
  Callers <- FourCallers
  ConfigFailureThreshold = 3
  ConfigRecoveryTimeout = 0
  ConfigHalfOpenMaxProbe = 0
  DefaultRecoveryTimeout = 4
  MaxCallTime = 3
  FnMayPanic = TRUE
SPECIFICATION Spec
SYMMETRY CallerSymmetry
INVARIANT TypeOK TimelyInv ProbeLimit
PROPERTY WindowHonoured TripNeedsStreak ImplementsDocumented
