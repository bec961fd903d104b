CONSTANTS
  c1 = c1
  c2 = c2
  c3 = c3
  c4 = c4
  Callers <- ThreeCallers
  ConfigFailureThreshold = 2
  ConfigRecoveryTimeout = 2
  ConfigHalfOpenMaxProbe = 2
  DefaultRecoveryTimeout = 2
  MaxCallTime = 3
  FnMayPanic = FALSE
SPECIFICATION FairSpec
INVARIANT NoSlotLeak
PROPERTY HalfOpenResolves Recovers
