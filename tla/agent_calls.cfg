CONSTANTS
  search = search
  fetch = fetch
  unknown = unknown
  NoCall = NoCall
  ToolCalls <- ThreeTools
  Registered <- TwoTools
  ConfigMaxSteps = 0
  DefaultMaxSteps = 3
  TokenBudget = 3
  MaxUsage = 2
  MaxBatch = 2
  c1 = c1
  c2 = c2
  c3 = c3
  Callers <- TwoCallers
  ConfigFailureThreshold = 0
  ConfigRecoveryTimeout = 0
  ConfigHalfOpenMaxProbe = 0
  DefaultRecoveryTimeout = 2
  MaxCallTime = 1
  FnMayPanic = TRUE
  Indexes <- TwoIndexes
  Events <- ToolEvents
  MaxEvents = 3
SPECIFICATION AgentSpec
INVARIANT RunTypeOK StepsBounded NoRepeatedCall BudgetGuardsTools ObservationsTell
INVARIANT FragmentsKept ChunksInOrder CutsReported
PROPERTY FaultsDecide SuccessTraceHasAnswer FailureTraceShowsTrip OutageOpens
PROPERTY LoopTerminates CancelReleases StreamDrains
