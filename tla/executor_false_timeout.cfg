CONSTANTS
  search = search
  fetch = fetch
  unknown = unknown
  NoCall = NoCall
  ToolCalls <- TwoTools
  Registered <- TwoTools
  ConfigMaxSteps = 2
  DefaultMaxSteps = 3
  TokenBudget = 0
  MaxUsage = 0
  MaxBatch = 2
SPECIFICATION RunSpec
CHECK_DEADLOCK FALSE
INVARIANT TimeoutIsATimeout
