CONSTANTS
  search = search
  fetch = fetch
  unknown = unknown
  NoCall = NoCall
  ToolCalls <- TwoTools
  Registered <- TwoTools
  ConfigMaxSteps = 3
  DefaultMaxSteps = 3
  TokenBudget = 1
  MaxUsage = 1
  MaxBatch = 2
SPECIFICATION RunSpec
CHECK_DEADLOCK FALSE
INVARIANT ToolCallsRecorded
