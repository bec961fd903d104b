CONSTANTS
  Indexes <- TwoIndexes
  Events <- EndEvents
  MaxEvents = 2
SPECIFICATION ReaderSpec
CHECK_DEADLOCK FALSE
INVARIANT NoLostToolCalls
