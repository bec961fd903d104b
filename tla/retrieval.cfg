SPECIFICATION PartsSpec
CHECK_DEADLOCK FALSE
CONSTANTS
  TenantA = TenantA
  TenantB = TenantB
  AnyTag = AnyTag
  Invalid = Invalid
  Nothing = Nothing
  Retrievers = {r1}
  Ids <- MCIds
  Records <- MCRecords
  Queries <- MCQueries
  Batches <- MCBatches
  Removals <- MCRemovals
  Threshold = 1
  Lengths = {0, 1, 5, 6}
  Sizes <- MCSizes
  Overlaps <- MCOverlaps
  doc = doc
  padded = padded
  other = other
  BlankId = BlankId
  RawIds = {doc, padded, other, BlankId}
  Trimmed <- MCTrimmed
  Cutoffs = {0, 1, 2, 3, 4, 5}
  MaxRanked = 4
  Discount <- MCDiscount
  text = text
  right = right
  wrong = wrong
  Datasets <- MCDatasets
  MetricLists <- MCMetricLists
  MetricNames = {"exact_match", "exact_match ", "context_hit", Blank}
  Thresholds <- MCThresholds
  RawScores <- MCRawScores
  Unit = 2
  Blank = Blank
  Empty = Empty
  NaN = NaN
  Stripped <- MCStripped
  NoThreshold = NoThreshold
  NoIdentity = NoIdentity
  NoPrediction = NoPrediction
  NoExit = NoExit
  NoCommand = NoCommand
INVARIANT TypeOK ChunksWhole ReportSound SmokeSound
PROPERTY ImplementsAtomicStore MetricsFair
