CONSTANTS
  user = user
  provider = provider
  Keys <- TwoKeys
  Rates <- SomeRates
  Periods <- SomePeriods
  MaxClock = 5
  tenant = tenant
  ann = ann
  bob = bob
  hash = hash
  g1 = g1
  g2 = g2
  Tenants = {tenant}
  UserScopes = {ann, bob}
  QueryHashes = {hash}
  TTLs <- MCTTLs
  StaleTTLs <- MCStaleTTLs
  CacheClients = {g1, g2}
  MaxCacheClock = 3
  search = search
  fetch = fetch
  nameless = nameless
  other = other
  Tools = {search, other, fetch, nameless}
  ToolNames = {"search", "fetch"}
  NameOf <- MCNameOf
  Schemas = {"object", "empty"}
  ValidSchemas = {"object"}
  Registrants = {1, 2}
  Readers = {1}
  Unnamed = Unnamed
  Nobody = Nobody
  LifecycleCallers = {1, 2, 3}
  NoOne = NoOne
  req = req
  Blank = Blank
  Nothing = Nothing
  ChainInputs <- MCChainInputs
  ChainUsers = {1, 2}
  MaxTracers = 3
SPECIFICATION ServicesSpec
INVARIANT TypeOK RateHolds ChainsKept StatusIsTrue
PROPERTY DeniedOnlyWhenDue AnswersAsAsked ContractsHold ExporterContained CallersReturn
