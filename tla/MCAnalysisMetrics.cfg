SPECIFICATION Spec
CONSTANTS
  MaxInt = 15
  fine = fine
  coarse = coarse
  counter = counter
  h1 = h1
  h2 = h2
  Local = local
  NilDomain = nil
  Forever = forever
  NoTick = none
  Domains = {local, fine, coarse, counter}
  UnitOf <- MCUnitOf
  NanosPer <- MCNanosPer
  MaxDomains = 3
  Offers <- MCOffers
  MinAuthority = 1
  MaxOffset = 1
  Convertible = TRUE
  MinBudget = 1
  MaxBudget = 3
  MaxSpan = 15
  Hops = {h1, h2}
  Clocks = {fine, coarse, counter}
  Freshnesses <- MCFreshnesses
  Windows <- MCWindows
  Policy <- MCPolicy
  Keys = {"AbsoluteDeltaMax", "SampleStdDev"}
  HopKey = "AbsoluteDeltaMean"
  MinArrivals = 1
  Batches <- MCBatches
  MinLatency <- MCMinLatency
  MaxLatency = 9
  MaxHopsPerPath = 2
  MaxSamplesPerBatch = 2
  SourceOrigin = "synthetic"
  SourceClaims = "registered"
  AcceptSynthetic = TRUE
  MaxSamples = 3
  MaxOrdinal = 2
  MaxBaselines = 1
  Instants = {2, 4}
  CaptureAt = {2, 4}
INVARIANT MetricsAsDeclared
CHECK_DEADLOCK FALSE
