SPECIFICATION Spec
CONSTANTS
  Series = {s}
  CloseWindows = 1
  MaxEpisodes = 2
  MaxForgotten = 0
  Batches <- MCBatches
  Contents <- MCContents
  NoContent = none
  NoStore = nostore
  Capacity = 2
  ConfigAdmits = TRUE
  MaxOrdinal = 2
  MaxArchived = 1
  MaxLives = 2
INVARIANT WithheldIsStale
CHECK_DEADLOCK FALSE
