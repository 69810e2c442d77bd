SPECIFICATION Spec
CONSTANTS
  Series = {s}
  CloseWindows = 1
  MaxEpisodes = 2
  MaxForgotten = 0
  Batches <- MCBatches
  Contents <- MCContents
  NoContent = none
  NoStore = nostore
  Capacity = 2
  ConfigAdmits = FALSE
  MaxOrdinal = 2
  MaxArchived = 1
  MaxLives = 2
INVARIANTS PersistedNotCurrent ReplayFenced
PROPERTIES RestoreReturnsTheSaved
CHECK_DEADLOCK FALSE
