SPECIFICATION Spec
CONSTANTS
  Paths = {p}
  Series = {a}
  PathOf <- MCPathOf
  Elsewhere = q
  Bypass = u
  Routes <- MCRoutes
  Topologies = {t1, t2}
  Absent = absent
  Bare = bare
  Sources = {src}
  MaxSources = 1
  MaxSeries = 1
  Positions <- MCPositions
  Contents <- MCContents
  NoContent = none
  MaxPaths = 1
  MaxHistory = 2
  MaxOrdinal = 3
  CloseWindows = 2
  MaxEpisodes = 2
  MaxForgotten = 1
  MaxConflicts = 1
  MaxRecorded = 1
  MaxArchived = 1
  WindowCapacity = 2
  WindowCount = 2
  MaxWindows = 2
  FreshBudget = 0
  ExpiryBudget = 1
  MinFresh = 2
  MaxTime = 2
INVARIANTS OpenEpisodesCurrent
CHECK_DEADLOCK FALSE
