SPECIFICATION ServiceSpec
CONSTANTS
  p1 = p1
  p2 = p2
  peer = peer
  s1 = s1
  s2 = s2
  x = x
  y = y
  Contents = {x, y}
  NoContent = none
  Sources = {s1}
  Positions <- MCPositions
  MaxConflicts = 2
  MaxRecorded = 2
  MaxArchived = 0
  Probes = {p1, p2}
  Plan <- MCPlan
  Peers = {peer}
  Frames <- MCFrames
  Nobody = nobody
  MaxConnections = 2
  MaxBatches = 2
  MaxSaid = 2
  MaxFaults = 1
  MaxLives = 2
INVARIANTS AnswersAreTrue SomeoneSpeaks
PROPERTIES SavedIsFinal ProbesEnd
CHECK_DEADLOCK FALSE
