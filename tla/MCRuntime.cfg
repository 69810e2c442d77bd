SPECIFICATION Spec
CONSTANTS
  Workers = {w1, w2}
  Clients = {c1, c2}
  Capacity = 2
  Backpressure = "drop_oldest"
  MaxSubmitted = 3
  MaxRefused = 1
  MaxStarts = 2
SYMMETRY Symmetry
INVARIANTS JobsConserved NoLostWakeup DrainersWoken NothingLeftBehind
PROPERTIES PoolSpec
CHECK_DEADLOCK FALSE
