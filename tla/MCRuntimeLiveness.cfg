SPECIFICATION FairSpec
CONSTANTS
  Workers = {w1, w2}
  Clients = {c1, c2}
  Capacity = 1
  Backpressure = "reject"
  MaxSubmitted = 2
  MaxRefused = 1
  MaxStarts = 1
PROPERTIES DrainReturns ShutdownReturns AcceptedWorkFinishes
CHECK_DEADLOCK FALSE
