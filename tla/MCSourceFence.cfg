SPECIFICATION Spec
CONSTANTS
  Contents = {x, y}
  NoContent = none
  Sources = {s1}
  Positions <- MCPositions
  MaxConflicts = 2
  MaxRecorded = 3
  MaxArchived = 1
SYMMETRY Symmetry
INVARIANTS AcceptedInOrder GuardIsLastAccepted RedeliveryFenced ConflictLogTrue
