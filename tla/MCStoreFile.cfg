SPECIFICATION Spec
CONSTANTS
  Payloads = {x, y}
  NoPayload = none
  MaxRecords = 4
  MaxTampers = 2
SYMMETRY Symmetry
INVARIANTS RecoveredIsPrefix FlushedSurvives TrailerMeansComplete CrashIsNotCorruption
