\* One visit, nothing fails, nobody cancels.
SPECIFICATION Spec
CONSTANTS
  MaxLog = 3
  Endings = {"completed", "interrupted"}
  MaxRetained = 3
  Faults = {}
  MaxFaults = 0
  MaxOps = 1
  Cancels = {}
INVARIANTS
  ActiveIsWatched
CHECK_DEADLOCK FALSE
