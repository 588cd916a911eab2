SPECIFICATION Spec
CONSTANTS
  Callers = {c1}
  Kinds = {"chat"}
  Chunks = {"loading", "finished"}
  MaxChunks = 2
  MaxTries = 1
  Faults = {}
  MaxFaults = 0
PROPERTIES
  CancelPreventsCompletion
CHECK_DEADLOCK FALSE
