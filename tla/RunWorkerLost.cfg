\* One failing Redis command is enough.
SPECIFICATION Spec
CONSTANTS
  Callers = {}
  Kinds = {"chat"}
  Chunks = {"loading", "finished"}
  MaxChunks = 1
  MaxTries = 2
  Faults = {"redis"}
  MaxFaults = 1
INVARIANTS
  JobDecidesRun
CHECK_DEADLOCK FALSE
