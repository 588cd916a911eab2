\* No caller, no fault: only the agent stream.
SPECIFICATION Spec
CONSTANTS
  Callers = {}
  Kinds = {"chat"}
  Chunks = {"loading", "finished"}
  MaxChunks = 1
  MaxTries = 1
  Faults = {}
  MaxFaults = 0
INVARIANTS
  CancelledIsAsked
CHECK_DEADLOCK FALSE
