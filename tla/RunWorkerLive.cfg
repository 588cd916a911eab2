\* One cancel call; the subscription drops or the worker dies, twice in all, and
\* ARQ has one attempt left.
SPECIFICATION Spec
CONSTANTS
  Callers = {c1}
  Kinds = {"chat", "orphan"}
  Chunks = {"loading", "agent_state", "ask_human", "interrupted", "error", "finished"}
  MaxChunks = 1
  MaxTries = 3
  Faults = {"drop", "crash"}
  MaxFaults = 2
INVARIANTS
  JobDecidesRun
PROPERTIES
  CancelTakesEffect
CHECK_DEADLOCK FALSE
