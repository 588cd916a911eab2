\* One cancel call, two attempts of the job, two chunks per attempt and any
\* two faults: enough for a fault in the cleanup of another.
SPECIFICATION Spec
CONSTANTS
  Callers = {c1}
  Kinds = {"chat", "orphan"}
  Chunks = {"loading", "agent_state", "ask_human", "interrupted", "error", "finished"}
  MaxChunks = 2
  MaxTries = 2
  Faults = {"redis", "drop", "listener", "abort", "crash"}
  MaxFaults = 2
INVARIANTS
  TypeOK
  StreamTellsRun
  DecidedAfterContent
  SignalFollowsCommit
PROPERTIES
  RowMovesForward
  ImplementsStream
CHECK_DEADLOCK FALSE
