\* A run with two subagents and two cancellations of any of the three, which
\* may lock the rows in opposite orders.
SPECIFICATION Spec
CONSTANTS
  Asks = {a1}
  Answers = {}
  Stops = {s1, s2}
  Requests = {q1}
  MaxChildren = 2
  Faults = {"queue", "startup"}
  MaxFaults = 1
SYMMETRY StopSymmetry
INVARIANTS
  StopCovers
CHECK_DEADLOCK FALSE
