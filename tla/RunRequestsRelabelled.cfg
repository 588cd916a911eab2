\* The two answers again, and a worker that starts in between.
SPECIFICATION Spec
CONSTANTS
  Asks = {a1}
  Answers = {b1, b2}
  Stops = {}
  Requests = {q1, q2, q3}
  MaxChildren = 0
  Faults = {"startup"}
  MaxFaults = 1
INVARIANTS
  OneAnswer
CHECK_DEADLOCK FALSE
