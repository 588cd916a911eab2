\* The page is left and opened again while an answer is on its way.
SPECIFICATION Spec
CONSTANTS
  MaxLog = 4
  Endings = {"completed", "interrupted"}
  MaxRetained = 3
  Faults = {"connection", "detail", "expiry"}
  MaxFaults = 1
  MaxOps = 2
  Cancels = {}
INVARIANTS
  ShownEndIsTrue
  QuestionIsShown
PROPERTIES
  ShownEndStays
CHECK_DEADLOCK FALSE
