\* One visit to the page.  Four entries leave one to be trimmed; two faults let
\* a recovery fail itself; the user may ask for cancellation again and again.
SPECIFICATION Spec
CONSTANTS
  MaxLog = 4
  Endings = {"completed", "interrupted"}
  MaxRetained = 3
  Faults = {"connection", "detail", "expiry", "signal"}
  MaxFaults = 2
  MaxOps = 1
  Cancels = {c1}
INVARIANTS
  TextIsStream
PROPERTIES
  WatchingEnds
  CancellingEnds
CHECK_DEADLOCK FALSE
