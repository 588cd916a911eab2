\* A chat run that asks a question, two answers to it and a cancellation; two
\* faults.  Three request ids, so that the two answers may differ.
SPECIFICATION Spec
CONSTANTS
  Asks = {a1}
  Answers = {b1, b2}
  Stops = {s1}
  Requests = {q1, q2, q3}
  MaxChildren = 0
  Faults = {"queue", "crash", "signal"}
  MaxFaults = 2
INVARIANTS
  TypeOK
  OneAnswer
  RequestGetsItsRun
  ParentStaysInterrupted
PROPERTIES
  CallsEnd
  CommittedIsServed
\* Calls are limited in number, and the worker need not do anything.
CHECK_DEADLOCK FALSE
