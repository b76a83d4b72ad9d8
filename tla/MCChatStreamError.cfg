SPECIFICATION Spec
CHECK_DEADLOCK FALSE
CONSTANTS
  q1 = q1
  Requests = {q1}
  MaxDeltas = 1
  MaxFaults = 0
INVARIANTS
  NoSequenceError
