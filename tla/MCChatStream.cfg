SPECIFICATION FairSpec
CHECK_DEADLOCK FALSE
CONSTANTS
  q1 = q1
  Requests = {q1}
  MaxDeltas = 3
  MaxFaults = 2
INVARIANTS
  ShownOnce
  FinalIsWhole
PROPERTIES
  EndIsShown
