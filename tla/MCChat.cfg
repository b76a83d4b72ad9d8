SPECIFICATION FairSpec
CONSTANTS
  q1 = q1
  q2 = q2
  w1 = w1
  w2 = w2
  p1 = p1
  p2 = p2
  NoRequest = NoRequest
  Sources = {q1}
  Workers = {w1, w2}
  Reconcilers = {p1, p2}
  Amounts = {1}
  Charges = {0, 1, 2}
  Grants = {1}
  MaxCredit = 1
  MaxDeltas = 2
  MaxClaims = 2
  MaxFaults = 2
INVARIANTS
  AtMostOnePost
  ChargedOnlyIfCompleted
  UnknownKeepsHold
PROPERTIES
  ImplementsLog
  WholeAnswer
  ClaimedEnds
