SPECIFICATION Spec
CONSTANTS
  j1 = j1
  j2 = j2
  w1 = w1
  w2 = w2
  r1 = r1
  o1 = o1
  NoJob = NoJob
  Sources = {j1}
  VideoJobs = {j1}
  Workers = {w1, w2}
  Reconcilers = {r1}
  Operators = {o1}
  Amounts = {1}
  Charges = {0, 1, 2}
  Grants = {1}
  MaxCredit = 1
  MaxRetries = 3
  MaxFaults = 2
INVARIANTS
  AtMostOneSubmission
  LeaseExclusive
  ResolvedMeansReleased
  SuccessIsCharged
PROPERTIES
  SubmitCovered
