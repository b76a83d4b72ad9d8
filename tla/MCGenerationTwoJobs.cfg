SPECIFICATION FairSpec
CONSTANTS
  j1 = j1
  j2 = j2
  w1 = w1
  w2 = w2
  r1 = r1
  o1 = o1
  NoJob = NoJob
  Sources = {j1, j2}
  VideoJobs = {j1}
  Workers = {w1}
  Reconcilers = {r1}
  Operators = {}
  Amounts = {1}
  Charges = {0, 1, 2}
  Grants = {1}
  MaxCredit = 2
  MaxRetries = 1
  MaxFaults = 1
INVARIANTS
  ReservedIsSumOfHolds
  ChargedOnlyOnSuccess
PROPERTIES
  BillingSpec
  RecoverySettles
  HoldsSettle
