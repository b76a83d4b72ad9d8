\* A worker and the recovery of one job with two results, two cleaners and two
\* faults.  The system rests when the results are deleted.
SPECIFICATION Spec
CONSTANTS
  Writers = {worker, recovery}
  Parts = {p1, p2}
  Cleaners = {a, b}
  NoWriter = nobody
  NoObject = none
  MaxErrors = 2
CHECK_DEADLOCK FALSE
INVARIANTS
  ReadyIsStored
  OneExecutionPublished
  DeletedIsGone
PROPERTIES
  DeletionCompletes
