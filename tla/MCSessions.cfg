SPECIFICATION SessionsSpec
CONSTANTS
  t1 = t1
  t2 = t2
  r1 = r1
  r2 = r2
  s1 = s1
  s2 = s2
  s3 = s3
  NoTenant = NoTenant
  NoSession = NoSession
  Tenants = {t1, t2}
  Requests = {r1, r2}
  SessionIds = {s1, s2, s3}
  SessionTtl = 3
  IdleTtl = 2
  TouchInterval = 1
  CredentialTtl = 1
  MaxFailed = 1
  Lockout = 1
  MaxPassword = 2
  MaxTime = 2
SYMMETRY MCSymmetry
INVARIANTS
  CredentialUsedOnce
  ActiveIsCurrent
PROPERTIES
  UsedSessionsStay
