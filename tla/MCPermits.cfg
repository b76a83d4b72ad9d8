\* Two streams of one tenant: the tenant's limit refuses the second after it took
\* the shared permit.  An entry lives four ticks and is renewed after one.
SPECIFICATION PermitsFairSpec
CONSTANTS
  c1 = c1
  c2 = c2
  t1 = t1
  Clients = {c1, c2}
  Tenants = {t1}
  TenantOf <- MCTenantOf
  Shared = shared
  Limit = 2
  TenantLimit = 1
  TTL = 4
  Interval = 1
  Slack = 1
  Tokens = {1, 2, 3, 4}
  MaxMishaps = 1
  MaxLapses = 1
INVARIANTS
  LimitKept
PROPERTIES
  CapacityReturns
  LimitRestored
