----------------------------- MODULE MCPermits -----------------------------
EXTENDS Permits

CONSTANTS c1, c2, t1

\* Two clients of one tenant.
MCTenantOf == [c \in {c1, c2} |-> t1]

=============================================================================
