------------------------------- MODULE Permits -------------------------------
(***************************************************************************)
(* The Redis lease semaphore that limits how many provider operations of a *)
(* deployment, and how many event streams, run at once                     *)
(* (app/infrastructure/concurrency.py).                                    *)
(*                                                                         *)
(* A permit is an entry of a sorted set scored with its expiry.  A client  *)
(* (a chat or generation worker, or an SSE connection) takes a permit of   *)
(* the shared key and then one of its tenant's key, renews both while its  *)
(* operation runs, and releases them in reverse order.  The three Lua      *)
(* scripts are atomic; everything between them is not.                     *)
(*                                                                         *)
(* Redis answers may be lost, clients may die, a client may stall past the *)
(* life of its permits, and Redis may lose its data.  Time is counted in   *)
(* ticks: an entry holds the ticks it has left, and 0 means that it is not *)
(* in the set, or that the next script removes it before it counts.        *)
(***************************************************************************)
EXTENDS Integers, FiniteSets

CONSTANTS
  Clients,      \* the processes that ask for permits
  Tenants,      \* the tenants they act for
  TenantOf,     \* the tenant of each client
  Shared,       \* the key of the deployment, or of all streams
  Limit,        \* the limit of the shared key
  TenantLimit,  \* the limit of a tenant's key
  TTL,          \* ticks an entry lives
  Interval,     \* ticks between two renewals
  Slack,        \* ticks within which a client that does not stall does what is due
  Tokens,       \* a pool of lease tokens
  MaxMishaps,    \* bound: lost answers and crashes
  MaxLapses     \* bound: stalls and losses of Redis data

ASSUME PermitsAssumption ==
  /\ IsFiniteSet(Clients)
  /\ Shared \notin Tenants
  /\ TenantOf \in [Clients -> Tenants]
  /\ {Limit, TenantLimit, TTL, Interval, Slack} \subseteq Nat \ {0}
  /\ 3 * Interval <= TTL /\ Interval + 2 * Slack < TTL
  /\ IsFiniteSet(Tokens) /\ Tokens \subseteq Nat \ {0}
  /\ MaxMishaps \in Nat /\ MaxLapses \in Nat

VARIABLES
  entries,  \* ticks left of each token's entry, by key
  client,   \* the state of each client
  mishaps,   \* lost answers and crashes so far
  lapses    \* stalls and losses of data so far

permitVars == <<entries, client, mishaps, lapses>>

Keys == Tenants \cup {Shared}

LimitOf(k) == IF k = Shared THEN Limit ELSE TenantLimit

NoToken == 0

\* A client that is not idle holds a token.  "lease" 1 is its permit of the
\* shared key and 2 that of its tenant; "active" are the leases whose _active
\* flag is set; "renewing" is the lease that the renewal loop is about to renew,
\* 0 while it sleeps; "since" counts the ticks since the shared permit was
\* taken, and then since the guard last fell asleep; "lost" is the _lost event.
Client ==
  [pc : {"idle", "tenant", "undo", "running", "close2", "close1"},
   token : Tokens \cup {NoToken},
   active : SUBSET {1, 2},
   renewing : 0..2,
   since : 0..TTL,
   lost : BOOLEAN]

Idle ==
  [pc |-> "idle", token |-> NoToken, active |-> {}, renewing |-> 0,
   since |-> 0, lost |-> FALSE]

KeyOf(c, lease) == IF lease = 1 THEN Shared ELSE TenantOf[c]

Live(k) == {t \in Tokens : entries[k][t] > 0}

Busy(c) == client[c].pc # "idle"

\* secrets.token_urlsafe: a token that nobody uses.
Fresh(t) ==
  /\ \A k \in Keys : entries[k][t] = 0
  /\ \A c \in Clients : client[c].token # t

PermitsInit ==
  /\ entries = [k \in Keys |-> [t \in Tokens |-> 0]]
  /\ client = [c \in Clients |-> Idle]
  /\ mishaps = 0
  /\ lapses = 0

Mishap == mishaps < MaxMishaps /\ mishaps' = mishaps + 1

-----------------------------------------------------------------------------
(* The Lua scripts.                                                        *)

CanAcquire(k) == Cardinality(Live(k)) < LimitOf(k)

PutEntry(k, t) == entries' = [entries EXCEPT ![k][t] = TTL]

Drop(k, t) == entries' = [entries EXCEPT ![k][t] = 0]

\* RENEW_SCRIPT: an entry that is gone is not added again.
Renew(k, t) == entries[k][t] > 0 /\ PutEntry(k, t)

-----------------------------------------------------------------------------
(* Acquisition: acquire_deployment_admission, acquire_chat_stream_admission. *)

\* The shared permit is free and taken.  A refusal, or an error before the script
\* ran, leaves the client idle.
AcquireShared(c) ==
  /\ client[c].pc = "idle"
  /\ CanAcquire(Shared)
  /\ \E t \in Tokens :
       /\ Fresh(t)
       /\ \A u \in Tokens : u < t => ~Fresh(u)
       /\ PutEntry(Shared, t)
       /\ client' = [client EXCEPT ![c] =
                       [Idle EXCEPT !.pc = "tenant", !.token = t, !.active = {1}]]
  /\ UNCHANGED <<mishaps, lapses>>

\* The script took the shared permit and its answer was lost: nobody holds it.
AcquireSharedLost(c) ==
  /\ client[c].pc = "idle"
  /\ CanAcquire(Shared)
  /\ \E t \in Tokens :
       /\ Fresh(t)
       /\ \A u \in Tokens : u < t => ~Fresh(u)
       /\ PutEntry(Shared, t)
  /\ Mishap
  /\ UNCHANGED <<client, lapses>>

\* A client that starts its operation without the tenant's permit.
AcquireTenantUnchecked(c) ==
  /\ client[c].pc = "tenant"
  /\ \/ CanAcquire(TenantOf[c]) /\ PutEntry(TenantOf[c], client[c].token)
     \/ ~CanAcquire(TenantOf[c]) /\ UNCHANGED entries
  /\ client' = [client EXCEPT ![c] =
                  [@ EXCEPT !.pc = "running", !.active = {1, 2}, !.since = 0]]
  /\ UNCHANGED <<mishaps, lapses>>

\* Both permits are held; the guard starts with the operation.
AcquireTenant(c) ==
  /\ client[c].pc = "tenant"
  /\ CanAcquire(TenantOf[c])
  /\ PutEntry(TenantOf[c], client[c].token)
  /\ client' = [client EXCEPT ![c] =
                  [@ EXCEPT !.pc = "running", !.active = {1, 2}, !.since = 0]]
  /\ UNCHANGED <<mishaps, lapses>>

TenantRefuses(c) ==
  /\ client[c].pc = "tenant"
  /\ ~CanAcquire(TenantOf[c])
  /\ client' = [client EXCEPT ![c].pc = "undo"]
  /\ UNCHANGED <<entries, mishaps, lapses>>

\* The call raises, after the script ran or without it.
AcquireTenantRaises(c) ==
  /\ client[c].pc = "tenant"
  /\ \/ CanAcquire(TenantOf[c]) /\ PutEntry(TenantOf[c], client[c].token)
     \/ UNCHANGED entries
  /\ client' = [client EXCEPT ![c].pc = "undo"]
  /\ Mishap
  /\ UNCHANGED lapses

-----------------------------------------------------------------------------
(* The guard: RedisLeaseGuard.                                             *)

\* The renewal loop wakes up.  It has ended once a lease was lost.
WakeUp(c) ==
  /\ client[c].pc = "running"
  /\ client[c].renewing = 0
  /\ ~client[c].lost
  /\ client[c].since >= Interval
  /\ client' = [client EXCEPT ![c].renewing = 1]
  /\ UNCHANGED <<entries, mishaps, lapses>>

\* RedisLease.renew succeeds; the loop goes on to the next lease, or sleeps.
Renewed(c) ==
  LET lease == client[c].renewing IN
  /\ client[c].pc = "running"
  /\ lease # 0
  /\ Renew(KeyOf(c, lease), client[c].token)
  /\ client' = [client EXCEPT ![c] =
                  [client[c] EXCEPT !.renewing = IF lease = 1 THEN 2 ELSE 0,
                                    !.since = IF lease = 1 THEN @ ELSE 0]]
  /\ UNCHANGED <<mishaps, lapses>>

\* A guard that notes a lost lease and leaves the operation alone.
LeaseLostUnheeded(c) ==
  LET lease == client[c].renewing IN
  /\ client[c].pc = "running"
  /\ lease # 0
  /\ entries[KeyOf(c, lease)][client[c].token] = 0
  /\ client' = [client EXCEPT ![c] =
                  [client[c] EXCEPT !.renewing = 0, !.active = @ \ {lease}]]
  /\ UNCHANGED <<entries, mishaps, lapses>>

\* The renewal finds the entry gone: the lease is inactive, the loop ends and the
\* operation is cancelled.
LeaseLost(c) ==
  LET lease == client[c].renewing IN
  /\ client[c].pc = "running"
  /\ lease # 0
  /\ entries[KeyOf(c, lease)][client[c].token] = 0
  /\ client' = [client EXCEPT ![c] =
                  [client[c] EXCEPT !.renewing = 0, !.lost = TRUE, !.active = @ \ {lease}]]
  /\ UNCHANGED <<entries, mishaps, lapses>>

\* The renewal raises, after the script ran or without it: the lease counts as
\* lost although its entry may be in the set, and it is not released.
RenewalRaises(c) ==
  LET lease == client[c].renewing IN
  /\ client[c].pc = "running"
  /\ lease # 0
  /\ \/ Renew(KeyOf(c, lease), client[c].token)
     \/ UNCHANGED entries
  /\ client' = [client EXCEPT ![c] =
                  [client[c] EXCEPT !.renewing = 0, !.lost = TRUE, !.active = @ \ {lease}]]
  /\ Mishap
  /\ UNCHANGED lapses

\* The operation ends by itself, or because the guard cancelled it; the renewal
\* loop is stopped before the leases are released.
OperationEnds(c) ==
  /\ client[c].pc = "running"
  /\ client' = [client EXCEPT ![c] = [@ EXCEPT !.pc = "close2", !.renewing = 0]]
  /\ UNCHANGED <<entries, mishaps, lapses>>

\* A lost lease ends the operation: run cancels it.  An event stream is not
\* cancelled but looks at admission.lost whenever it yields, at the latest with
\* its heartbeat; that delay is part of Slack, and a longer one is a Stall.
Cancelled(c) == client[c].lost /\ OperationEnds(c)

\* The lease that a client is about to release, and where it goes then.
Releasing(c) == IF client[c].pc = "close2" THEN 2 ELSE 1

Released(c) ==
  client' = [client EXCEPT ![c] =
               IF client[c].pc = "close2"
               THEN [client[c] EXCEPT !.pc = "close1", !.active = @ \ {2}]
               ELSE Idle]

\* RedisLease.release: nothing is sent for an inactive lease.
ReleaseLease(c) ==
  /\ client[c].pc \in {"undo", "close2", "close1"}
  /\ \/ Releasing(c) \in client[c].active /\ Drop(KeyOf(c, Releasing(c)), client[c].token)
     \/ Releasing(c) \notin client[c].active /\ UNCHANGED entries
  /\ Released(c)
  /\ UNCHANGED <<mishaps, lapses>>

\* The call raises without an effect in Redis, and the error is suppressed.
ReleaseRaises(c) ==
  /\ client[c].pc \in {"undo", "close2", "close1"}
  /\ Releasing(c) \in client[c].active
  /\ Released(c)
  /\ Mishap
  /\ UNCHANGED <<entries, lapses>>

-----------------------------------------------------------------------------
(* The environment.                                                        *)

Crash(c) ==
  /\ Busy(c)
  /\ client' = [client EXCEPT ![c] = Idle]
  /\ Mishap
  /\ UNCHANGED <<entries, lapses>>

\* An entry that never expires, and one that is counted after its time.
ElapsedNever(n) == n

\* ZREMRANGEBYSCORE: an entry whose time is over does not count.
Elapsed(n) == IF n > 0 THEN n - 1 ELSE 0

TickClients ==
  client' = [c \in Clients |->
               IF client[c].pc \in {"tenant", "running"} /\ client[c].since < TTL
               THEN [client[c] EXCEPT !.since = @ + 1]
               ELSE client[c]]

\* A client that takes too long for its second permit, or for a renewal round
\* that is due, or to end an operation whose permits it lost.
Late(c) ==
  \/ client[c].pc = "tenant" /\ client[c].since >= Slack
  \/ client[c].pc = "running" /\ client[c].since >= Interval + Slack

\* Time passes.  A client that does not stall acts within Slack.
TimePasses ==
  /\ \A c \in Clients : ~Late(c)
  /\ entries' = [k \in Keys |-> [t \in Tokens |-> Elapsed(entries[k][t])]]
  /\ TickClients
  /\ UNCHANGED <<mishaps, lapses>>

\* Time passes although a client is late.
Stall ==
  /\ \E c \in Clients : Late(c)
  /\ lapses < MaxLapses
  /\ lapses' = lapses + 1
  /\ entries' = [k \in Keys |-> [t \in Tokens |-> Elapsed(entries[k][t])]]
  /\ TickClients
  /\ UNCHANGED mishaps

\* Redis restarts without its data.
Wipe ==
  /\ lapses < MaxLapses
  /\ lapses' = lapses + 1
  /\ entries' = [k \in Keys |-> [t \in Tokens |-> 0]]
  /\ UNCHANGED <<client, mishaps>>

ClientStep(c) ==
  \/ AcquireTenant(c) \/ TenantRefuses(c)
  \/ WakeUp(c) \/ Renewed(c) \/ LeaseLost(c) \/ Cancelled(c)
  \/ ReleaseLease(c)

PermitsNext ==
  \/ \E c \in Clients :
       \/ AcquireShared(c) \/ AcquireSharedLost(c)
       \/ AcquireTenant(c) \/ TenantRefuses(c) \/ AcquireTenantRaises(c)
       \/ WakeUp(c) \/ Renewed(c) \/ LeaseLost(c) \/ RenewalRaises(c)
       \/ OperationEnds(c)
       \/ ReleaseLease(c) \/ ReleaseRaises(c)
       \/ Crash(c)
  \/ TimePasses
  \/ Stall
  \/ Wipe

PermitsSpec == PermitsInit /\ [][PermitsNext]_permitVars

\* Time passes, and a client goes on with what it has begun.  Nobody has to ask
\* for a permit, and an operation whose permits are not lost may run for ever.
PermitsFairSpec == PermitsSpec /\ WF_permitVars(TimePasses) /\ \A c \in Clients : WF_permitVars(ClientStep(c))

-----------------------------------------------------------------------------
(* Properties.                                                             *)

\* Type invariant of the permit sets and the clients.
PermitsTypeOK ==
  /\ entries \in [Keys -> [Tokens -> 0..TTL]]
  /\ client \in [Clients -> Client]
  /\ mishaps \in 0..MaxMishaps
  /\ lapses \in 0..MaxLapses

Running(k) == {c \in Clients : client[c].pc = "running" /\ k \in {Shared, TenantOf[c]}}

WithinLimit == \A k \in Keys : Cardinality(Running(k)) <= LimitOf(k)

\* As long as no client stalls and Redis keeps its data, no more operations run
\* than the limits allow, whatever answers are lost and whoever dies: a client
\* whose renewal fails ends its operation before the entry can expire
\* (RedisLeaseGuard.run and _renew_loop).
LimitKept == lapses = 0 => WithinLimit

\* An entry that nobody owns, because an answer was lost, a release raised or a
\* client died, ends: the semaphore is crash-recoverable.
CapacityReturns ==
  \A k \in Keys : \A t \in Tokens :
    (entries[k][t] > 0 /\ \A c \in Clients : client[c].token # t) ~> entries[k][t] = 0

\* If a stall or a loss of data lets too many operations run, the renewal of the
\* ones without an entry cancels them and the limit holds again.
LimitRestored == ~WithinLimit ~> WithinLimit

=============================================================================
