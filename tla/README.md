# TLA+ models of MOSAIC

MOSAIC is a multi-tenant platform that sells answers and media of AI models by
the point. The API accepts a request and holds points for it in one PostgreSQL
transaction that also writes an outbox row. A relay hands the row to RabbitMQ, a
consumer claims the work under a lease, takes permits in Redis, asks the
provider, records the outcome and settles the hold. Loops in every consumer look
for leases and holds that nobody finished. A browser page reads the durable log
of a chat answer through a server-sent-event stream.

No transaction spans two of these stores, and every process may stop between two
transactions. The models are about what holds all the same: points are neither
lost nor charged twice, a provider is asked at most once for one piece of work,
a job is charged at the price it was accepted at, a log can be replayed, a
repeated request is accepted once, no session row survives a later change of the
password, and everything that began comes to an end.

Paths below are relative to `src/apps/api/` unless they start with `src/`.
`PROJECT.json` gives the source lines of every definition.

## 1. Inventory

| Component | State | Operations | Interacts with | Status |
|---|---|---|---|---|
| Wallet and ledger, `app/billing/service.py`, `state.py` | wallet row (status, balance, reserved), one reservation per source, ledger rows | reserve, capture, release, release of expired holds, credit, freeze | generation and chat workers, settlement loops, operator | modelled: `Billing` |
| Price rules and charges, `app/billing/pricing.py` and others | price rows, accepted price | validate a tariff, price in force, charge | acceptance, completion, capture | `Catalog`, `Admission`; rounding of token units is left out |
| Generation jobs, `app/generations/repository.py`, `worker.py`, `executor.py`, `scripts/generation_consumer.py` | job row with status, lease, fence, usage | accept, claim, transition, admission, provider call, complete, capture, fail, stalled pass, settlement pass | wallet, permits, provider, recovery | modelled but for payload validation: `Generation`, acceptance in `Admission` |
| Generation recovery, `app/generations/recovery.py` | job row, reconciliation state | claim an unknown video job, poll, complete or fail, the operator's resolve-failed | wallet, workers | modelled: `Generation` |
| Generation lifecycle, `app/generations/lifecycle.py` | artifact rows, objects in S3 | cancel, soft delete, cleanup, cleanup retry | workers, users | modelled: `Generation` (cancel), `Artifacts` |
| Outbox and relay, `app/outbox/` | outbox row with attempts and lease | claim a batch, publish, mark published, mark for retry, give up | broker, acceptance | modelled: `Outbox` |
| Broker and consumers, `app/messaging/rabbitmq.py`, `scripts/*_consumer.py` | ready, unacknowledged and dead messages | deliver, acknowledge, reject, redeliver, dead-letter | relay, workers | as the consumers use it: `Outbox` |
| Chat requests, `app/conversations/repository.py`, `execution_repository.py`, `worker.py`, `billing_adapter.py`, `scripts/chat_consumer.py` | request row, active request of the conversation, event log | create, send, regenerate, stop, claim, requeue, append, complete, fail, mark unknown, reconcile, settle | wallet, permits, provider, stream | modelled but for the history sent to the provider: `ChatLog`, `Chat`, `Turns` |
| Chat event replay, `app/conversations/service.py`, `app/api/conversations.py` | cursor of a stream | replay, validate, wait, end | event log, page | modelled: `ChatStream` |
| Web chat page, `src/apps/web/src/...chat-workspace.tsx`, `conversation-reducer.ts` | shown text, cursor | load, resume, reduce, refresh | stream | as far as the log is concerned: `ChatStream` |
| Redis permits, `app/infrastructure/concurrency.py` | two sorted sets with expiry | acquire, renew, release, guarded run | workers | modelled: `Permits` |
| Idempotent acceptance, `app/conversations/repository.py` | idempotency records | insert or compare, replay | API | modelled: `Turns` |
| Accounts and sessions, `app/auth/`, `app/api/auth.py`, `scripts/operator_accounts.py` | account with its credential, session rows | register, login, check, change and reset a password, logout, list, revoke | API, operator | modelled: `Sessions` |
| Login limit, `app/auth/rate_limit.py` | Redis counters | allow or refuse | login | refusals only: `Sessions` |
| Catalog, deployments, entitlements, `app/catalog/`, `scripts/seed_product_catalog.py` | price rows, deployments, grants | seed, activate, grant, decide | acceptance | modelled but for revisions, policies and read-only queries: `Catalog` |
| Voice resources, `scripts/provision_demo_voice_resources.py`, `app/generations/voice_resources.py` | stored and bound voices, advisory lock | create, store, try out, bind | provider, acceptance | modelled: `Catalog` |
| Provider adapters | none | request, stream, poll | workers | only the outcomes callers tell apart |
| Worker readiness | Redis heartbeat | beat and remove | health check | not modelled |
| Usage, audit, metrics, health, HTTP layer, settings, contracts, migrations, other pages | read-only, or rows no decision reads | | | not modelled |

The hard behaviours, each a hazard of `PROJECT.json` at the line where it bites:

* a worker dies, pauses past its lease or loses the answer around the provider
  call, and others find the job;
* a step made of several transactions (complete and capture; mark, release and
  resolve; store and publish) is interrupted, or overtaken by a loop;
* rows are selected in one transaction and handled in later ones;
* messages are lost, duplicated, late, or given up;
* a user's stop races the end of an answer, a delete races a publication;
* the event log is read in several statements while it grows;
* a permit's holder stalls, or Redis loses its data;
* a client repeats a request whose answer it never saw; transactions that lock
  the same rows in different orders wait for each other;
* a login, a request and a password change of one account overlap;
* prices, routes and voices change under jobs that were accepted earlier.

## 2. Modules

A database transaction, a broker call, a Lua script and a provider call are each
one action. The rows are locked or compared inside a transaction, so its parts
cannot interleave; whatever a process remembers between two of them is in a
variable of its own (`proc`, `worker`, `relay`, `consumer`, `cleaner`, `client`),
and everything else may happen in between. A crash forgets that variable and
nothing else. Time is not a number (except in `Permits`, `Sessions` and `Catalog`): a lease or
hold that has run out is a flag that may be raised at any moment. `Turns` is finer:
it takes row locks one by one, because its questions are about what waits for what.

**Billing**: one tenant's wallet. `resv` is the reservation of each source (job
or request), `ledger` its hold, debit and release rows. `Hold`, `Capture`,
`Release`, `HoldLapses`, `Credit` and the wallet status are the operations of the
service. A call that raises changes nothing; what it answers is
`CaptureOutcome` and `ReleaseOutcome`, on which its callers branch.

**Generation** extends Billing with `job` rows and processes: workers,
reconciliation loops and operators. `token` and `fence` are the lease and
fencing tokens that are renewed together. `posted` counts chargeable requests
sent, `remote` is what the provider made of them. A worker's program counter
names the next transaction of `DurableGenerationWorker.run`; its handlers for
saturation, failure and unknown outcome are actions of their own. A reconciler
goes through the passes of the consumer's loop in their order: stalled leases, the
holds of ended jobs (captured or released; one that has expired is released), then
one unknown video outcome. A poll that answers with a client error or a status it
does not know counts as a failure of the task, as in the code, whatever the provider
makes of it. The operator's command is three actions, as it is three transactions.

**Outbox**: `row` is the outbox table, `relay` a relay with the tokens it
claimed, `msg` the broker's copies, `consumer` what a consumer holds. The work
behind a message is waiting, busy or over. A publish error that is not retryable
fails the row at once (`MarkRetry`), and a consumer that raises `ValueError` rejects
its message to the dead letter queue (`ConsumerRejects`).

**ChatLog** is the abstract specification of a request's event log: it starts,
grows by deltas and ends once. **Chat** extends Billing with requests, workers
that stream into the log, the user's stop and the loops; it implements ChatLog
(`ImplementsLog`). **ChatStream** reads a ChatLog: the
stream's generator, the wire and the page with its reducer. The page remembers the
cursor of the request and whether it was resumed: after a broken stream, or a fetch
that fails once the message was sent, it resumes by itself one time, and then waits
for a reload (`RequestFails`, `StreamOver`).

**Permits**: the two sorted sets of `concurrency.py`, an entry being the ticks it
has left, and clients that take the shared permit, then the tenant's, renew both
and give them back. `TimePasses` stops for a client that is due to renew; `Stall` is
the exception and is counted in `lapses`, like the loss of Redis data (`Wipe`).

**Artifacts**: the results of one job, which a worker or the recovery stores
before it publishes them, and the cleaners that delete objects of deleted jobs.

**Turns**: one conversation. `txn` holds each database session's operation and the
number of locks it has taken of `Plan`, the lock order of that operation in the
code; `conv`, `msgs`, `reqs` and `idem` are the rows, written when a transaction
commits; `answers` is what clients were told. An insert of a key waits for an
uncommitted row with the same key, as the unique index makes it. `Rollback` may
end any transaction at any point. `Claim` and `Requeue` lock the request alone and are
a step each. What the worker does between its transactions
is left to `Chat`, what it streams to `ChatLog`.

**Sessions**: one account in several workspaces. `account` is the credential (its
number, restriction, expiry, failures and lock), `session` the rows, `req` what a
request under way carries between its transactions, above all the time it read
before it waited for a row lock. `StartLogin`, `Authenticate` and `Issue` are the
three parts of a login. Only for a one-time credential does `Issue` lock and read the
users row again.

**Catalog**: price rows, deployments and entitlements that seeds write (`Seed`,
`SeedActivate`), evidence that becomes current or stale, and provisioning runs
(`RunStep`) that create, store, try out and bind voices under an advisory lock that
may drop. **Admission** composes Catalog with Billing: a job is accepted at the
decision in force (`Accept`), executed if its route is open, completed at a charge,
settled or given back. Its steps leave the catalog alone, and it implements the
catalog's specification (proved).

Types are conjuncts of the proved inductive invariants of all components (section
4); the configurations leave them out and are kept for what could really go wrong.

`MC*` modules declare model values; configurations only give constants their
values.

## 3. Runs

| Run | Question | Instance |
|---|---|---|
| `generation` | one provider request, exclusive fences, a hold behind every submission, what an operator's resolution means, which successes go uncharged | 1 video job, 2 workers, loop, operator, 2 faults |
| `generation_two_jobs` | does the workflow implement the wallet; is the reserved projection right; who is charged; does recovery settle, are the holds of ended jobs settled although one row makes the pass raise | a video and another job, 1 worker, loop, 1 fault |
| `generation_hold` | *violated*: an unknown outcome keeps its hold | 1 job, 2 workers, 1 fault |
| `outbox` | stale relays change nothing, rows settle, sent messages are handled | 1 event, 2 relays, 2 consumers, 2 attempts, 2 crashes |
| `chat` | does chat implement its log; one provider request, whole answers, charges, holds of unknown outcomes; is a request that was claimed settled | 1 request, 2 workers, 2 loops, 2 deltas, 2 faults |
| `chat_stream` | nothing is shown twice, the final text is whole, the end is shown | 3 deltas, 2 faults |
| `chat_stream_error` | *violated*: a well-formed log is never reported as invalid | 1 delta, no fault |
| `permits` | limits of running operations; leaked capacity returns, an exceeded limit is restored | 2 clients of one tenant, limits 2 and 1, 1 fault, 1 lapse |
| `artifacts` | rows and objects agree, one execution is published, a deletion completes | 2 executions, 2 results, 2 cleaners, 2 faults |
| `admission` | accepted terms stand, voices are heard before they are bound and kept once stored, base routes open on evidence | 1 job, a base and a voice product, 3 releases, 2 provisioning runs, 2 voices |
| `sessions` | a one-time credential opens one session, no session outlives its password, a session in use stays | 1 account in 2 workspaces, 2 requests at a time, 3 session rows, 2 passwords |
| `turns` | a key is honoured once, turns alternate, an ended request stays ended, which transactions can wait in a circle | 1 conversation, 3 database sessions, 2 requests, 4 keys, 2 bodies |

**Bounds.** Conflicts in this code are between two holders of one row, or
between a holder and a loop: two workers (relays, consumers, cleaners, clients)
and a loop show them. Two faults are a crash and a second one during the
recovery from the first. Two jobs or requests are needed where one row can
hinder another (the shared wallet, a pass that raises: `generation_two_jobs`; the
active request: `turns`). `MaxRetries`, `MaxClaims`, `MaxAttempts` and
`DeliveryLimit` only limit how often a retry happens; one that succeeds and one
that does not are both within them. Rows of the outbox do not interact: those
of a batch share only the relay's time, which may pass at any moment, so one
event is enough. `MaxDeltas` of 3 gives a stream a cursor at
the beginning, in the middle and before the end. Charges reach above the hold,
and the credit is short of what all sources ask for. In `Permits` an entry lives
four ticks and is renewed after one, with one tick of slack: the assumption
`Interval + 2 * Slack < TTL` is the code's one third of the TTL with room for
the call.

In `turns` three sessions are the smallest number with a circle of three waiting
transactions, two requests allow a second turn or a regeneration after the first
ended, and two send keys with two bodies allow a repeat, a new send and a misuse
of a key. In `admission` the second release changes the price from the next day
on and the third wrongly reuses a version with another price; two runs and two
voices are needed for provisioning runs that overlap. In `sessions` three rows let
one login overtake another while an older session is open. Its `SessionTtl` of 3
lies beyond `MaxTime`, so the instance reaches the idle expiry and not the absolute
one; the proofs cover both.

**Deadlock** is checked except in `outbox` (all rows final), `chat_stream*` (a
finished page) and `artifacts` (everything deleted), where the system rests.
Circles of row locks are no deadlock of the model, since the database aborts one of
the transactions: `OnlyStopDeadlocks` says which ones there are.

**Fairness.** A process that runs takes its next step: consumers, relays and
cleaners are loops without other waits than the ones modelled, and calls to
providers, Redis and the broker have timeouts. Leases nobody renews, holds and
retry delays run out because time passes. The provider is assumed to finish a
video task it works on. In `Chat`, `StreamEnds` has strong fairness because an
answer is finite and its client times out: the end of the stream is interrupted
infinitely often only if infinitely many deltas arrive. In `ChatStream` a user
who sees an error reloads. No fairness is assumed of users who submit, stop or
delete, of operators, or of faults; faults are bounded, so liveness says what
happens once they stop.

**What the violations show** (quoted under `findings`):

* `generation_hold`: a worker whose lease lapsed in `running` or `storing` fails
  to change the row and releases the hold all the same (`worker.py:708`, `600`);
  the stalled pass then declares the outcome unknown, without a hold.
* `chat_stream_error`: a terminal event committed between the two reads of
  `stream` makes it raise `STREAM_EVENT_SEQUENCE_INVALID`. The page recovers by
  reloading, which `EndIsShown` includes.

Two more limits of chat are visible in the models and break no promise of the
repository. `mark_submitted_unknown` writes only `running` rows, so after a stop an
uncertain outcome ends as stopped and its hold is released; `UnknownKeepsHold` is
about outcomes that were recorded as unknown. `stop` locks the conversation before
the request and endings lock them the other way round, the one circle that
`OnlyStopDeadlocks` allows.

A limit of the outbox is visible in the model without a run of its own: attempts
are counted at the claim (`app/outbox/repository.py:218`), so crashes and an
unreachable broker can use them up before anything was sent. The row is then
failed for good, and its request stays queued. `RowsSettle` counts this as
settled.

## 4. Proofs

TLAPS proves the following for all values of the constants that satisfy the named
assumptions: any finite set of jobs or requests, any sets of workers, reconcilers,
operators, relays, clients, logins, releases and provisioning runs, any amounts,
times, retries and faults. Every safety property that a run checks is a theorem. The
proofs are in eight modules:

| Module | Proves about |
|---|---|
| `GenerationProofs` | `Billing`, and in `Generation` the provider request, leases, charges and the refinement of `Billing` |
| `SettlingProofs` | `Generation`: holds, operator resolution, uncharged successes |
| `AdmissionProofs` | `Catalog`, `Admission`, `Outbox` |
| `ChatProofs` | `Chat` and its refinement of `ChatLog` |
| `ChatStreamProofs` | `ChatLog`, `ChatStream` |
| `TurnsProofs` | `Turns` |
| `ComponentProofs` | `Sessions`, `Artifacts` |
| `PermitsProofs` | `Permits` |

**Billing.** The inductive invariant `BillingInv` is the type invariant, the
two sums, funding and `LedgerExplainsHolds`. None of them is inductive alone: a
capture lowers `reserved` by the hold and `balance` by the charge, so funding
needs the exact sum, and the sums need the ledger rows to be still unwritten,
which the ledger's agreement with the reservation's status says. A sum over the
sources is the cardinality of a set of pairs (`Total`), so that the theorems on
finite sets apply; `TotalUpdate` says how it changes with one summand, and each
operation is one lemma. It follows that the projections are right, holds are
funded, the invariant errors of the service are never raised and a settled hold
is final.

**Generation.** The workflow has some forty actions, so the proof has two
layers. The first shows, for each action, which *change* it makes to a job row, to
a process, to the count of requests and to the wallet (`RowsChange`,
`ProcsChange` and so on), by lemmas over arbitrary records. The second derives the
invariants from these changes alone. `GenInv` consists of

* `SubmissionInv`: in a pre-submission status nothing was sent; a worker at the
  provider call has a row past these statuses, nothing sent yet, and no second
  worker beside it. `AtMostOneSubmission` alone is not inductive, because it does
  not say why a worker about to send is the first;
* `FenceInv`: a process's token is at most its job's fence and no two processes
  share one, since every claim raises the fence. `LeaseExclusive` follows;
* `ChargeInv`: a process about to capture has a succeeded job. With it
  `ChargedOnlyOnSuccess` is inductive.

`SubmissionIsOneWay` follows from the changes of rows. `WorkflowImplementsBilling`
shows that every step is a wallet step or leaves the wallet alone, and
`WorkflowKeepsProjection` carries a wallet theorem over.

**Settling a job** (SettlingProofs). `SettlingInv` adds three parts to `GenInv`.

* `LeaseHoldInv`: a worker on the way to the provider has the token of its row as
  long as that was not submitted, and the hold is pending. Only the worker with that
  token could release it, and it is elsewhere. `SubmitCovered` follows;
* `ClosingInv`: what the settlement pass selected stays terminal; a process at the
  resolve step has a failed job whose hold it released before. A released hold never
  returns and a terminal job does not change, so `ResolvedMeansReleased` is kept
  across the three transactions of the operator;
* `QuietInv`: without faults a worker finds its row as it left it, so that it never
  takes its error path with a row that another process then completes.
  `SuccessIsCharged` follows. It needs the whole path of a worker and not only its
  last step: an unsuccessful transition is what leads to a wrong release.

The actions are classified once more, by what they do to the lease, to the hold and
to the worker concerned (`RowEvent`, `HoldEvent`, `WorkerEvent`).

**ChatLog.** `LogReplayable` relates a log to whether its request has ended;
with the types it is inductive. Logs are well formed and only grow.

**Chat.** `ChatInv` has four parts.

* `RowsFine` ties a row to its log and its hold: the row counts its events, its lease
  is of its last claim, its hold is pending while it is open or unknown, and a
  captured hold has the recorded usage;
* `WorkersFine` ties a worker to its row: once it is about to send, its claim stays
  the last one and the row is not queued again; while its lease is current the row's
  sequence number is the worker's; a worker about to complete saw the whole stream;
  two workers on one request hold different claims;
* `PostsFine`: a request that was sent is never queued again, and the worker with its
  last claim is past sending. `AtMostOnePost` alone is not inductive for the same
  reason as in Generation;
* `LoopsFine`: what a reconciler selected has ended, so settling it later is right.

Most actions change one row and one worker. `KeepsRow` and `KeepsWorker` say which
changes disturb nothing, and `OnRow`, a relation between a worker and a row, is kept
by all of them; only claim, requeue, append and submit are treated on their own.
Last comes the refinement: every step appends one event of ChatLog's specification or
leaves the log alone (`ChatImplementsLog`).

**ChatStream.** `StreamInv` is about one reader at a time: the wire carries events of
the log with their own numbers, and none from the beginning if the stream resumed; a
stream is never ahead of the log and has ended only with the request; the page's
cursor lies within the log. `ShownOnce` is inductive with these, because the text was
read before the cursor (`ReadMessages`, then `ReadRequests`) while the log only grows,
and because the reducer takes the event after its cursor and no other. `FinalIsWhole`
rests on the order of the statements too: a conversation that was read as not active
had ended before its messages were read. `DeltasNext` and `DeltasGrow` say how the
number of deltas changes with a longer prefix and a longer log. As a by-product no
row ever fails the validation of the replay (`RowsAlwaysValid`): the race shown by
`chat_stream_error` is the only way to its error.

**Turns.** `TurnsInv` says that the rows of requests, messages and the conversation
are in order, that an answer given for a key is what its row says and a request is
the resource of the row of its key, that transactions are within their plans, and
that no two hold the same row. `KeyAcceptedOnce` and `TurnsInOrder` follow. Between a
check and the commit other transactions write: `ChecksStand` shows that none of them
touches what was checked, since it would need a lock that is taken. For
`OnlyStopDeadlocks` the rows are ranked by their kind: without an ending every
transaction wants a row of higher rank than those it holds, and without a stop it
does so in another ranking; a circle would climb for ever (`NoEndlessClimb`).

**Artifacts and Outbox.** In `ArtifactsInv` the published objects come
from a writer that is done and stores nothing more, and what a cleaner is about to
mark as deleted is not offered and is gone; with it `ReadyIsStored`,
`OneExecutionPublished` and `DeletedIsGone` are inductive together. In `OutboxInv` a
relay's tokens are at most the attempts of their rows, a relay about to mark a row has
sent that copy, and what a consumer executes is busy. `LeaseKept` follows, and also
that a published row was sent and that one consumer at most executes an event.

**Permits.** Sets of entries never exceed their limits
(`CapacityOK`), since only `ACQUIRE_SCRIPT` adds entries and checks first. `LimitKept`
is about operations, and needs that a running operation still has its entries:
`Covered` gives the time left of each permit by how long ago the client renewed, which
is positive because `Interval + 2 * Slack < TTL`, and `TokensOK` that no two clients
share an entry. The running operations of a key are then no more than its entries.

**Sessions.** `CredentialUsedOnce` compares two session rows; it is inductive
with the account in between: a row on which the credential of the present password
was spent implies that the account marks it used, and no row has a newer password.
`ActiveIsCurrent` is kept because whoever changes the password ends all active rows
in the same transaction, and because a row counts for the password the account has
when it is written: a one-time login reads the account again under its lock, an
ordinary one does not, so its row may be written after a change of the password it
was authenticated with (section 5). `UsedSessionsStay` rests on the distance between
`last_seen_at` and the last accepted request, less than `TouchInterval`, and on
`TouchInterval < IdleTtl`.

**Catalog and Admission.** `CatalogInv` says that a run about to bind has
heard all its voices, and that a run which has the advisory lock for itself knows
every stored voice. `TermsInv` says that a job names a price row that exists and
equals the terms it was accepted at, from which hold, recorded charge and captured
charge follow; it is kept because a seed never changes a written row.
`AdmissionImplementsCatalog` carries the catalog's properties over to the
composition.

**Assumptions.** Besides the types of constants: `Sources` is finite and amounts are
positive (Billing); the sets of processes are disjoint (Generation); `NoRequest` and
`"none"` are no requests or keys (`TurnsConstants`); an entry outlives a renewal with
its slack, and tenants differ from the shared key (`PermitsAssumption`);
`TouchInterval < IdleTtl` (`SessionConstants`). TLC evaluates all of them in the runs.

**Only model-checked.** The liveness properties: `HoldsSettle`, `RecoverySettles`,
`RowsSettle`, `SentIsHandled`, `ClaimedEnds`, `EndIsShown`, `CapacityReturns`,
`LimitRestored` and `DeletionCompletes` need fairness and ENABLED, which are beyond the
prover. What a recursive definition computes for every input would be out of reach
too; the modules have none.

## 5. Not modelled

Row-lock order outside `Turns` (there a transaction is one action; a deadlock would
abort one of two transactions), payload validation, rounding of token units, bytes
of media, request and response formats of providers, the history sent to a chat
provider, later revisions and policies of the catalog and its read-only queries, the
counters of the login limit, password hashing and token formats, worker readiness,
row level security (all models stay within one tenant), rendering, metrics and audit
rows. `PROJECT.json` lists every component with its reason, and the hazards without
a property with theirs. These are the four of which the code and its documents
promise nothing: generation jobs that wait for an operator, chat requests that stay
queued because their message was given up or their model deactivated, objects that
an overtaken execution left behind, and a login that was authenticated before a
password change and writes its session after it.

## 6. Plan

Done: wallet, generation workflow, delivery, chat with its log and its readers,
permits and results, idempotent turns with their lock order, accounts and sessions,
catalog, voices and admission, with the proofs of section 4. Open, in order of
importance:

1. The login limit's counters, worker readiness, polling of generation jobs by the
   web page.
2. Charges: rounding of token units against a reference definition.
3. Catalog revisions and policies that replace each other while jobs run.
