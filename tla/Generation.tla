----------------------------- MODULE Generation -----------------------------
(***************************************************************************)
(* Durable generation jobs and their holds: the workers that execute them  *)
(* (app/generations/worker.py), the rows they compare-and-swap             *)
(* (app/generations/repository.py), the reconciliation loop that every     *)
(* consumer runs (scripts/generation_consumer.py), video recovery and the  *)
(* operator's resolve-failed command (app/generations/recovery.py).        *)
(*                                                                         *)
(* A database transaction is one action; everything a process keeps        *)
(* between two transactions is in proc.  The sources of module Billing are *)
(* the jobs.                                                               *)
(*                                                                         *)
(* Abstractions: lease_token and fencing_token are renewed together, so    *)
(* one number stands for the pair (0: no lease); lease_expires_at > now is *)
(* the flag "live", lowered by the passing of time; provider request ids,  *)
(* error codes, audit rows, artifacts and timestamps are left out.         *)
(***************************************************************************)
EXTENDS Billing

CONSTANTS
  Workers,      \* DurableGenerationWorker processes
  Reconcilers,  \* reconciliation loops, one per consumer
  Operators,    \* people running the resolve-failed command
  VideoJobs,    \* the jobs whose provider works through tasks
  NoJob,        \* a process that handles no job
  MaxRetries,   \* bound: fence up to which saturation and inconclusive polls happen
  MaxFaults     \* bound: crashes, pauses and failed transactions

Procs == Workers \cup Reconcilers \cup Operators

ASSUME ProcsAssumption ==
  /\ Workers \cap Reconcilers = {}
  /\ Workers \cap Operators = {}
  /\ Reconcilers \cap Operators = {}
ASSUME JobsAssumption == VideoJobs \subseteq Sources /\ NoJob \notin Sources
ASSUME BoundsAssumption == MaxRetries \in Nat /\ MaxFaults \in Nat

VARIABLES
  job,     \* generation_jobs rows
  proc,    \* what each process is about to do, for which job, under which fence
  todo,    \* rows a reconciler selected and has not settled yet
  posted,  \* chargeable requests sent to the provider for each job
  remote,  \* what the provider did with the request
  faults   \* faults so far

genVars == <<job, proc, todo, posted, remote, faults>>
vars == <<genVars, billingVars>>

Leased   == {"reserved", "queued", "submitted", "running", "storing"}
Terminal == {"succeeded", "failed", "cancelled", "expired"}
Statuses == {"none", "accepted", "submitted_unknown"} \cup Leased \cup Terminal

\* Statuses a job has only while no provider request can exist.
PreSubmission == {"none", "accepted", "reserved", "queued"}

ClearsLease == {"accepted", "submitted_unknown"} \cup Terminal

JobRow == [status : Statuses, token : Nat, fence : Nat, live : BOOLEAN,
           recon : {"not_required", "pending", "resolved"},
           task : BOOLEAN, observedFailed : BOOLEAN, usage : Nat \cup {NoAmount}]

NoRow == [status |-> "none", token |-> 0, fence |-> 0, live |-> FALSE,
          recon |-> "not_required", task |-> FALSE, observedFailed |-> FALSE,
          usage |-> NoAmount]

\* The status in the worker's own copy of the job, by what it does next.
LocalStatus ==
  [claimed |-> "reserved", beforeProvider |-> "queued", admission |-> "queued",
   requeue |-> "queued", submit |-> "queued", provider |-> "submitted",
   recordTask |-> "submitted", await |-> "submitted", recordRequest |-> "submitted",
   afterProvider |-> "submitted", run |-> "submitted", store |-> "running",
   beforeCapture |-> "storing", complete |-> "storing", capture |-> "succeeded"]

WorkerPCs == DOMAIN LocalStatus \cup {"idle", "fail", "release"}
ReconcilerPCs == {"stalled", "select", "settle", "releaseExpired", "resolve", "claim",
                  "poll", "recover", "recoverStore", "recoverComplete", "recoverCapture",
                  "abandon", "markFailed", "releaseFailed", "resolveFailed"}
OperatorPCs == {"idle", "markFailed", "releaseFailed", "resolveFailed"}

ProcState == [pc : WorkerPCs \cup ReconcilerPCs, job : Sources \cup {NoJob},
              token : Nat, expected : Statuses, unknown : BOOLEAN]

At(pc) == [pc |-> pc, job |-> NoJob, token |-> 0, expected |-> "none", unknown |-> FALSE]

Home(p) == IF p \in Reconcilers THEN "stalled" ELSE "idle"

Init ==
  /\ BillingInit
  /\ job = [j \in Sources |-> NoRow]
  /\ proc = [p \in Procs |-> At(Home(p))]
  /\ todo = [r \in Reconcilers |-> {}]
  /\ posted = [j \in Sources |-> 0]
  /\ remote = [j \in Sources |-> "none"]
  /\ faults = 0

-----------------------------------------------------------------------------
(* Rows and processes. *)

Row(p) == job[proc[p].job]

\* The predicate of every fenced statement: token, fence and a live lease.
Fenced(p) == Row(p).token = proc[p].token /\ Row(p).live

\* The row the worker's next statement updates is still there.
Matches(w) ==
  LET pc == proc[w].pc IN
  /\ Fenced(w)
  /\ IF pc \in {"beforeProvider", "provider", "await", "afterProvider", "beforeCapture"}
       THEN Row(w).status \in Leased
       ELSE Row(w).status = LocalStatus[pc]
  /\ pc = "recordTask" => ~Row(w).task
  /\ pc = "complete" => Row(w).usage = NoAmount

\* What GenerationRepository.transition writes.
Transit(r, target) ==
  [r EXCEPT !.status = target,
            !.token = IF target \in ClearsLease THEN 0 ELSE @,
            !.live = IF target \in ClearsLease THEN FALSE ELSE @,
            !.recon = IF target = "submitted_unknown" THEN "pending" ELSE @]

SetRow(p, r) == job' = [job EXCEPT ![proc[p].job] = r]

Goto(p, pc) == proc' = [proc EXCEPT ![p].pc = pc]

Done(p) == proc' = [proc EXCEPT ![p] = At(Home(p))]

\* The except clause of _execute_claimed: which row state to write, and
\* whether the provider's outcome is uncertain.
Raise(w, uncertain) ==
  LET local == LocalStatus[proc[w].pc] IN
  proc' = [proc EXCEPT ![w] =
             IF local = "succeeded" THEN At("idle")
             ELSE [@ EXCEPT !.pc = "fail", !.expected = local,
                            !.unknown = (local = "submitted" /\ uncertain)]]

Fault == faults < MaxFaults /\ faults' = faults + 1

-----------------------------------------------------------------------------
(* The API: acceptance and cancellation. *)

\* accept: the job and its hold in one transaction (the outbox row too).
Accept(j, a) ==
  /\ job[j].status = "none"
  /\ Hold(j, a)
  /\ job' = [job EXCEPT ![j].status = "accepted"]
  /\ UNCHANGED <<proc, todo, posted, remote, faults>>

\* Mutant: cancelling frees the hold but not the wallet's projection of it.
CancelFreeingHold(j) ==
  /\ job[j].status = "accepted"
  /\ job' = [job EXCEPT ![j] = [@ EXCEPT !.status = "cancelled", !.recon = "not_required"]]
  /\ resv' = [resv EXCEPT ![j].status = "released"]
  /\ UNCHANGED <<proc, todo, posted, remote, faults, walletStatus, balance, reserved,
                 ledger, credited>>

\* cancel_accepted: the hold is left to the reconciler.
Cancel(j) ==
  /\ job[j].status = "accepted"
  /\ job' = [job EXCEPT ![j] = [@ EXCEPT !.status = "cancelled", !.recon = "not_required"]]
  /\ UNCHANGED <<proc, todo, posted, remote, faults, billingVars>>

-----------------------------------------------------------------------------
(* The worker. *)

\* claim_accepted and claim_next_accepted.
Claim(w, j) ==
  /\ proc[w].pc = "idle"
  /\ job[j].status = "accepted"
  /\ job[j].token = 0
  /\ job' = [job EXCEPT ![j] = [@ EXCEPT !.status = "reserved", !.live = TRUE,
                                         !.fence = job[j].fence + 1,
                                         !.token = job[j].fence + 1]]
  /\ proc' = [proc EXCEPT ![w] = [@ EXCEPT !.pc = "claimed", !.job = j,
                                           !.token = job[j].fence + 1]]
  /\ UNCHANGED <<todo, posted, remote, faults, billingVars>>

\* _transition: the row moves only if the fence still holds.
Transition(w, pc, to, next) ==
  /\ proc[w].pc = pc
  /\ Matches(w)
  /\ SetRow(w, Transit(Row(w), to))
  /\ Goto(w, next)
  /\ UNCHANGED <<todo, posted, remote, faults, billingVars>>

Queue(w)  == Transition(w, "claimed", "queued", "beforeProvider")
Submit(w) == Transition(w, "submit", "submitted", "provider")
Run(w)    == Transition(w, "run", "running", "store")
Store(w)  == Transition(w, "store", "storing", "beforeCapture")

\* ensure_live: extends a lease that has not lapsed.
EnsureLive(w, pc, next) ==
  /\ proc[w].pc = pc
  /\ Matches(w)
  /\ Goto(w, next)
  /\ UNCHANGED <<job, todo, posted, remote, faults, billingVars>>

\* _acquire_admission succeeds.
Admit(w) ==
  /\ proc[w].pc = "admission"
  /\ Goto(w, "submit")
  /\ UNCHANGED <<job, todo, posted, remote, faults, billingVars>>

\* No permit, or Redis is unavailable.
Saturate(w) ==
  /\ proc[w].pc = "admission"
  /\ Row(w).fence < MaxRetries
  /\ Goto(w, "requeue")
  /\ UNCHANGED <<job, todo, posted, remote, faults, billingVars>>

\* _requeue_after_saturation.
Requeue(w) ==
  /\ proc[w].pc = "requeue"
  /\ Matches(w)
  /\ SetRow(w, Transit(Row(w), "accepted"))
  /\ Done(w)
  /\ UNCHANGED <<todo, posted, remote, faults, billingVars>>

\* The provider accepts the request and its answer arrives.
PostAccepted(w) ==
  LET j == proc[w].job IN
  /\ proc[w].pc = "provider"
  /\ posted' = [posted EXCEPT ![j] = @ + 1]
  /\ remote' = [remote EXCEPT ![j] = IF j \in VideoJobs THEN "working" ELSE "succeeded"]
  /\ Goto(w, IF j \in VideoJobs THEN "recordTask" ELSE "recordRequest")
  /\ UNCHANGED <<job, todo, faults, billingVars>>

\* The provider refuses the request with a client error.
PostRefused(w) ==
  /\ proc[w].pc = "provider"
  /\ posted' = [posted EXCEPT ![proc[w].job] = @ + 1]
  /\ remote' = [remote EXCEPT ![proc[w].job] = "failed"]
  /\ Raise(w, FALSE)
  /\ UNCHANGED <<job, todo, faults, billingVars>>

\* The answer is lost; the request may or may not have had an effect.
PostAnswerLost(w) ==
  LET j == proc[w].job IN
  /\ proc[w].pc = "provider"
  /\ posted' = [posted EXCEPT ![j] = @ + 1]
  /\ \E effect \in {"none", IF j \in VideoJobs THEN "working" ELSE "succeeded"} :
       remote' = [remote EXCEPT ![j] = effect]
  /\ Raise(w, TRUE)
  /\ UNCHANGED <<job, todo, faults, billingVars>>

\* record_provider_task.
RecordTask(w) ==
  /\ proc[w].pc = "recordTask"
  /\ Matches(w)
  /\ SetRow(w, [Row(w) EXCEPT !.task = TRUE])
  /\ Goto(w, "await")
  /\ UNCHANGED <<todo, posted, remote, faults, billingVars>>

\* wait_for_video returns a finished task, or takes the job for failed: so it does
\* with a 4xx answer and with the status UNKNOWN too, which say nothing of the task.
AwaitVideo(w) ==
  /\ proc[w].pc = "await"
  /\ \/ remote[proc[w].job] = "succeeded" /\ Goto(w, "recordRequest")
     \/ Raise(w, FALSE)
  /\ UNCHANGED <<job, todo, posted, remote, faults, billingVars>>

\* wait_for_video gives up.
AwaitTimesOut(w) ==
  /\ proc[w].pc = "await"
  /\ remote[proc[w].job] = "working"
  /\ Raise(w, TRUE)
  /\ UNCHANGED <<job, todo, posted, remote, faults, billingVars>>

\* _record_provider_request and the transfer of the artifacts.
RecordRequest(w) ==
  /\ proc[w].pc = "recordRequest"
  /\ Matches(w)
  /\ Goto(w, "afterProvider")
  /\ UNCHANGED <<job, todo, posted, remote, faults, billingVars>>

\* complete: artifacts, usage with its charge, and the terminal status.
Completed(r, c) ==
  [r EXCEPT !.status = "succeeded", !.usage = c, !.token = 0, !.live = FALSE,
            !.recon = "not_required"]

\* Mutant: a completion that found no row is taken for one that did.
CompleteUnchecked(w) ==
  /\ proc[w].pc = "complete"
  /\ IF Matches(w) THEN \E c \in Charges \ {0} : SetRow(w, Completed(Row(w), c))
                   ELSE UNCHANGED job
  /\ Goto(w, "capture")
  /\ UNCHANGED <<todo, posted, remote, faults, billingVars>>

CompleteJob(w) ==
  /\ proc[w].pc = "complete"
  /\ Matches(w)
  /\ \E c \in Charges \ {0} : SetRow(w, Completed(Row(w), c))
  /\ Goto(w, "capture")
  /\ UNCHANGED <<todo, posted, remote, faults, billingVars>>

\* billing.capture; an error after completion leaves the hold to the
\* reconciler.
CaptureHold(w) ==
  /\ proc[w].pc = "capture"
  /\ LET j == proc[w].job IN
       \/ Capture(j, job[j].usage)
       \/ CaptureOutcome(j, job[j].usage) # "captured" /\ UNCHANGED billingVars
  /\ Done(w)
  /\ UNCHANGED <<job, todo, posted, remote, faults>>

\* A fenced statement of the worker, or the lease guard that watches the
\* provider call, finds no row to update.
Rejected(w) ==
  /\ proc[w].pc \in {"claimed", "beforeProvider", "requeue", "submit", "provider",
                     "recordTask", "await", "recordRequest", "afterProvider", "run",
                     "store", "beforeCapture", "complete"}
  /\ ~Matches(w)
  /\ Raise(w, TRUE)
  /\ UNCHANGED <<job, todo, posted, remote, faults, billingVars>>

\* _fail: a transition whose own failure is swallowed.
Fail(w) ==
  /\ proc[w].pc = "fail"
  /\ \/ /\ Fenced(w)
        /\ Row(w).status = proc[w].expected
        /\ SetRow(w, Transit(Row(w), IF proc[w].unknown THEN "submitted_unknown" ELSE "failed"))
     \/ /\ ~(Fenced(w) /\ Row(w).status = proc[w].expected)
        /\ UNCHANGED job
  /\ IF proc[w].unknown THEN Done(w) ELSE Goto(w, "release")
  /\ UNCHANGED <<todo, posted, remote, faults, billingVars>>

\* _release_quietly.
ReleaseHold(w) ==
  /\ proc[w].pc = "release"
  /\ \/ Release(proc[w].job)
     \/ ReleaseOutcome(proc[w].job) # "released" /\ UNCHANGED billingVars
  /\ Done(w)
  /\ UNCHANGED <<job, todo, posted, remote, faults>>

\* A transaction, the provider resolver, a permit renewal or a transfer fails
\* and changes nothing.
WorkerError(w) ==
  /\ Fault
  /\ proc[w].pc # "idle"
  /\ IF proc[w].pc \in DOMAIN LocalStatus THEN Raise(w, TRUE)
     ELSE IF proc[w].pc = "fail" /\ ~proc[w].unknown THEN Goto(w, "release")
     ELSE Done(w)
  /\ UNCHANGED <<job, todo, posted, remote, billingVars>>

WorkerStep(w) ==
  \/ Queue(w) \/ Submit(w) \/ Run(w) \/ Store(w)
  \/ EnsureLive(w, "beforeProvider", "admission")
  \/ EnsureLive(w, "afterProvider", "run")
  \/ EnsureLive(w, "beforeCapture", "complete")
  \/ Admit(w) \/ Saturate(w) \/ Requeue(w)
  \/ PostAccepted(w) \/ PostRefused(w) \/ PostAnswerLost(w)
  \/ RecordTask(w) \/ AwaitVideo(w) \/ AwaitTimesOut(w) \/ RecordRequest(w)
  \/ CompleteJob(w) \/ CaptureHold(w)
  \/ Rejected(w) \/ Fail(w) \/ ReleaseHold(w)

-----------------------------------------------------------------------------
(* The reconciliation loop: _reconcile of the consumer runs the stalled    *)
(* pass, the settlement pass and one video recovery, and starts over when  *)
(* any of them raises.                                                     *)

\* Mutant: a stalled job is offered to the workers again.
UnstalledForRetry(r) ==
  [r EXCEPT !.status = "accepted", !.token = 0, !.live = FALSE, !.recon = "not_required"]

\* reconcile_stalled_once on one row.
Unstalled(r) ==
  IF r.status \in {"reserved", "queued"}
    THEN [r EXCEPT !.status = "failed", !.token = 0, !.live = FALSE, !.recon = "not_required"]
    ELSE [r EXCEPT !.status = "submitted_unknown", !.token = 0, !.live = FALSE,
                   !.recon = "pending"]

ReconcileStalled(p) ==
  /\ proc[p].pc = "stalled"
  /\ job' = [j \in Sources |-> IF job[j].status \in Leased /\ ~job[j].live
                                 THEN Unstalled(job[j]) ELSE job[j]]
  /\ Goto(p, "select")
  /\ UNCHANGED <<todo, posted, remote, faults, billingVars>>

\* Mutant: the selection forgets to ask for terminal jobs.
SelectAnyStatus(p) ==
  /\ proc[p].pc = "select"
  /\ todo' = [todo EXCEPT ![p] = {j \in Sources : resv[j].status = "pending"}]
  /\ Goto(p, "settle")
  /\ UNCHANGED <<job, posted, remote, faults, billingVars>>

\* Mutant: the selection leaves out cancelled jobs.
SelectButCancelled(p) ==
  /\ proc[p].pc = "select"
  /\ todo' = [todo EXCEPT ![p] = {j \in Sources : /\ resv[j].status = "pending"
                                                  /\ job[j].status \in Terminal \ {"cancelled"}}]
  /\ Goto(p, "settle")
  /\ UNCHANGED <<job, posted, remote, faults, billingVars>>

\* reconcile_once selects the pending holds of terminal jobs ...
Select(p) ==
  /\ proc[p].pc = "select"
  /\ todo' = [todo EXCEPT ![p] = {j \in Sources : /\ resv[j].status = "pending"
                                                  /\ job[j].status \in Terminal}]
  /\ Goto(p, "settle")
  /\ UNCHANGED <<job, posted, remote, faults, billingVars>>

SelectionDone(p) ==
  /\ proc[p].pc = "settle"
  /\ todo[p] = {}
  /\ Goto(p, "claim")
  /\ UNCHANGED <<job, todo, posted, remote, faults, billingVars>>

\* ... and settles them one by one; the order is left open.
Settled1(p, j) ==
  /\ todo' = [todo EXCEPT ![p] = @ \ {j}]
  /\ proc' = [proc EXCEPT ![p] = At("settle")]

\* The pass raises: the loop suppresses the error and starts over.
Restart(p) ==
  /\ todo' = [todo EXCEPT ![p] = {}]
  /\ Done(p)

\* A succeeded job: _capture_or_release_expired.
SettleSucceeded(p, j) ==
  /\ proc[p].pc = "settle"
  /\ j \in todo[p]
  /\ job[j].status = "succeeded"
  /\ job[j].usage # NoAmount
  /\ LET outcome == CaptureOutcome(j, job[j].usage) IN
       \/ Capture(j, job[j].usage) /\ Settled1(p, j)
       \/ outcome = "idempotent" /\ Settled1(p, j) /\ UNCHANGED billingVars
       \/ /\ outcome = "RESERVATION_EXPIRED"
          /\ proc' = [proc EXCEPT ![p] = [@ EXCEPT !.pc = "releaseExpired", !.job = j]]
          /\ UNCHANGED <<todo, billingVars>>
       \/ /\ outcome \notin {"captured", "idempotent", "RESERVATION_EXPIRED"}
          /\ Restart(p)
          /\ UNCHANGED billingVars
  /\ UNCHANGED <<job, posted, remote, faults>>

ReleaseExpired(p) ==
  /\ proc[p].pc = "releaseExpired"
  /\ LET j == proc[p].job IN
       \/ Release(j) /\ Settled1(p, j)
       \/ ReleaseOutcome(j) = "idempotent" /\ Settled1(p, j) /\ UNCHANGED billingVars
       \/ /\ ReleaseOutcome(j) \notin {"released", "idempotent"}
          /\ Restart(p)
          /\ UNCHANGED billingVars
  /\ UNCHANGED <<job, posted, remote, faults>>

\* Any other terminal job: release, then close a pending reconciliation.
SettleUnsuccessful(p, j) ==
  /\ proc[p].pc = "settle"
  /\ j \in todo[p]
  /\ job[j].status # "succeeded"
  /\ \/ /\ ReleaseOutcome(j) \in {"released", "idempotent"}
        /\ \/ Release(j)
           \/ ReleaseOutcome(j) = "idempotent" /\ UNCHANGED billingVars
        /\ IF job[j].status = "failed" /\ job[j].recon = "pending"
             THEN /\ proc' = [proc EXCEPT ![p] = [@ EXCEPT !.pc = "resolve", !.job = j]]
                  /\ UNCHANGED todo
             ELSE Settled1(p, j)
     \/ /\ ReleaseOutcome(j) \notin {"released", "idempotent"}
        /\ Restart(p)
        /\ UNCHANGED billingVars
  /\ UNCHANGED <<job, posted, remote, faults>>

\* _mark_reconciliation_resolved.
MarkResolved(p) ==
  /\ proc[p].pc = "resolve"
  /\ SetRow(p, [Row(p) EXCEPT !.recon = IF @ = "pending" THEN "resolved" ELSE @])
  /\ Settled1(p, proc[p].job)
  /\ UNCHANGED <<posted, remote, faults, billingVars>>

-----------------------------------------------------------------------------
(* Video recovery: GenerationVideoRecoveryWorker.run_once. *)

\* Mutant: a claim whose holder died is never taken over.
RecoverableUnclaimed(j) ==
  /\ job[j].status = "submitted_unknown"
  /\ job[j].recon = "pending"
  /\ j \in VideoJobs
  /\ job[j].task
  /\ job[j].token = 0

Recoverable(j) ==
  /\ job[j].status = "submitted_unknown"
  /\ job[j].recon = "pending"
  /\ j \in VideoJobs
  /\ job[j].task
  /\ job[j].token = 0 \/ ~job[j].live

\* Mutant: the claim reuses the fence of the worker.
ClaimRecoverySameFence(p, j) ==
  /\ proc[p].pc = "claim"
  /\ Recoverable(j)
  /\ job' = [job EXCEPT ![j] = [@ EXCEPT !.live = TRUE, !.token = job[j].fence]]
  /\ proc' = [proc EXCEPT ![p] = [@ EXCEPT !.pc = "poll", !.job = j, !.token = job[j].fence]]
  /\ UNCHANGED <<todo, posted, remote, faults, billingVars>>

\* claim_pending_reconciliation.
ClaimRecovery(p, j) ==
  /\ proc[p].pc = "claim"
  /\ Recoverable(j)
  /\ job' = [job EXCEPT ![j] = [@ EXCEPT !.live = TRUE, !.fence = job[j].fence + 1,
                                         !.token = job[j].fence + 1]]
  /\ proc' = [proc EXCEPT ![p] = [@ EXCEPT !.pc = "poll", !.job = j,
                                           !.token = job[j].fence + 1]]
  /\ UNCHANGED <<todo, posted, remote, faults, billingVars>>

NothingToRecover(p) ==
  /\ proc[p].pc = "claim"
  /\ \A j \in Sources : ~Recoverable(j)
  /\ Done(p)
  /\ UNCHANGED <<job, todo, posted, remote, faults, billingVars>>

\* recover_video asks the provider for the task; the status UNKNOWN, whatever the
\* task does, is taken for a failure.
PollTask(p) ==
  /\ proc[p].pc = "poll"
  /\ \/ remote[proc[p].job] = "succeeded" /\ Goto(p, "recover")
     \/ Goto(p, "markFailed")
     \/ /\ remote[proc[p].job] = "working"
        /\ Row(p).fence < MaxRetries
        /\ Goto(p, "abandon")
  /\ UNCHANGED <<job, todo, posted, remote, faults, billingVars>>

RecoverTo(p, pc, from, to, next) ==
  /\ proc[p].pc = pc
  /\ IF Fenced(p) /\ Row(p).status = from
       THEN SetRow(p, Transit(Row(p), to)) /\ Goto(p, next)
       ELSE UNCHANGED job /\ Goto(p, "abandon")
  /\ UNCHANGED <<todo, posted, remote, faults, billingVars>>

Recover(p)      == RecoverTo(p, "recover", "submitted_unknown", "running", "recoverStore")
RecoverStore(p) == RecoverTo(p, "recoverStore", "running", "storing", "recoverComplete")

RecoverComplete(p) ==
  /\ proc[p].pc = "recoverComplete"
  /\ IF Fenced(p) /\ Row(p).status = "storing" /\ Row(p).usage = NoAmount
       THEN /\ \E c \in Charges \ {0} : SetRow(p, Completed(Row(p), c))
            /\ Goto(p, "recoverCapture")
       ELSE UNCHANGED job /\ Goto(p, "abandon")
  /\ UNCHANGED <<todo, posted, remote, faults, billingVars>>

RecoverCapture(p) ==
  /\ proc[p].pc = "recoverCapture"
  /\ LET j == proc[p].job IN
       \/ Capture(j, job[j].usage)
       \/ CaptureOutcome(j, job[j].usage) # "captured" /\ UNCHANGED billingVars
  /\ Done(p)
  /\ UNCHANGED <<job, todo, posted, remote, faults>>

\* release_reconciliation_claim; the loop starts over either way.
Abandon(p) ==
  /\ proc[p].pc = "abandon"
  /\ IF /\ Row(p).status = "submitted_unknown"
        /\ Row(p).recon = "pending"
        /\ Row(p).token = proc[p].token
       THEN SetRow(p, [Row(p) EXCEPT !.token = 0, !.live = FALSE])
       ELSE UNCHANGED job
  /\ Done(p)
  /\ UNCHANGED <<todo, posted, remote, faults, billingVars>>

-----------------------------------------------------------------------------
(* resolve_failed, run by an operator or by video recovery. *)

\* Mutant: the hold is released before the row is marked.
OperatorReleasesFirst(o, j) ==
  /\ proc[o].pc = "idle"
  /\ job[j].recon = "pending"
  /\ job[j].status \in {"submitted_unknown", "failed"}
  /\ proc' = [proc EXCEPT ![o] = [@ EXCEPT !.pc = "releaseFailed", !.job = j]]
  /\ UNCHANGED <<job, todo, posted, remote, faults, billingVars>>

\* An operator picks a job that list_pending shows.
OperatorStarts(o, j) ==
  /\ proc[o].pc = "idle"
  /\ job[j].recon = "pending"
  /\ job[j].status \in {"submitted_unknown", "failed"}
  /\ proc' = [proc EXCEPT ![o] = [@ EXCEPT !.pc = "markFailed", !.job = j]]
  /\ UNCHANGED <<job, todo, posted, remote, faults, billingVars>>

\* How the caller goes on when resolve_failed raises.
GiveUp(p) == IF p \in Reconcilers THEN Goto(p, "abandon") ELSE Done(p)

MarkFailed(p) ==
  /\ proc[p].pc = "markFailed"
  /\ \/ /\ Row(p).status = "submitted_unknown" /\ Row(p).recon = "pending"
        /\ SetRow(p, [Row(p) EXCEPT !.status = "failed", !.observedFailed = TRUE,
                                    !.token = 0, !.live = FALSE])
        /\ Goto(p, "releaseFailed")
     \/ /\ Row(p).status = "failed" /\ Row(p).observedFailed
        /\ \/ Row(p).recon = "pending" /\ Goto(p, "releaseFailed")
           \/ Row(p).recon = "resolved" /\ Done(p)
        /\ UNCHANGED job
     \/ /\ ~(Row(p).status = "submitted_unknown" /\ Row(p).recon = "pending")
        /\ ~(Row(p).status = "failed" /\ Row(p).observedFailed
             /\ Row(p).recon \in {"pending", "resolved"})
        /\ GiveUp(p)
        /\ UNCHANGED job
  /\ UNCHANGED <<todo, posted, remote, faults, billingVars>>

\* Mutant: the hold is forgotten.
ReleaseFailedSkipped(p) ==
  /\ proc[p].pc = "releaseFailed"
  /\ Goto(p, "resolveFailed")
  /\ UNCHANGED <<job, todo, posted, remote, faults, billingVars>>

ReleaseFailed(p) ==
  /\ proc[p].pc = "releaseFailed"
  /\ LET outcome == ReleaseOutcome(proc[p].job) IN
       \/ Release(proc[p].job) /\ Goto(p, "resolveFailed")
       \/ outcome = "idempotent" /\ Goto(p, "resolveFailed") /\ UNCHANGED billingVars
       \/ outcome \notin {"released", "idempotent"} /\ GiveUp(p) /\ UNCHANGED billingVars
  /\ UNCHANGED <<job, todo, posted, remote, faults>>

ResolveFailed(p) ==
  /\ proc[p].pc = "resolveFailed"
  /\ \/ /\ Row(p).recon = "resolved"
        /\ Done(p)
        /\ UNCHANGED job
     \/ /\ Row(p).recon = "pending" /\ Row(p).status = "failed"
        /\ SetRow(p, [Row(p) EXCEPT !.recon = "resolved"])
        /\ Done(p)
     \/ /\ Row(p).recon # "resolved"
        /\ ~(Row(p).recon = "pending" /\ Row(p).status = "failed")
        /\ GiveUp(p)
        /\ UNCHANGED job
  /\ UNCHANGED <<todo, posted, remote, faults, billingVars>>

ResolveStep(p) == MarkFailed(p) \/ ReleaseFailed(p) \/ ResolveFailed(p)

ReconcilerStep(p) ==
  \/ ReconcileStalled(p) \/ Select(p) \/ SelectionDone(p)
  \/ \E j \in Sources : SettleSucceeded(p, j) \/ SettleUnsuccessful(p, j)
  \/ ReleaseExpired(p) \/ MarkResolved(p)
  \/ \E j \in Sources : ClaimRecovery(p, j)
  \/ NothingToRecover(p) \/ PollTask(p)
  \/ Recover(p) \/ RecoverStore(p) \/ RecoverComplete(p) \/ RecoverCapture(p)
  \/ Abandon(p) \/ ResolveStep(p)

\* A transaction or a provider call of the loop fails and changes nothing.
ReconcilerError(p) ==
  /\ Fault
  /\ proc[p].pc # "stalled"
  /\ todo' = [todo EXCEPT ![p] = {}]
  /\ IF proc[p].pc \in {"poll", "recover", "recoverStore", "recoverComplete",
                        "recoverCapture", "markFailed", "releaseFailed", "resolveFailed"}
       THEN Goto(p, "abandon")
       ELSE Done(p)
  /\ UNCHANGED <<job, posted, remote, billingVars>>

-----------------------------------------------------------------------------
(* The environment. *)

\* A process dies and restarts; only its memory is lost.
Crash(p) ==
  /\ Fault
  /\ proc[p].pc # Home(p)
  /\ Done(p)
  /\ todo' = [r \in Reconcilers |-> IF r = p THEN {} ELSE todo[r]]
  /\ UNCHANGED <<job, posted, remote, billingVars>>

HeldBy(p, j) == proc[p].job = j /\ proc[p].token = job[j].token

\* The lease of a process that is gone runs out.
OrphanLeaseLapses(j) ==
  /\ job[j].live
  /\ \A p \in Procs : ~HeldBy(p, j)
  /\ job' = [job EXCEPT ![j].live = FALSE]
  /\ UNCHANGED <<proc, todo, posted, remote, faults, billingVars>>

\* A process takes longer than its lease: a worker that pauses, or a video
\* recovery, which does not renew its claim.
HolderPauses(j) ==
  /\ Fault
  /\ job[j].live
  /\ \E p \in Procs : HeldBy(p, j)
  /\ job' = [job EXCEPT ![j].live = FALSE]
  /\ UNCHANGED <<proc, todo, posted, remote, billingVars>>

\* The provider finishes a task.
ProviderFinishes(j) ==
  /\ remote[j] = "working"
  /\ \E outcome \in {"succeeded", "failed"} : remote' = [remote EXCEPT ![j] = outcome]
  /\ UNCHANGED <<job, proc, todo, posted, faults, billingVars>>

HoldExpires(j) == HoldLapses(j) /\ UNCHANGED genVars

Credit(g) == Grant(g) /\ UNCHANGED genVars

Next ==
  \/ \E j \in Sources : \E a \in Amounts : Accept(j, a)
  \/ \E j \in Sources : Cancel(j) \/ OrphanLeaseLapses(j) \/ HolderPauses(j)
                        \/ ProviderFinishes(j) \/ HoldExpires(j)
  \/ \E g \in Grants : Credit(g)
  \/ \E w \in Workers : \E j \in Sources : Claim(w, j)
  \/ \E w \in Workers : WorkerStep(w) \/ WorkerError(w)
  \/ \E p \in Reconcilers : ReconcilerStep(p) \/ ReconcilerError(p)
  \/ \E o \in Operators : \E j \in Sources : OperatorStarts(o, j)
  \/ \E o \in Operators : ResolveStep(o)
  \/ \E p \in Procs : Crash(p)

Spec == Init /\ [][Next]_vars

\* Processes that run take their next step, orphaned leases and holds run
\* out with time, and the provider finishes what it works on.
Fairness ==
  /\ \A w \in Workers : WF_vars(WorkerStep(w))
  /\ \A p \in Reconcilers : WF_vars(ReconcilerStep(p))
  /\ \A j \in Sources : /\ WF_vars(OrphanLeaseLapses(j))
                        /\ WF_vars(HoldExpires(j))
                        /\ WF_vars(ProviderFinishes(j))

FairSpec == Spec /\ Fairness

-----------------------------------------------------------------------------
(* Properties. *)

\* Type invariant: rows, processes and counters keep their types.
GenTypeOK ==
  /\ BillingTypeOK
  /\ job \in [Sources -> JobRow]
  /\ proc \in [Procs -> ProcState]
  /\ \A w \in Workers : proc[w].pc \in WorkerPCs
  /\ \A p \in Reconcilers : proc[p].pc \in ReconcilerPCs
  /\ \A o \in Operators : proc[o].pc \in OperatorPCs
  /\ todo \in [Reconcilers -> SUBSET Sources]
  /\ posted \in [Sources -> Nat]
  /\ remote \in [Sources -> {"none", "working", "succeeded", "failed"}]
  /\ faults \in 0..MaxFaults

\* A job's chargeable provider request is sent at most once, whatever
\* crashes, lapsed leases, redeliveries, requeues and reconciliations happen:
\* the compare-and-swap to "submitted" comes before the request.
AtMostOneSubmission == \A j \in Sources : posted[j] <= 1

\* The fence of a row admits one process at a time: after a lease lapsed and
\* was taken over, the former holder cannot write any more.
LeaseExclusive ==
  \A p, q \in Procs : \A j \in Sources :
    (proc[p].job = j /\ proc[q].job = j /\ Fenced(p) /\ Fenced(q)) => p = q

\* A hold is charged only for a succeeded job, by the amount its usage row
\* records.
ChargedOnlyOnSuccess ==
  \A j \in Sources : resv[j].status = "committed" =>
    job[j].status = "succeeded" /\ resv[j].captured = job[j].usage

\* A reconciliation marked resolved left a failed job whose hold was given back.
ResolvedMeansReleased ==
  \A j \in Sources : job[j].recon = "resolved" =>
    job[j].status = "failed" /\ resv[j].status = "released"

\* While no process crashed, paused or failed, a succeeded job loses its hold
\* uncharged only if the hold had lapsed: operators, video recovery and the
\* settlement pass do not release what another of them completes.
SuccessIsCharged ==
  \A j \in Sources :
    (faults = 0 /\ job[j].status = "succeeded" /\ resv[j].status = "released") => resv[j].lapsed

\* The hold is pending when a job is submitted to the provider.
SubmitStep ==
  \A j \in Sources : job[j].status # "submitted" /\ job'[j].status = "submitted" =>
    resv[j].status = "pending"
SubmitCovered == [][SubmitStep]_vars

\* Submission is one-way and the end is final: a job that left the statuses
\* before submission never returns to them, a terminal job never changes
\* status, and no fence is issued twice.
OneWayStep ==
  \A j \in Sources :
    /\ job[j].status \notin PreSubmission => job'[j].status \notin PreSubmission
    /\ job[j].status \in Terminal => job'[j].status = job[j].status
    /\ job'[j].fence >= job[j].fence
SubmissionIsOneWay == [][OneWayStep]_vars

\* The hold of a terminal job is eventually settled by the reconciliation
\* loop, whoever crashed after the job ended.
HoldsSettle ==
  \A j \in Sources : job[j].status \in Terminal ~> resv[j].status \in Settled

\* A video job whose outcome is unknown and whose task is recorded reaches an
\* end without an operator.
RecoverySettles ==
  \A j \in VideoJobs :
    (job[j].status = "submitted_unknown" /\ job[j].task) ~> job[j].status \in Terminal


=============================================================================
