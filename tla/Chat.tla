-------------------------------- MODULE Chat --------------------------------
(***************************************************************************)
(* Durable chat: the requests of one conversation, the workers that stream *)
(* a provider's answer into the event log (app/conversations/worker.py and *)
(* execution_repository.py), the user's stop (repository.py), and the loop *)
(* of every consumer that reconciles expired leases and holds              *)
(* (scripts/chat_consumer.py, billing_adapter.py).                         *)
(*                                                                         *)
(* A database transaction is one action; what a worker keeps between two   *)
(* transactions is in worker.  The sources of module Billing are the       *)
(* requests.                                                               *)
(*                                                                         *)
(* Abstractions: one conversation; every claim draws a fresh lease token,  *)
(* modelled by counting the claims of a request (0: no lease);             *)
(* lease_expires_at > now is the flag "live"; an event is its type; the    *)
(* message row changes with its request and is left out, and so are error  *)
(* codes, provider request ids and notifications, which are only hints.    *)
(***************************************************************************)
EXTENDS Billing, Sequences

CONSTANTS
  Workers,      \* DurableChatWorker processes
  Reconcilers,  \* loops that reconcile leases and holds
  NoRequest,    \* no active request; a worker without a request
  MaxDeltas,    \* bound: deltas in one answer
  MaxClaims,    \* bound: claims of one request up to which saturation happens
  MaxFaults     \* bound: crashes and failed transactions

ASSUME ChatConstants ==
  /\ NoRequest \notin Sources
  /\ MaxDeltas \in Nat /\ MaxClaims \in Nat /\ MaxFaults \in Nat

VARIABLES
  req,      \* inference_requests
  active,   \* conversations.active_inference_request_id
  log,      \* chat_stream_events: the event types of each request
  worker,   \* what each worker is about to do
  loop,     \* what each reconciler is about to do
  todo,     \* holds a reconciler selected and has not settled yet
  posted,   \* requests sent to the provider
  outcome,  \* what is known of the provider's answer
  faults    \* faults so far

chatVars == <<req, active, log, worker, loop, todo, posted, outcome, faults>>
vars == <<chatVars, billingVars>>

Executing == {"running", "stop_requested"}
Open      == {"queued"} \cup Executing
Ended     == {"succeeded", "failed", "stopped"}
Terminal  == Ended \cup {"submitted_unknown"}

RequestRow == [status : {"none"} \cup Open \cup Terminal, token : Nat, claims : Nat,
               live : BOOLEAN, seq : Int, usage : Nat \cup {NoAmount}]

NoRow == [status |-> "none", token |-> 0, claims |-> 0, live |-> FALSE,
          seq |-> -1, usage |-> NoAmount]

Phases == {"before", "admitted", "sent"}

WorkerPCs == {"idle", "check", "admission", "requeue", "recheck", "post", "chunks",
              "chunk", "blank", "delta", "final", "complete", "capture",
              "stop", "fail", "unknown", "release"}

\* seq is the worker's copy of last_event_sequence; whole is true once the
\* provider's stream has ended with every chunk stored.
WorkerState == [pc : WorkerPCs, req : Sources \cup {NoRequest}, token : Nat,
                seq : Int, phase : Phases, whole : BOOLEAN]

Idle == [pc |-> "idle", req |-> NoRequest, token |-> 0, seq |-> -1,
         phase |-> "before", whole |-> FALSE]

Init ==
  /\ BillingInit
  /\ req = [r \in Sources |-> NoRow]
  /\ active = NoRequest
  /\ log = [r \in Sources |-> <<>>]
  /\ worker = [w \in Workers |-> Idle]
  /\ loop = [p \in Reconcilers |-> [pc |-> "expired", req |-> NoRequest]]
  /\ todo = [p \in Reconcilers |-> {}]
  /\ posted = [r \in Sources |-> 0]
  /\ outcome = [r \in Sources |-> "none"]
  /\ faults = 0

-----------------------------------------------------------------------------
(* Rows and workers. *)

Row(w) == req[worker[w].req]

\* _locked_request: the row under this worker's token.
Owns(w) == Row(w).token = worker[w].token

Goto(w, pc) == worker' = [worker EXCEPT ![w].pc = pc]

Leave(w) == worker' = [worker EXCEPT ![w] = Idle]

\* _locked_writable_request.
Writable(w, statuses) ==
  /\ Owns(w)
  /\ Row(w).status \in statuses
  /\ Row(w).seq = worker[w].seq
  /\ Row(w).live

\* The row of a request that ends: its lease is cleared, its event is counted.
Closed(q, status, usage) ==
  [status |-> status, token |-> 0, claims |-> q.claims, live |-> FALSE,
   seq |-> q.seq + 1, usage |-> usage]

\* The end of a request: status, event and the conversation's active request
\* in one transaction.
End(r, status, event) ==
  /\ req' = [req EXCEPT ![r] = Closed(@, status, @.usage)]
  /\ log' = [log EXCEPT ![r] = Append(@, event)]
  /\ active' = NoRequest

-----------------------------------------------------------------------------
(* The API. *)

\* submit and regenerate: request, hold, first event and active request (and
\* the outbox row) in one transaction, under the lock of the conversation.
Submit(r, a) ==
  /\ active = NoRequest
  /\ req[r].status = "none"
  /\ Hold(r, a)
  /\ req' = [req EXCEPT ![r] = [@ EXCEPT !.status = "queued", !.seq = 0]]
  /\ log' = [log EXCEPT ![r] = <<"started">>]
  /\ active' = r
  /\ UNCHANGED <<worker, loop, todo, posted, outcome, faults>>

\* stop of a request nobody claimed: it ends here, and its hold is left to
\* the reconcilers.
StopQueued(r) ==
  /\ active = r
  /\ req[r].status = "queued"
  /\ End(r, "stopped", "stopped")
  /\ UNCHANGED <<worker, loop, todo, posted, outcome, faults, billingVars>>

\* stop of a claimed request records the intent.  (Its other branches change
\* nothing: a request which ended is not active, as Turns checks, and repeating
\* a stop rewrites the same status.)
StopRunning(r) ==
  /\ active = r
  /\ req[r].status = "running"
  /\ req' = [req EXCEPT ![r].status = "stop_requested"]
  /\ UNCHANGED <<active, log, worker, loop, todo, posted, outcome, faults, billingVars>>

-----------------------------------------------------------------------------
(* The worker, up to the provider. *)

\* claim_queued.
Claim(w, r) ==
  /\ worker[w].pc = "idle"
  /\ req[r].status = "queued"
  /\ req' = [req EXCEPT ![r] = [@ EXCEPT !.status = "running", !.live = TRUE,
                                         !.claims = req[r].claims + 1,
                                         !.token = req[r].claims + 1]]
  /\ worker' = [worker EXCEPT ![w] = [pc |-> "check", req |-> r, token |-> req[r].claims + 1,
                                      seq |-> req[r].seq, phase |-> "before", whole |-> FALSE]]
  /\ UNCHANGED <<active, log, loop, todo, posted, outcome, faults, billingVars>>

\* check_lease_and_stop.
Valid(w) == Owns(w) /\ Row(w).status \in Executing /\ Row(w).live

CheckThen(w, ok, stop, invalid) ==
  \/ Valid(w) /\ Row(w).status = "running" /\ ok
  \/ Valid(w) /\ Row(w).status = "stop_requested" /\ stop
  \/ ~Valid(w) /\ invalid

\* _stop_if_requested before and after admission.
CheckStop(w) ==
  /\ \/ /\ worker[w].pc = "check"
        /\ CheckThen(w, Goto(w, "admission"), Goto(w, "stop"), Leave(w))
     \/ /\ worker[w].pc = "recheck"
        /\ CheckThen(w, worker' = [worker EXCEPT ![w] = [@ EXCEPT !.pc = "post",
                                                                  !.phase = "sent"]],
                     Goto(w, "stop"), Leave(w))
  /\ UNCHANGED <<req, active, log, loop, todo, posted, outcome, faults, billingVars>>

\* The history or the routing configuration cannot be turned into a request.
RejectHistory(w) ==
  /\ worker[w].pc = "admission"
  /\ Goto(w, "fail")
  /\ UNCHANGED <<req, active, log, loop, todo, posted, outcome, faults, billingVars>>

Admit(w) ==
  /\ worker[w].pc = "admission"
  /\ worker' = [worker EXCEPT ![w] = [@ EXCEPT !.pc = "recheck", !.phase = "admitted"]]
  /\ UNCHANGED <<req, active, log, loop, todo, posted, outcome, faults, billingVars>>

\* No permit, or Redis is unavailable.
Saturate(w) ==
  /\ worker[w].pc = "admission"
  /\ Row(w).claims < MaxClaims
  /\ Goto(w, "requeue")
  /\ UNCHANGED <<req, active, log, loop, todo, posted, outcome, faults, billingVars>>

\* Mutant: the requeue overwrites a stop.
RequeueAnyStatus(w) ==
  /\ worker[w].pc = "requeue"
  /\ req' = [req EXCEPT ![worker[w].req] = [@ EXCEPT !.status = "queued", !.token = 0,
                                                     !.live = FALSE]]
  /\ Leave(w)
  /\ UNCHANGED <<active, log, loop, todo, posted, outcome, faults, billingVars>>

\* requeue_claimed; the worker raises either way and the message is requeued.
Requeue(w) ==
  /\ worker[w].pc = "requeue"
  /\ IF Owns(w) /\ Row(w).status = "running"
       THEN req' = [req EXCEPT ![worker[w].req] =
                      [@ EXCEPT !.status = "queued", !.token = 0, !.live = FALSE]]
       ELSE UNCHANGED req
  /\ Leave(w)
  /\ UNCHANGED <<active, log, loop, todo, posted, outcome, faults, billingVars>>

-----------------------------------------------------------------------------
(* The provider's stream: _consume_stream. *)

Knows(w, o) == outcome' = [outcome EXCEPT ![worker[w].req] = o]

\* The request is sent on the first iteration; it is accepted, refused, or
\* nothing definite is known of it.
Post(w) ==
  /\ worker[w].pc = "post"
  /\ posted' = [posted EXCEPT ![worker[w].req] = @ + 1]
  /\ \/ Goto(w, "chunks") /\ Knows(w, "accepted")
     \/ Goto(w, "fail") /\ Knows(w, "refused")
     \/ Goto(w, "unknown") /\ Knows(w, "uncertain")
  /\ UNCHANGED <<req, active, log, loop, todo, faults, billingVars>>

\* The next chunk, with or without a delta.
NextChunk(w) ==
  /\ worker[w].pc = "chunks"
  /\ \/ worker[w].seq < MaxDeltas /\ Goto(w, "chunk")
     \/ Goto(w, "blank")
  /\ UNCHANGED <<req, active, log, loop, todo, posted, outcome, faults, billingVars>>

\* The stream ends, or a transport or protocol error or the loss of the permit
\* breaks it off.
StreamEnds(w) ==
  /\ worker[w].pc = "chunks"
  /\ \/ /\ worker' = [worker EXCEPT ![w] = [@ EXCEPT !.pc = "final", !.whole = TRUE]]
        /\ UNCHANGED outcome
     \/ Goto(w, "unknown") /\ Knows(w, "uncertain")
  /\ UNCHANGED <<req, active, log, loop, todo, posted, faults, billingVars>>

\* Every chunk renews the lease and asks for a stop.
CheckChunk(w) ==
  /\ \/ /\ worker[w].pc = "chunk"
        /\ CheckThen(w, Goto(w, "delta"), Goto(w, "stop"), Goto(w, "final"))
     \/ /\ worker[w].pc = "blank"
        /\ CheckThen(w, Goto(w, "chunks"), Goto(w, "stop"), Goto(w, "final"))
  /\ UNCHANGED <<req, active, log, loop, todo, posted, outcome, faults, billingVars>>

\* append_delta; a refused delta ends the loop.
AppendDelta(w) ==
  /\ worker[w].pc = "delta"
  /\ \/ /\ Writable(w, {"running"})
        /\ req' = [req EXCEPT ![worker[w].req].seq = @ + 1]
        /\ log' = [log EXCEPT ![worker[w].req] = Append(@, "delta")]
        /\ worker' = [worker EXCEPT ![w] = [@ EXCEPT !.pc = "chunks", !.seq = Row(w).seq + 1]]
     \/ ~Writable(w, {"running"}) /\ Goto(w, "final") /\ UNCHANGED <<req, log>>
  /\ UNCHANGED <<active, loop, todo, posted, outcome, faults, billingVars>>

-----------------------------------------------------------------------------
(* The worker, after the provider. *)

FinalCheck(w) ==
  /\ worker[w].pc = "final"
  /\ CheckThen(w, Goto(w, "complete"), Goto(w, "stop"), Leave(w))
  /\ UNCHANGED <<req, active, log, loop, todo, posted, outcome, faults, billingVars>>

\* Mutant: a stop that arrived after the last check is ignored.
CompleteStopped(w) ==
  LET r == worker[w].req IN
  /\ worker[w].pc = "complete"
  /\ Owns(w)
  /\ \E c \in Charges :
       req' = [req EXCEPT ![r] = Closed(@, "succeeded", c)]
  /\ log' = [log EXCEPT ![r] = Append(@, "completed")]
  /\ active' = NoRequest
  /\ Goto(w, "capture")
  /\ UNCHANGED <<loop, todo, posted, outcome, faults, billingVars>>

\* mark_completed writes the usage row too; a request that was stopped in the
\* meantime is left as it is.
Complete(w) ==
  LET r == worker[w].req IN
  /\ worker[w].pc = "complete"
  /\ \/ /\ Writable(w, {"running"})
        /\ \E c \in Charges :
             req' = [req EXCEPT ![r] = Closed(@, "succeeded", c)]
        /\ log' = [log EXCEPT ![r] = Append(@, "completed")]
        /\ active' = NoRequest
        /\ Goto(w, "capture")
     \/ ~Writable(w, {"running"}) /\ Leave(w) /\ UNCHANGED <<req, log, active>>
  /\ UNCHANGED <<loop, todo, posted, outcome, faults, billingVars>>

\* Mutant: the estimate is captured instead of the charge.
CaptureEstimate(w) ==
  LET r == worker[w].req IN
  /\ worker[w].pc = "capture"
  /\ \/ Capture(r, resv[r].amount)
     \/ CaptureOutcome(r, resv[r].amount) # "captured" /\ UNCHANGED billingVars
  /\ Leave(w)
  /\ UNCHANGED <<req, active, log, loop, todo, posted, outcome, faults>>

CaptureHold(w) ==
  LET r == worker[w].req IN
  /\ worker[w].pc = "capture"
  /\ \/ Capture(r, req[r].usage)
     \/ CaptureOutcome(r, req[r].usage) # "captured" /\ UNCHANGED billingVars
  /\ Leave(w)
  /\ UNCHANGED <<req, active, log, loop, todo, posted, outcome, faults>>

\* _terminal_without_usage: the request ends if its row is still writable.
EndIf(w, statuses, status, event, next) ==
  /\ \/ /\ Writable(w, statuses)
        /\ End(worker[w].req, status, event)
        /\ next
     \/ ~Writable(w, statuses) /\ Leave(w) /\ UNCHANGED <<req, log, active>>
  /\ UNCHANGED <<loop, todo, posted, outcome, faults, billingVars>>

\* Mutant: the hold is released whether or not the row was marked.
MarkFailedReleasing(w) ==
  /\ worker[w].pc = "fail"
  /\ \/ /\ Writable(w, Executing)
        /\ End(worker[w].req, "failed", "failed")
     \/ ~Writable(w, Executing) /\ UNCHANGED <<req, log, active>>
  /\ Goto(w, "release")
  /\ UNCHANGED <<loop, todo, posted, outcome, faults, billingVars>>

MarkStopped(w) ==
  worker[w].pc = "stop" /\ EndIf(w, Executing, "stopped", "stopped", Goto(w, "release"))

MarkFailed(w) ==
  worker[w].pc = "fail" /\ EndIf(w, Executing, "failed", "failed", Goto(w, "release"))

MarkUnknown(w) ==
  worker[w].pc = "unknown" /\ EndIf(w, {"running"}, "submitted_unknown", "failed", Leave(w))

ReleaseHold(w) ==
  /\ worker[w].pc = "release"
  /\ \/ Release(worker[w].req)
     \/ ReleaseOutcome(worker[w].req) # "released" /\ UNCHANGED billingVars
  /\ Leave(w)
  /\ UNCHANGED <<req, active, log, loop, todo, posted, outcome, faults>>

\* A transaction fails and changes nothing: the except clauses of
\* _execute_claimed while a permit is held, the consumer otherwise.
WorkerError(w) ==
  /\ faults < MaxFaults
  /\ faults' = faults + 1
  /\ worker[w].pc \notin {"idle", "admission", "post", "chunks"}
  /\ IF worker[w].pc \in {"capture", "fail", "unknown", "release"} \/ worker[w].phase = "before"
       THEN Leave(w) /\ UNCHANGED outcome
       ELSE IF worker[w].phase = "sent"
              THEN Goto(w, "unknown") /\ Knows(w, "uncertain")
              ELSE Goto(w, "fail") /\ UNCHANGED outcome
  /\ UNCHANGED <<req, active, log, loop, todo, posted, billingVars>>

WorkerStep(w) ==
  \/ CheckStop(w) \/ RejectHistory(w) \/ Admit(w) \/ Saturate(w) \/ Requeue(w)
  \/ Post(w) \/ NextChunk(w) \/ StreamEnds(w) \/ CheckChunk(w) \/ AppendDelta(w)
  \/ FinalCheck(w) \/ Complete(w) \/ CaptureHold(w)
  \/ MarkStopped(w) \/ MarkFailed(w) \/ MarkUnknown(w) \/ ReleaseHold(w)

-----------------------------------------------------------------------------
(* The reconciliation loop of every consumer. *)

At(p, pc) == loop' = [loop EXCEPT ![p] = [pc |-> pc, req |-> NoRequest]]

\* Mutant: lapsed leases are looked for among running requests only.
LapsedRunning(r) == req[r].status = "running" /\ ~req[r].live

Lapsed(r) == req[r].status \in Executing /\ ~req[r].live

\* Mutant: a running request whose lease lapsed is queued again.
ReconcileExpiredRetrying(p) ==
  /\ loop[p].pc = "expired"
  /\ IF active \in Sources /\ Lapsed(active)
       THEN req' = [req EXCEPT ![active].status = "queued"]
       ELSE UNCHANGED req
  /\ At(p, "select")
  /\ UNCHANGED <<log, active, worker, todo, posted, outcome, faults, billingVars>>

\* reconcile_expired_once; only the active request can be executing.
ReconcileExpired(p) ==
  /\ loop[p].pc = "expired"
  /\ \/ /\ active \in Sources
        /\ Lapsed(active)
        /\ IF req[active].status = "running"
             THEN End(active, "submitted_unknown", "failed")
             ELSE End(active, "stopped", "stopped")
     \/ /\ ~(active \in Sources /\ Lapsed(active))
        /\ UNCHANGED <<req, log, active>>
  /\ At(p, "select")
  /\ UNCHANGED <<worker, todo, posted, outcome, faults, billingVars>>

\* reconcile_once selects the pending holds of requests that ended ...
Select(p) ==
  /\ loop[p].pc = "select"
  /\ todo' = [todo EXCEPT ![p] = {r \in Sources : /\ resv[r].status = "pending"
                                                  /\ req[r].status \in Ended}]
  /\ At(p, "settle")
  /\ UNCHANGED <<req, active, log, worker, posted, outcome, faults, billingVars>>

SelectionDone(p) ==
  /\ loop[p].pc = "settle"
  /\ todo[p] = {}
  /\ At(p, "expired")
  /\ UNCHANGED <<req, active, log, worker, todo, posted, outcome, faults, billingVars>>

\* ... and settles them one by one; when a call raises, the pass is over.
Done1(p, r) == todo' = [todo EXCEPT ![p] = @ \ {r}] /\ At(p, "settle")

Restart(p) == todo' = [todo EXCEPT ![p] = {}] /\ At(p, "expired")

SettleSucceeded(p, r) ==
  /\ loop[p].pc = "settle"
  /\ r \in todo[p]
  /\ req[r].status = "succeeded"
  /\ LET result == CaptureOutcome(r, req[r].usage) IN
       \/ Capture(r, req[r].usage) /\ Done1(p, r)
       \/ result = "idempotent" /\ Done1(p, r) /\ UNCHANGED billingVars
       \/ /\ result = "RESERVATION_EXPIRED"
          /\ loop' = [loop EXCEPT ![p] = [pc |-> "releaseExpired", req |-> r]]
          /\ UNCHANGED <<todo, billingVars>>
       \/ /\ result \notin {"captured", "idempotent", "RESERVATION_EXPIRED"}
          /\ Restart(p)
          /\ UNCHANGED billingVars
  /\ UNCHANGED <<req, active, log, worker, posted, outcome, faults>>

ReleaseOrRestart(p, r) ==
  /\ \/ Release(r) /\ Done1(p, r)
     \/ ReleaseOutcome(r) = "idempotent" /\ Done1(p, r) /\ UNCHANGED billingVars
     \/ /\ ReleaseOutcome(r) \notin {"released", "idempotent"}
        /\ Restart(p)
        /\ UNCHANGED billingVars
  /\ UNCHANGED <<req, active, log, worker, posted, outcome, faults>>

ReleaseExpired(p) == loop[p].pc = "releaseExpired" /\ ReleaseOrRestart(p, loop[p].req)

SettleUnsuccessful(p, r) ==
  /\ loop[p].pc = "settle"
  /\ r \in todo[p]
  /\ req[r].status # "succeeded"
  /\ ReleaseOrRestart(p, r)

ReconcilerStep(p) ==
  \/ ReconcileExpired(p) \/ Select(p) \/ SelectionDone(p) \/ ReleaseExpired(p)
  \/ \E r \in Sources : SettleSucceeded(p, r) \/ SettleUnsuccessful(p, r)

-----------------------------------------------------------------------------
(* The environment. *)

Crash(w) ==
  /\ faults < MaxFaults
  /\ faults' = faults + 1
  /\ worker[w].pc # "idle"
  /\ Leave(w)
  /\ UNCHANGED <<req, active, log, loop, todo, posted, outcome, billingVars>>

\* A lease is renewed by chunks only, so it may lapse under a slow provider.
LeaseLapses(r) ==
  /\ req[r].live
  /\ req' = [req EXCEPT ![r].live = FALSE]
  /\ UNCHANGED <<active, log, worker, loop, todo, posted, outcome, faults, billingVars>>

Orphaned(r) == \A w \in Workers : ~(worker[w].req = r /\ worker[w].token = req[r].token)

HoldExpires(r) == HoldLapses(r) /\ UNCHANGED chatVars

Credit(g) == Grant(g) /\ UNCHANGED chatVars

Next ==
  \/ \E r \in Sources : \E a \in Amounts : Submit(r, a)
  \/ \E r \in Sources : StopQueued(r) \/ StopRunning(r) \/ LeaseLapses(r) \/ HoldExpires(r)
  \/ \E g \in Grants : Credit(g)
  \/ \E w \in Workers : \E r \in Sources : Claim(w, r)
  \/ \E w \in Workers : WorkerStep(w) \/ WorkerError(w) \/ Crash(w)
  \/ \E p \in Reconcilers : ReconcilerStep(p)

Spec == Init /\ [][Next]_vars

\* Workers that run take their next step, and loops go on; a provider's answer
\* is finite and its client times out, so every stream ends; leases nobody
\* renews, and holds, run out with time.
Fairness ==
  /\ \A w \in Workers : WF_vars(WorkerStep(w)) /\ SF_vars(StreamEnds(w))
  /\ \A p \in Reconcilers : WF_vars(ReconcilerStep(p))
  /\ \A r \in Sources : /\ WF_vars(Orphaned(r) /\ LeaseLapses(r))
                        /\ WF_vars(HoldExpires(r))

FairSpec == Spec /\ Fairness

-----------------------------------------------------------------------------
(* Properties. *)

\* Type invariant of rows, log, workers and loops.
ChatTypeOK ==
  /\ BillingTypeOK
  /\ req \in [Sources -> RequestRow]
  /\ active \in Sources \cup {NoRequest}
  /\ worker \in [Workers -> WorkerState]
  /\ loop \in [Reconcilers -> [pc : {"expired", "select", "settle", "releaseExpired"},
                               req : Sources \cup {NoRequest}]]
  /\ todo \in [Reconcilers -> SUBSET Sources]
  /\ posted \in [Sources -> Nat]
  /\ outcome \in [Sources -> {"none", "accepted", "refused", "uncertain"}]
  /\ faults \in 0 .. MaxFaults

\* The event log that readers replay: this module implements ChatLog.
Log == INSTANCE ChatLog WITH Requests <- Sources,
                             ended <- [r \in Sources |-> req[r].status \in Terminal]

ImplementsLog == Log!LogSpec

\* The chargeable request is sent to the provider at most once.
AtMostOnePost == \A r \in Sources : posted[r] <= 1

\* "submitted_unknown ... retain the billing hold": no worker that lost its
\* lease, and no reconciler, settles the hold of a request whose outcome is
\* unknown.
UnknownKeepsHold ==
  \A r \in Sources : req[r].status = "submitted_unknown" => resv[r].status = "pending"

\* Only a completed answer is charged, at the charge of its usage row.
ChargedOnlyIfCompleted ==
  \A r \in Sources : resv[r].status = "committed" =>
    req[r].status = "succeeded" /\ resv[r].captured = req[r].usage

\* An answer is marked completed only by a worker that has seen the end of the
\* provider's stream and stored every delta: leaving the loop early, because
\* the lease lapsed or a delta was refused, never completes a partial answer.
WholeStep ==
  \A r \in Sources : (req[r].status # "succeeded" /\ req'[r].status = "succeeded") =>
    \E w \in Workers : worker[w].req = r /\ worker[w].whole /\ req[r].status = "running"
WholeAnswer == [][WholeStep]_vars

\* A request that was claimed or has ended does not keep its conversation and
\* its hold for ever, even if its worker dies, is stopped or loses its lease:
\* it is queued again, recorded as of unknown outcome, or its hold is settled.
ClaimedEnds ==
  \A r \in Sources :
    req[r].status \in Executing \cup Ended ~>
      req[r].status \in {"queued", "submitted_unknown"} \/ resv[r].status \in Settled

=============================================================================
