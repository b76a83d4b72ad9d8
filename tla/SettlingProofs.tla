--------------------------- MODULE SettlingProofs ---------------------------
(***************************************************************************)
(* Proofs about how the generation workflow settles a job: who releases or *)
(* captures its hold, and when its reconciliation may be resolved, for any *)
(* number of jobs, workers, reconciliation loops, operators and faults.    *)
(***************************************************************************)
EXTENDS GenerationProofs

-----------------------------------------------------------------------------
(* The steps are classified once more, by what they do to the lease and    *)
(* the status of a row and to the worker that holds it.                    *)

\* Statuses of a job on its way to the provider.
Early == PreSubmission \cup {"submitted"}

\* What transition does to the status and the lease of a row.
LEMMA TransitFields ==
  ASSUME NEW r \in JobRow, NEW t \in Statuses
  PROVE  /\ Transit(r, t).status = t
         /\ t \in ClearsLease => Transit(r, t).token = 0
         /\ t \notin ClearsLease => Transit(r, t).token = r.token /\ Transit(r, t).live = r.live
         /\ Transit(r, t).recon = "resolved" => r.recon = "resolved"
<1>1. /\ Transit(r, t).status = t
      /\ Transit(r, t).token = IF t \in ClearsLease THEN 0 ELSE r.token
      /\ Transit(r, t).live = IF t \in ClearsLease THEN FALSE ELSE r.live
      /\ Transit(r, t).recon = IF t = "submitted_unknown" THEN "pending" ELSE r.recon
  BY DEF Transit, JobRow
<1>2. t \notin ClearsLease => Transit(r, t).token = r.token /\ Transit(r, t).live = r.live
  BY <1>1, Zenon
<1>3. t \in ClearsLease => Transit(r, t).token = 0
  BY <1>1, Zenon
<1>4. Transit(r, t).recon = "pending" \/ Transit(r, t).recon = r.recon
  BY <1>1, Zenon
<1>5. "pending" # "resolved"
  OBVIOUS
<1> QED
  BY <1>1, <1>2, <1>3, <1>4, <1>5, Zenon

\* What complete and the stalled pass do to a row.
LEMMA RowFields ==
  ASSUME NEW r \in JobRow
  PROVE  /\ \A c \in Charges : /\ Completed(r, c).status = "succeeded"
                               /\ Completed(r, c).recon = "not_required"
         /\ Unstalled(r).status \notin Early
         /\ Unstalled(r).recon # "resolved"
<1>1. \A c \in Charges : /\ Completed(r, c).status = "succeeded"
                         /\ Completed(r, c).recon = "not_required"
  BY DEF Completed, JobRow
<1>2. Unstalled(r).status \notin Early /\ Unstalled(r).recon # "resolved"
  BY DEF Unstalled, JobRow, PreSubmission, Early
<1> QED
  BY <1>1, <1>2, Zenon

\* What the moves of a process do to its fields.
LEMMA ProcFields ==
  ASSUME ProcsOK, NEW p \in Procs
  PROVE  /\ \A pc : Goto(p, pc) =>
              /\ proc'[p].pc = pc /\ proc'[p].job = proc[p].job /\ proc'[p].token = proc[p].token
              /\ proc'[p].expected = proc[p].expected
              /\ \A q \in Procs : q # p => proc'[q] = proc[q]
         /\ Done(p) =>
              /\ proc'[p].pc = Home(p) /\ \A q \in Procs : q # p => proc'[q] = proc[q]
         /\ \A u \in BOOLEAN : Raise(p, u) =>
              /\ \/ LocalStatus[proc[p].pc] = "succeeded" /\ proc'[p].pc = "idle"
                 \/ /\ LocalStatus[proc[p].pc] # "succeeded"
                    /\ proc'[p].pc = "fail" /\ proc'[p].job = proc[p].job
                    /\ proc'[p].token = proc[p].token /\ proc'[p].expected = LocalStatus[proc[p].pc]
              /\ \A q \in Procs : q # p => proc'[q] = proc[q]
<1>0. proc \in [Procs -> ProcState] /\ proc[p] \in ProcState
  BY DEF ProcsOK
<1>1. ASSUME NEW pc, Goto(p, pc)
      PROVE  /\ proc'[p].pc = pc /\ proc'[p].job = proc[p].job /\ proc'[p].token = proc[p].token
             /\ proc'[p].expected = proc[p].expected
             /\ \A q \in Procs : q # p => proc'[q] = proc[q]
  BY <1>0, <1>1 DEF Goto, ProcState
<1>2. ASSUME Done(p)
      PROVE  proc'[p].pc = Home(p) /\ \A q \in Procs : q # p => proc'[q] = proc[q]
  BY <1>0, <1>2 DEF Done, At
<1>3. ASSUME NEW u \in BOOLEAN, Raise(p, u)
      PROVE  /\ \/ LocalStatus[proc[p].pc] = "succeeded" /\ proc'[p].pc = "idle"
                \/ /\ LocalStatus[proc[p].pc] # "succeeded"
                   /\ proc'[p].pc = "fail" /\ proc'[p].job = proc[p].job
                   /\ proc'[p].token = proc[p].token /\ proc'[p].expected = LocalStatus[proc[p].pc]
             /\ \A q \in Procs : q # p => proc'[q] = proc[q]
  <2> DEFINE local == LocalStatus[proc[p].pc]
             r == [proc[p] EXCEPT !.pc = "fail", !.expected = local,
                                  !.unknown = (local = "submitted" /\ u)]
             s == IF local = "succeeded" THEN At("idle") ELSE r
  <2>1. proc' = [proc EXCEPT ![p] = s]
    BY <1>0, <1>3 DEF Raise
  <2>2. At("idle").pc = "idle"
    BY DEF At
  <2>3. r.pc = "fail" /\ r.job = proc[p].job /\ r.token = proc[p].token /\ r.expected = local
    BY <1>0 DEF ProcState
  <2> HIDE DEF r, local
  <2>4. /\ \/ local = "succeeded" /\ s.pc = "idle"
           \/ /\ local # "succeeded"
              /\ s.pc = "fail" /\ s.job = proc[p].job
              /\ s.token = proc[p].token /\ s.expected = local
    BY <2>2, <2>3
  <2> HIDE DEF s
  <2>5. proc'[p] = s /\ \A q \in Procs : q # p => proc'[q] = proc[q]
    BY <1>0, <2>1
  <2> QED
    BY <2>4, <2>5, Zenon DEF local
<1> QED
  BY <1>1, <1>2, <1>3, Zenon

\* A row whose status and lease are left as they are.
Same(r, s) == s.status = r.status /\ s.token = r.token /\ s.live = r.live

\* The worker's own writes.
OwnWrite(w) == Queue(w) \/ Submit(w) \/ Run(w) \/ Store(w) \/ Requeue(w) \/ CompleteJob(w) \/ Fail(w)

\* What can happen to the status and the lease of a row.
RowEvent(j) ==
  \/ Same(job[j], job'[j])
  \/ \E a \in Amounts : Accept(j, a)
  \/ Cancel(j)
  \/ \E w \in Workers : Claim(w, j)
  \/ \E w \in Workers : proc[w].job = j /\ Fenced(w) /\ OwnWrite(w)
  \/ /\ job[j].status = "submitted_unknown" \/ (job[j].status \in Leased /\ ~job[j].live)
     /\ job'[j].status \notin Early
  \/ /\ \E p \in Reconcilers : proc[p].job = j /\ Fenced(p)
     /\ job[j].status \in {"running", "storing"}
     /\ job'[j].status \notin Early
  \/ (OrphanLeaseLapses(j) \/ HolderPauses(j))

\* When one row is replaced, only that row has an event.
LEMMA OneRowEvent ==
  ASSUME ProcsOK, NEW x \in Sources, NEW r, job' = [job EXCEPT ![x] = r],
         job'[x] = r => RowEvent(x)
  PROVE  \A j \in Sources : RowEvent(j)
<1>1. job'[x] = r /\ \A j \in Sources : j # x => job'[j] = job[j]
  BY DEF ProcsOK
<1>2. ASSUME NEW j \in Sources, j # x PROVE RowEvent(j)
  <2>1. Same(job[j], job'[j])
    BY <1>1, <1>2 DEF Same
  <2> QED
    BY <2>1, Zenon DEF RowEvent
<1> QED
  BY <1>1, <1>2, Zenon

\* The worker's steps.
LEMMA WorkerRowEvents ==
  ASSUME ProcsOK, NEW w \in Workers, WorkerStep(w) \/ WorkerError(w)
  PROVE  \A j \in Sources : RowEvent(j)
<1>1. w \in Procs /\ (proc[w].pc # "idle" => proc[w].job \in Sources)
  BY DEF Procs, ProcsOK, Resting, WorkerPCs, LocalStatus
<1>2. ASSUME UNCHANGED job PROVE \A j \in Sources : RowEvent(j)
  BY <1>2, Zenon DEF RowEvent, Same
<1>3. ASSUME proc[w].pc # "idle", Fenced(w), OwnWrite(w), NEW r, SetRow(w, r)
      PROVE  \A j \in Sources : RowEvent(j)
  <2>1. RowEvent(proc[w].job)
    BY <1>3, Zenon DEF RowEvent
  <2> QED
    BY <1>1, <1>3, <2>1, OneRowEvent, Zenon DEF SetRow
<1>4. CASE Queue(w) \/ Submit(w) \/ Run(w) \/ Store(w)
  <2>1. \E pc, to, next : Transition(w, pc, to, next) /\ pc # "idle"
    BY <1>4 DEF Queue, Submit, Run, Store
  <2>2. Fenced(w) /\ proc[w].pc # "idle" /\ \E r : SetRow(w, r)
    BY <2>1, Zenon DEF Transition, Matches
  <2> QED BY <1>3, <1>4, <2>2, Zenon DEF OwnWrite
<1>5. CASE Requeue(w) \/ CompleteJob(w)
  <2>1. Fenced(w) /\ proc[w].pc # "idle"
    BY <1>5 DEF Requeue, CompleteJob, Matches
  <2>2. \E r : SetRow(w, r)
    BY <1>5, Zenon DEF Requeue, CompleteJob
  <2> QED BY <1>3, <1>5, <2>1, <2>2, Zenon DEF OwnWrite
<1>6. CASE Fail(w)
  <2>1. proc[w].pc # "idle"
    BY <1>6 DEF Fail
  <2> QED BY <1>2, <1>3, <1>6, <2>1, Zenon DEF OwnWrite, Fail
<1>7. CASE RecordTask(w)
  <2>1. proc[w].job \in Sources /\ job[proc[w].job] \in JobRow
    BY <1>1, <1>7 DEF RecordTask, ProcsOK
  <2> DEFINE r == [job[proc[w].job] EXCEPT !.task = TRUE]
  <2>2. Same(job[proc[w].job], r)
    BY <2>1 DEF Same, JobRow
  <2>3. job' = [job EXCEPT ![proc[w].job] = r]
    BY <1>7 DEF RecordTask, SetRow, Row
  <2> HIDE DEF r
  <2> QED BY <2>1, <2>2, <2>3, OneRowEvent, Zenon DEF RowEvent
<1> QED
  BY <1>2, <1>4, <1>5, <1>6, <1>7, Zenon
  DEF WorkerStep, WorkerError, EnsureLive, Admit, Saturate, PostAccepted, PostRefused, PostAnswerLost,
      AwaitVideo, AwaitTimesOut, RecordRequest, CaptureHold, Rejected, ReleaseHold

\* The steps of resolve_failed.
LEMMA ResolveRowEvents ==
  ASSUME ProcsOK, NEW p \in Procs, ResolveStep(p)
  PROVE  \A j \in Sources : RowEvent(j)
<1>1. proc[p].job \in Sources /\ job[proc[p].job] \in JobRow
  BY DEF ProcsOK, Resting, ResolveStep, MarkFailed, ReleaseFailed, ResolveFailed
<1>2. ASSUME UNCHANGED job PROVE \A j \in Sources : RowEvent(j)
  BY <1>2, Zenon DEF RowEvent, Same
<1>3. ASSUME Row(p).status = "submitted_unknown",
             SetRow(p, [Row(p) EXCEPT !.status = "failed", !.observedFailed = TRUE,
                                      !.token = 0, !.live = FALSE])
      PROVE  \A j \in Sources : RowEvent(j)
  <2> DEFINE r == [job[proc[p].job] EXCEPT !.status = "failed", !.observedFailed = TRUE,
                                           !.token = 0, !.live = FALSE]
  <2>1. r.status \notin Early
    BY <1>1 DEF JobRow, PreSubmission, Early
  <2>2. job' = [job EXCEPT ![proc[p].job] = r] /\ job[proc[p].job].status = "submitted_unknown"
    BY <1>3 DEF SetRow, Row
  <2> HIDE DEF r
  <2> QED
    BY <1>1, <2>1, <2>2, OneRowEvent, Zenon DEF RowEvent
<1>4. ASSUME SetRow(p, [Row(p) EXCEPT !.recon = "resolved"])
      PROVE  \A j \in Sources : RowEvent(j)
  <2> DEFINE r == [job[proc[p].job] EXCEPT !.recon = "resolved"]
  <2>1. Same(job[proc[p].job], r)
    BY <1>1 DEF Same, JobRow
  <2>2. job' = [job EXCEPT ![proc[p].job] = r]
    BY <1>4 DEF SetRow, Row
  <2> HIDE DEF r
  <2> QED
    BY <1>1, <2>1, <2>2, OneRowEvent, Zenon DEF RowEvent
<1> QED
  BY <1>2, <1>3, <1>4, Zenon DEF ResolveStep, MarkFailed, ReleaseFailed, ResolveFailed

\* The steps of a reconciliation loop.
LEMMA ReconcilerRowEvents ==
  ASSUME ProcsOK, NEW p \in Reconcilers, ReconcilerStep(p) \/ ReconcilerError(p)
  PROVE  \A j \in Sources : RowEvent(j)
<1>1. p \in Procs /\ (proc[p].pc \notin Resting =>
                        proc[p].job \in Sources /\ job[proc[p].job] \in JobRow)
  BY Zenon DEF Procs, ProcsOK
<1>2. ASSUME UNCHANGED job PROVE \A j \in Sources : RowEvent(j)
  BY <1>2, Zenon DEF RowEvent, Same
<1>3. CASE ReconcileStalled(p)
  <2>1. ASSUME NEW j \in Sources PROVE RowEvent(j)
    <3>1. CASE job[j].status \in Leased /\ ~job[j].live
      <4>1. job'[j] = Unstalled(job[j]) /\ job[j] \in JobRow
        BY <1>3, <3>1 DEF ReconcileStalled, ProcsOK
      <4>2. job'[j].status \notin Early
        BY <4>1, RowFields, Zenon
      <4> QED BY <3>1, <4>2, Zenon DEF RowEvent
    <3>2. CASE ~(job[j].status \in Leased /\ ~job[j].live)
      <4>1. job'[j] = job[j]
        BY <1>3, <3>2 DEF ReconcileStalled
      <4> QED BY <4>1, Zenon DEF RowEvent, Same
    <3> QED BY <3>1, <3>2
  <2> QED BY <2>1
<1>4. CASE MarkResolved(p)
  <2>1. proc[p].job \in Sources /\ job[proc[p].job] \in JobRow
    BY <1>1, <1>4 DEF MarkResolved, Resting
  <2> DEFINE r == [job[proc[p].job] EXCEPT !.recon = IF @ = "pending" THEN "resolved" ELSE @]
  <2>2. Same(job[proc[p].job], r)
    BY <2>1 DEF Same, JobRow
  <2>3. job' = [job EXCEPT ![proc[p].job] = r]
    BY <1>4 DEF MarkResolved, SetRow, Row
  <2> HIDE DEF r
  <2> QED BY <2>1, <2>2, <2>3, OneRowEvent, Zenon DEF RowEvent
<1>5. ASSUME NEW j \in Sources, ClaimRecovery(p, j) PROVE \A k \in Sources : RowEvent(k)
  <2> DEFINE r == [job[j] EXCEPT !.live = TRUE, !.fence = job[j].fence + 1,
                                 !.token = job[j].fence + 1]
  <2>1. job[j].status = "submitted_unknown" /\ job[j] \in JobRow
    BY <1>5 DEF ClaimRecovery, Recoverable, ProcsOK
  <2>2. r.status \notin Early
    BY <2>1 DEF JobRow, PreSubmission, Early
  <2>3. job' = [job EXCEPT ![j] = r]
    BY <1>5 DEF ClaimRecovery
  <2> HIDE DEF r
  <2> QED BY <2>1, <2>2, <2>3, OneRowEvent, Zenon DEF RowEvent
<1>6. ASSUME NEW pc, NEW from, NEW to, NEW next, RecoverTo(p, pc, from, to, next),
             pc \notin Resting, from \in {"submitted_unknown", "running"},
             to \in {"running", "storing"}
      PROVE  \A k \in Sources : RowEvent(k)
  <2>1. proc[p].job \in Sources /\ job[proc[p].job] \in JobRow
    BY <1>1, <1>6 DEF RecoverTo
  <2>2. to \in Statuses /\ to \notin Early
    BY <1>6 DEF Statuses, Leased, PreSubmission, Early
  <2>3. Transit(job[proc[p].job], to).status \notin Early
    BY <2>1, <2>2, TransitFields, Zenon
  <2>4. CASE Fenced(p) /\ Row(p).status = from
    <3>1. job' = [job EXCEPT ![proc[p].job] = Transit(job[proc[p].job], to)]
      BY <1>6, <2>4, Zenon DEF RecoverTo, SetRow, Row
    <3>2. job[proc[p].job].status \in {"submitted_unknown", "running"}
      BY <1>6, <2>4 DEF Row
    <3> QED BY <2>1, <2>3, <2>4, <3>1, <3>2, OneRowEvent, Zenon DEF RowEvent
  <2> QED BY <1>2, <1>6, <2>4, Zenon DEF RecoverTo
<1>7. CASE Recover(p) \/ RecoverStore(p)
  BY <1>6, <1>7 DEF Recover, RecoverStore, Resting
<1>8. CASE RecoverComplete(p)
  <2>1. proc[p].job \in Sources /\ job[proc[p].job] \in JobRow
    BY <1>1, <1>8 DEF RecoverComplete, Resting
  <2>2. ASSUME Fenced(p), Row(p).status = "storing", NEW c \in Charges \ {0},
               SetRow(p, Completed(Row(p), c))
        PROVE  \A k \in Sources : RowEvent(k)
    <3>1. job' = [job EXCEPT ![proc[p].job] = Completed(job[proc[p].job], c)]
      BY <2>2 DEF SetRow, Row
    <3>2. Completed(job[proc[p].job], c).status = "succeeded"
      BY <2>1, RowFields, Zenon
    <3>3. Completed(job[proc[p].job], c).status \notin Early
      BY <3>2 DEF PreSubmission, Early
    <3>4. job[proc[p].job].status \in {"running", "storing"}
      BY <2>2 DEF Row
    <3> QED BY <2>1, <2>2, <3>1, <3>3, <3>4, OneRowEvent, Zenon DEF RowEvent
  <2> QED BY <1>2, <1>8, <2>2, Zenon DEF RecoverComplete
<1>9. CASE Abandon(p)
  <2>1. proc[p].job \in Sources /\ job[proc[p].job] \in JobRow
    BY <1>1, <1>9 DEF Abandon, Resting
  <2>2. ASSUME Row(p).status = "submitted_unknown",
               SetRow(p, [Row(p) EXCEPT !.token = 0, !.live = FALSE])
        PROVE  \A k \in Sources : RowEvent(k)
    <3> DEFINE r == [job[proc[p].job] EXCEPT !.token = 0, !.live = FALSE]
    <3>1. r.status \notin Early /\ job[proc[p].job].status = "submitted_unknown"
      BY <2>1, <2>2 DEF JobRow, PreSubmission, Early, Row
    <3>2. job' = [job EXCEPT ![proc[p].job] = r]
      BY <2>2 DEF SetRow, Row
    <3> HIDE DEF r
    <3> QED BY <2>1, <3>1, <3>2, OneRowEvent, Zenon DEF RowEvent
  <2> QED BY <1>2, <1>9, <2>2, Zenon DEF Abandon
<1> QED
  BY <1>1, <1>2, <1>3, <1>4, <1>5, <1>7, <1>8, <1>9, ResolveRowEvents, Zenon
  DEF ReconcilerStep, ReconcilerError, Select, SelectionDone, SettleSucceeded,
      SettleUnsuccessful, ReleaseExpired, NothingToRecover, PollTask, RecoverCapture

\* Every step changes the lease and the status of a row in one of the ways
\* RowEvent lists.
LEMMA NextRowEvents ==
  ASSUME ProcsOK, Next
  PROVE  \A j \in Sources : RowEvent(j)
<1>1. ASSUME UNCHANGED job PROVE \A j \in Sources : RowEvent(j)
  BY <1>1, Zenon DEF RowEvent, Same
<1>2. ASSUME NEW x \in Sources,
             \/ \E a \in Amounts : Accept(x, a)
             \/ Cancel(x) \/ OrphanLeaseLapses(x) \/ HolderPauses(x)
             \/ \E w \in Workers : Claim(w, x)
      PROVE  \A j \in Sources : RowEvent(j)
  <2>1. RowEvent(x)
    BY <1>2, Zenon DEF RowEvent
  <2>2. \E r : job' = [job EXCEPT ![x] = r]
    BY <1>2, Zenon DEF Accept, Cancel, OrphanLeaseLapses, HolderPauses, Claim
  <2> QED
    BY <2>1, <2>2, OneRowEvent, Zenon
<1>3. \A o \in Operators : o \in Procs
  BY DEF Procs
<1> QED
  BY <1>1, <1>2, <1>3, WorkerRowEvents, ReconcilerRowEvents, ResolveRowEvents, Zenon
  DEF Next, ProviderFinishes, HoldExpires, Credit, genVars, OperatorStarts, Crash

\* A settled hold stays settled and a lapsed one lapsed; a pending hold ends by
\* the capture of a succeeded job or by a process that may release it.
HoldEvent(j) ==
  /\ resv[j].status = "released" => resv'[j].status = "released"
  /\ resv[j].status # "none" => resv'[j].status # "none"
  /\ resv[j].status # "none" /\ resv[j].lapsed => resv'[j].lapsed
  /\ resv[j].status = "pending" /\ job[j].status # "succeeded" /\ (\A p \in Procs : ~Releases(p, j)) =>
       resv'[j].status = "pending"
  /\ resv'[j].status = "released" => resv[j].status = "released" \/ \E p \in Procs : Releases(p, j)

\* A hold that is not touched satisfies every condition.
LEMMA HoldUntouched ==
  ASSUME NEW j \in Sources, resv'[j] = resv[j]
  PROVE  HoldEvent(j)
BY Zenon DEF HoldEvent

\* The operations of the wallet respect HoldEvent.
LEMMA WalletHoldEvents ==
  ASSUME ChargeInv, WalletChange
  PROVE  \A j \in Sources : HoldEvent(j)
<1>0. resv \in [Sources -> Reservation]
  BY DEF ChargeInv
<1>1. ASSUME NEW x \in Sources, NEW r, resv' = [resv EXCEPT ![x] = r], resv'[x] = r => HoldEvent(x)
      PROVE  \A j \in Sources : HoldEvent(j)
  <2>1. resv'[x] = r /\ \A j \in Sources : j # x => resv'[j] = resv[j]
    BY <1>0, <1>1
  <2> QED
    BY <1>1, <2>1, HoldUntouched, Zenon
<1>2. ASSUME UNCHANGED resv PROVE \A j \in Sources : HoldEvent(j)
  BY <1>2, HoldUntouched, Zenon
<1>3. ASSUME NEW j \in Sources, NEW a \in Amounts, Hold(j, a) PROVE \A k \in Sources : HoldEvent(k)
  <2> DEFINE r == [status |-> "pending", amount |-> a, lapsed |-> FALSE, captured |-> NoAmount]
  <2>1. resv' = [resv EXCEPT ![j] = r] /\ resv[j].status = "none"
    BY <1>3 DEF Hold
  <2>2. r.status = "pending"
    OBVIOUS
  <2> HIDE DEF r
  <2>3. resv'[j] = r => HoldEvent(j)
    BY <2>1, <2>2 DEF HoldEvent
  <2> QED BY <1>1, <2>1, <2>3, Zenon
<1>4. ASSUME NEW j \in Sources, job[j].status = "succeeded", Capture(j, job[j].usage)
      PROVE  \A k \in Sources : HoldEvent(k)
  <2> DEFINE r == [resv[j] EXCEPT !.status = "committed", !.captured = job[j].usage]
  <2>1. resv' = [resv EXCEPT ![j] = r]
    BY <1>4 DEF Capture
  <2>2. r.status = "committed" /\ r.lapsed = resv[j].lapsed
    BY <1>0 DEF Reservation
  <2>3. resv[j].status # "released"
    BY <1>4, Zenon DEF Capture, CaptureOutcome
  <2> HIDE DEF r
  <2>4. resv'[j] = r => HoldEvent(j)
    BY <1>4, <2>2, <2>3 DEF HoldEvent
  <2> QED BY <1>1, <2>1, <2>4, Zenon
<1>5. ASSUME NEW j \in Sources, NEW p \in Procs, Release(j), Releases(p, j)
      PROVE  \A k \in Sources : HoldEvent(k)
  <2> DEFINE r == [resv[j] EXCEPT !.status = "released"]
  <2>1. resv' = [resv EXCEPT ![j] = r]
    BY <1>5 DEF Release
  <2>2. r.status = "released" /\ r.lapsed = resv[j].lapsed
    BY <1>0 DEF Reservation
  <2> HIDE DEF r
  <2>3. "released" # "none"
    OBVIOUS
  <2>4. resv'[j] = r => HoldEvent(j)
    BY <1>5, <2>2, <2>3, Zenon DEF HoldEvent
  <2> QED BY <1>1, <2>1, <2>4, Zenon
<1>6. ASSUME NEW j \in Sources, HoldLapses(j) PROVE \A k \in Sources : HoldEvent(k)
  <2> DEFINE r == [resv[j] EXCEPT !.lapsed = TRUE]
  <2>1. resv' = [resv EXCEPT ![j] = r] /\ resv[j].status = "pending"
    BY <1>6 DEF HoldLapses
  <2>2. r.status = resv[j].status /\ r.lapsed
    BY <1>0 DEF Reservation
  <2> HIDE DEF r
  <2>3. resv'[j] = r => HoldEvent(j)
    BY <2>1, <2>2 DEF HoldEvent
  <2> QED BY <1>1, <2>1, <2>3, Zenon
<1> QED
  BY <1>2, <1>3, <1>4, <1>5, <1>6, Zenon DEF WalletChange, billingVars, Grant

\* Before the provider is asked.
Before == {"claimed", "beforeProvider", "admission", "requeue", "submit"}

\* A worker goes on in the same status, in the next one after its own write, on
\* to the capture, to _fail after an error, or to the release after _fail.
Goes(w) ==
  LET r == job[proc[w].job]
      s == job'[proc[w].job]
      pc == proc[w].pc
      next == proc'[w].pc
  IN
  \/ /\ pc \in DOMAIN LocalStatus /\ next \in DOMAIN LocalStatus \ {"capture"}
     /\ next \in Before => pc \in Before
     /\ \/ Same(r, s) /\ LocalStatus[next] = LocalStatus[pc]
        \/ Fenced(w) /\ s.status = LocalStatus[next] /\ s.token = r.token /\ s.live = r.live
  \/ next = "capture"
  \/ /\ pc \in DOMAIN LocalStatus \ {"capture"} /\ next = "fail"
     /\ proc'[w].expected = LocalStatus[pc] /\ Same(r, s)
  \/ /\ pc = "fail" /\ next = "release"
     /\ (Fenced(w) /\ r.status = proc[w].expected /\ UNCHANGED faults) => s.status = "failed"

WorkerEvent(w) ==
  \/ proc'[w] = proc[w]
  \/ proc'[w].pc = "idle"
  \/ \E j \in Sources : Claim(w, j)
  \/ /\ proc[w].pc # "idle" /\ proc'[w].pc # "idle"
     /\ proc'[w].job = proc[w].job /\ proc'[w].token = proc[w].token
     /\ Goes(w)

\* The steps of the program of a worker.
LEMMA WorkerMoves ==
  ASSUME ProcsOK, faults \in Nat, NEW w \in Workers, WorkerStep(w) \/ WorkerError(w)
  PROVE  WorkerEvent(w)
<1>1. w \in Procs /\ Home(w) = "idle" /\ (proc[w].pc # "idle" => proc[w].job \in Sources)
  BY ProcsAssumption, Zenon DEF Procs, ProcsOK, Home, Resting, WorkerPCs, LocalStatus
<1>2. job \in [Sources -> JobRow] /\ (proc[w].pc # "idle" => job[proc[w].job] \in JobRow)
  BY <1>1 DEF ProcsOK
<1>3. "idle" \notin DOMAIN LocalStatus /\ "fail" # "idle" /\ "release" # "idle"
  BY DEF LocalStatus
<1>4. ASSUME Done(w) PROVE WorkerEvent(w)
  BY <1>1, <1>4, ProcFields, Zenon DEF WorkerEvent
<1>5. ASSUME NEW pc \in DOMAIN LocalStatus, NEW next \in DOMAIN LocalStatus \ {"capture"},
             proc[w].pc = pc, Goto(w, next), next \in Before => pc \in Before,
             LocalStatus[next] = LocalStatus[pc], Same(job[proc[w].job], job'[proc[w].job])
      PROVE  WorkerEvent(w)
  BY <1>1, <1>3, <1>5, ProcFields, Zenon DEF WorkerEvent, Goes
<1>6. ASSUME UNCHANGED job PROVE Same(job[proc[w].job], job'[proc[w].job])
  BY <1>6, Zenon DEF Same
<1>7. ASSUME NEW pc \in DOMAIN LocalStatus, NEW next \in DOMAIN LocalStatus \ {"capture"},
             NEW to \in Statuses \ ClearsLease, Transition(w, pc, to, next),
             next \in Before => pc \in Before, LocalStatus[next] = to
      PROVE  WorkerEvent(w)
  <2>1. /\ proc[w].pc = pc /\ Fenced(w) /\ Goto(w, next)
        /\ job' = [job EXCEPT ![proc[w].job] = Transit(job[proc[w].job], to)]
    BY <1>7, Zenon DEF Transition, Matches, SetRow, Row
  <2>2. proc[w].job \in Sources /\ job[proc[w].job] \in JobRow
    BY <1>1, <1>2, <1>3, <2>1, Zenon
  <2>3. job'[proc[w].job] = Transit(job[proc[w].job], to)
    BY <1>2, <2>1, <2>2, Zenon
  <2>4. /\ job'[proc[w].job].status = to /\ job'[proc[w].job].token = job[proc[w].job].token
        /\ job'[proc[w].job].live = job[proc[w].job].live
    BY <2>2, <2>3, TransitFields
  <2>5. proc'[w].pc = next /\ proc'[w].job = proc[w].job /\ proc'[w].token = proc[w].token
    BY <1>1, <2>1, ProcFields, Zenon
  <2>6. proc[w].pc # "idle" /\ proc'[w].pc # "idle"
    BY <1>3, <1>7, <2>1, <2>5, Zenon
  <2>7. Goes(w)
    BY <1>7, <2>1, <2>4, <2>5, Zenon DEF Goes
  <2> QED
    BY <2>5, <2>6, <2>7, Zenon DEF WorkerEvent
<1>8. ASSUME NEW u \in BOOLEAN, proc[w].pc \in DOMAIN LocalStatus, Raise(w, u), UNCHANGED job
      PROVE  WorkerEvent(w)
  <2>1. proc[w].pc # "idle" /\ (LocalStatus[proc[w].pc] # "succeeded" => proc[w].pc # "capture")
    BY <1>3, <1>8, LocalStatusFacts, Zenon
  <2> QED
    BY <1>1, <1>3, <1>6, <1>8, <2>1, ProcFields, Zenon DEF WorkerEvent, Goes
<1>9. CASE Queue(w) \/ Submit(w) \/ Run(w) \/ Store(w)
  <2>1. /\ {"queued", "submitted", "running", "storing"} \subseteq Statuses \ ClearsLease
        /\ {"claimed", "submit", "run", "store"} \subseteq DOMAIN LocalStatus
        /\ {"beforeProvider", "provider", "store", "beforeCapture"} \subseteq
             DOMAIN LocalStatus \ {"capture"}
        /\ LocalStatus["beforeProvider"] = "queued" /\ LocalStatus["provider"] = "submitted"
        /\ LocalStatus["store"] = "running" /\ LocalStatus["beforeCapture"] = "storing"
        /\ "claimed" \in Before
        /\ "provider" \notin Before /\ "store" \notin Before /\ "beforeCapture" \notin Before
    BY DEF LocalStatus, Statuses, Leased, ClearsLease, Terminal, Before
  <2> QED
    BY <1>7, <1>9, <2>1, Zenon DEF Queue, Submit, Run, Store
<1>10. /\ DOMAIN LocalStatus = {"claimed", "beforeProvider", "admission", "requeue", "submit",
                                "provider", "recordTask", "await", "recordRequest",
                                "afterProvider", "run", "store", "beforeCapture", "complete",
                                "capture"}
       /\ LocalStatus["beforeProvider"] = "queued" /\ LocalStatus["admission"] = "queued"
       /\ LocalStatus["submit"] = "queued" /\ LocalStatus["requeue"] = "queued"
       /\ LocalStatus["provider"] = "submitted" /\ LocalStatus["recordTask"] = "submitted"
       /\ LocalStatus["await"] = "submitted" /\ LocalStatus["recordRequest"] = "submitted"
       /\ LocalStatus["afterProvider"] = "submitted" /\ LocalStatus["run"] = "submitted"
       /\ LocalStatus["beforeCapture"] = "storing" /\ LocalStatus["complete"] = "storing"
  BY DEF LocalStatus
<1>11. CASE \/ EnsureLive(w, "beforeProvider", "admission") \/ EnsureLive(w, "afterProvider", "run")
            \/ EnsureLive(w, "beforeCapture", "complete") \/ Admit(w) \/ Saturate(w)
            \/ RecordRequest(w)
  <2>1. UNCHANGED job
    BY <1>11, Zenon DEF EnsureLive, Admit, Saturate, RecordRequest
  <2>2. \E pc \in DOMAIN LocalStatus, next \in DOMAIN LocalStatus \ {"capture"} :
          /\ proc[w].pc = pc /\ Goto(w, next) /\ LocalStatus[next] = LocalStatus[pc]
          /\ next \in Before => pc \in Before
    BY <1>10, <1>11 DEF EnsureLive, Admit, Saturate, RecordRequest, Before
  <2> QED BY <1>5, <1>6, <2>1, <2>2, Zenon
<1>12. CASE PostAccepted(w)
  <2>1. /\ UNCHANGED job /\ proc[w].pc = "provider"
        /\ Goto(w, "recordTask") \/ Goto(w, "recordRequest")
    BY <1>12 DEF PostAccepted
  <2>2. /\ "provider" \in DOMAIN LocalStatus
        /\ {"recordTask", "recordRequest"} \subseteq DOMAIN LocalStatus \ {"capture"}
        /\ "recordTask" \notin Before /\ "recordRequest" \notin Before
    BY <1>10 DEF Before
  <2> QED BY <1>5, <1>6, <1>10, <2>1, <2>2, Zenon
<1>13. CASE RecordTask(w)
  <2>1. proc[w].pc = "recordTask" /\ Goto(w, "await")
    BY <1>13 DEF RecordTask
  <2>2. proc[w].job \in Sources /\ job[proc[w].job] \in JobRow
    BY <1>1, <1>2, <2>1
  <2>3. Same(job[proc[w].job], job'[proc[w].job])
    BY <1>2, <1>13, <2>2 DEF RecordTask, SetRow, Row, Same, JobRow
  <2>4. /\ "recordTask" \in DOMAIN LocalStatus /\ "await" \in DOMAIN LocalStatus \ {"capture"}
        /\ "await" \notin Before
    BY <1>10 DEF Before
  <2> QED BY <1>5, <1>10, <2>1, <2>3, <2>4, Zenon
<1>14. CASE AwaitVideo(w)
  <2>1. UNCHANGED job /\ proc[w].pc = "await" /\ (Goto(w, "recordRequest") \/ Raise(w, FALSE))
    BY <1>14, Zenon DEF AwaitVideo
  <2>2. /\ "await" \in DOMAIN LocalStatus /\ "recordRequest" \in DOMAIN LocalStatus \ {"capture"}
        /\ "recordRequest" \notin Before /\ FALSE \in BOOLEAN
    BY <1>10 DEF Before
  <2> QED BY <1>5, <1>6, <1>8, <1>10, <2>1, <2>2, Zenon
<1>15. CASE PostRefused(w) \/ PostAnswerLost(w) \/ AwaitTimesOut(w) \/ Rejected(w)
  <2>1. UNCHANGED job /\ (Raise(w, TRUE) \/ Raise(w, FALSE))
    BY <1>15, Zenon DEF PostRefused, PostAnswerLost, AwaitTimesOut, Rejected
  <2>2. /\ proc[w].pc \in {"claimed", "beforeProvider", "requeue", "submit", "provider",
                           "recordTask", "await", "recordRequest", "afterProvider", "run",
                           "store", "beforeCapture", "complete"}
    BY <1>15, Zenon DEF PostRefused, PostAnswerLost, AwaitTimesOut, Rejected
  <2>3. proc[w].pc \in DOMAIN LocalStatus /\ TRUE \in BOOLEAN /\ FALSE \in BOOLEAN
    BY <1>10, <2>2
  <2> QED BY <1>8, <2>1, <2>3, Zenon
<1>16. CASE CompleteJob(w)
  <2>1. proc[w].pc # "idle" /\ Goto(w, "capture") /\ "capture" # "idle"
    BY <1>16 DEF CompleteJob
  <2> QED BY <1>1, <2>1, ProcFields, Zenon DEF WorkerEvent, Goes
<1>17. ASSUME proc[w].pc = "fail", Goto(w, "release"),
              (Fenced(w) /\ Row(w).status = proc[w].expected /\ UNCHANGED faults) =>
                 job'[proc[w].job].status = "failed"
       PROVE  WorkerEvent(w)
  BY <1>1, <1>3, <1>17, ProcFields, Zenon DEF WorkerEvent, Goes, Row
<1>18. CASE Fail(w)
  <2>1. proc[w].pc = "fail" /\ proc[w].job \in Sources /\ job[proc[w].job] \in JobRow
    BY <1>1, <1>2, <1>18 DEF Fail
  <2>2. ASSUME ~proc[w].unknown, Fenced(w), Row(w).status = proc[w].expected
        PROVE  job'[proc[w].job].status = "failed"
    <3>1. job' = [job EXCEPT ![proc[w].job] = Transit(job[proc[w].job], "failed")]
      BY <1>18, <2>2, Zenon DEF Fail, SetRow, Row
    <3>2. job'[proc[w].job] = Transit(job[proc[w].job], "failed")
      BY <1>2, <2>1, <3>1, Zenon
    <3>3. "failed" \in Statuses
      BY DEF Statuses, Terminal
    <3> QED BY <2>1, <3>2, <3>3, TransitFields
  <2> QED BY <1>4, <1>17, <1>18, <2>1, <2>2, Zenon DEF Fail
<1>19. CASE WorkerError(w)
  <2>1. faults' # faults /\ UNCHANGED job /\ TRUE \in BOOLEAN
    BY <1>19 DEF WorkerError, Fault
  <2> QED BY <1>4, <1>8, <1>17, <1>19, <2>1, Zenon DEF WorkerError
<1>20. CASE Requeue(w) \/ CaptureHold(w) \/ ReleaseHold(w)
  BY <1>4, <1>20, Zenon DEF Requeue, CaptureHold, ReleaseHold
<1> QED
  BY <1>9, <1>11, <1>12, <1>13, <1>14, <1>15, <1>16, <1>18, <1>19, <1>20, Zenon DEF WorkerStep

\* Only p moves.
Moves(p) == \E s : proc' = [proc EXCEPT ![p] = s]

\* A step of a worker, a loop or an operator moves nobody else.
LEMMA OneMoves ==
  ASSUME NEW p \in Procs
  PROVE  /\ WorkerStep(p) \/ WorkerError(p) => Moves(p)
         /\ ResolveStep(p) => Moves(p)
         /\ ReconcilerStep(p) \/ ReconcilerError(p) => Moves(p)
         /\ \A j : Claim(p, j) \/ OperatorStarts(p, j) => Moves(p)
         /\ Crash(p) => Moves(p)
<1>1. ASSUME NEW pc, Goto(p, pc) PROVE Moves(p)
  <2>1. proc' = [proc EXCEPT ![p] = [proc[p] EXCEPT !.pc = pc]]
    BY <1>1 DEF Goto
  <2> QED BY <2>1, Zenon DEF Moves
<1>2. ASSUME Done(p) PROVE Moves(p)
  BY <1>2, Zenon DEF Done, Moves
<1>3. ASSUME WorkerStep(p) \/ WorkerError(p) PROVE Moves(p)
  <2>1. ASSUME NEW u, Raise(p, u) PROVE Moves(p)
    BY <2>1, Zenon DEF Raise, Moves
  <2> QED
    BY <1>1, <1>2, <1>3, <2>1, Zenon
    DEF WorkerStep, WorkerError, Queue, Submit, Run, Store, Transition, EnsureLive, Admit, Saturate,
        Requeue, PostAccepted, PostRefused, PostAnswerLost, RecordTask, AwaitVideo, AwaitTimesOut,
        RecordRequest, CompleteJob, CaptureHold, Rejected, Fail, ReleaseHold
<1>4. ASSUME ResolveStep(p) PROVE Moves(p)
  BY <1>1, <1>2, <1>4, Zenon DEF ResolveStep, MarkFailed, ReleaseFailed, ResolveFailed, GiveUp
<1>5. ASSUME ReconcilerStep(p) \/ ReconcilerError(p) PROVE Moves(p)
  <2>1. ASSUME NEW j, Settled1(p, j) PROVE Moves(p)
    BY <2>1, Zenon DEF Settled1, Moves
  <2>2. ASSUME NEW j \in Sources, SettleSucceeded(p, j) \/ SettleUnsuccessful(p, j) PROVE Moves(p)
    BY <1>2, <2>1, <2>2, Zenon DEF SettleSucceeded, SettleUnsuccessful, Restart, Moves
  <2>3. ASSUME NEW j \in Sources, ClaimRecovery(p, j) PROVE Moves(p)
    BY <2>3, Zenon DEF ClaimRecovery, Moves
  <2> QED
    BY <1>1, <1>2, <1>4, <1>5, <2>1, <2>2, <2>3, Zenon
    DEF ReconcilerStep, ReconcilerError, ReconcileStalled, Select, SelectionDone, ReleaseExpired,
        MarkResolved, Restart, NothingToRecover, PollTask, Recover, RecoverStore, RecoverTo,
        RecoverComplete, RecoverCapture, Abandon
<1>6. ASSUME NEW j, Claim(p, j) \/ OperatorStarts(p, j) PROVE Moves(p)
  BY <1>6, Zenon DEF Claim, OperatorStarts, Moves
<1>7. ASSUME Crash(p) PROVE Moves(p)
  BY <1>2, <1>7, Zenon DEF Crash
<1> QED
  BY <1>3, <1>4, <1>5, <1>6, <1>7, Zenon

\* Every step moves a worker in one of the ways WorkerEvent lists.
LEMMA NextWorkerEvents ==
  ASSUME ProcsOK, faults \in Nat, Next, NEW w \in Workers
  PROVE  WorkerEvent(w)
<1>1. w \in Procs /\ w \notin Reconcilers /\ w \notin Operators /\ Home(w) = "idle"
  BY ProcsAssumption DEF Procs, Home
<1>2. /\ \A p \in Reconcilers : p \in Procs
      /\ \A p \in Workers : p \in Procs
      /\ \A p \in Operators : p \in Procs
  BY DEF Procs
<1>3. ASSUME UNCHANGED proc PROVE WorkerEvent(w)
  BY <1>3, Zenon DEF WorkerEvent
<1>4. ASSUME NEW p \in Procs, p # w, Moves(p) PROVE WorkerEvent(w)
  <2>1. proc'[w] = proc[w]
    BY <1>1, <1>4 DEF ProcsOK, Moves
  <2> QED
    BY <2>1, Zenon DEF WorkerEvent
<1>5. ASSUME NEW v \in Workers, WorkerStep(v) \/ WorkerError(v) PROVE WorkerEvent(w)
  BY <1>2, <1>4, <1>5, WorkerMoves, OneMoves, Zenon
<1>6. ASSUME NEW v \in Workers, NEW j \in Sources, Claim(v, j) PROVE WorkerEvent(w)
  <2>1. v = w => WorkerEvent(w)
    BY <1>6, Zenon DEF WorkerEvent
  <2> QED BY <1>2, <1>4, <1>6, <2>1, OneMoves, Zenon
<1>7. ASSUME NEW p \in Procs, Crash(p) PROVE WorkerEvent(w)
  <2>1. p = w => WorkerEvent(w)
    BY <1>1, <1>7, ProcFields, Zenon DEF Crash, WorkerEvent
  <2> QED BY <1>4, <1>7, <2>1, OneMoves, Zenon
<1>8. ASSUME NEW p \in Reconcilers, ReconcilerStep(p) \/ ReconcilerError(p) PROVE WorkerEvent(w)
  BY <1>1, <1>2, <1>4, <1>8, OneMoves, Zenon
<1>9. ASSUME NEW o \in Operators, ResolveStep(o) \/ \E j \in Sources : OperatorStarts(o, j)
      PROVE  WorkerEvent(w)
  BY <1>1, <1>2, <1>4, <1>9, OneMoves, Zenon
<1> QED
  BY <1>3, <1>5, <1>6, <1>7, <1>8, <1>9, Zenon
  DEF Next, Accept, Cancel, OrphanLeaseLapses, HolderPauses, ProviderFinishes, HoldExpires,
      Credit, genVars

\* What a worker's own write does to its row.
LEMMA OwnWrites ==
  ASSUME ProcsOK, NEW w \in Workers, OwnWrite(w), Fenced(w)
  PROVE  /\ proc[w].pc # "idle" /\ proc'[w] # proc[w]
         /\ \/ Same(job[proc[w].job], job'[proc[w].job])
            \/ /\ proc[w].pc = "requeue" /\ job[proc[w].job].status = "queued"
               /\ job'[proc[w].job].status = "accepted" /\ job'[proc[w].job].token = 0
               /\ proc'[w].pc = "idle"
            \/ /\ proc[w].pc = "submit" /\ job[proc[w].job].status = "queued"
               /\ job'[proc[w].job].status = "submitted"
            \/ /\ job[proc[w].job].status = "reserved" /\ job'[proc[w].job].status = "queued"
               /\ job'[proc[w].job].token = job[proc[w].job].token
            \/ job'[proc[w].job].status \notin Early
<1>1. w \in Procs /\ Home(w) = "idle" /\ (proc[w].pc # "idle" => proc[w].job \in Sources)
  BY ProcsAssumption, Zenon DEF Procs, ProcsOK, Home, Resting, WorkerPCs, LocalStatus
<1>2. job \in [Sources -> JobRow] /\ (proc[w].pc # "idle" => job[proc[w].job] \in JobRow)
  BY <1>1 DEF ProcsOK
<1>3. ASSUME NEW next, proc[w].pc # "idle", proc[w].pc # next, Goto(w, next) \/ (Done(w) /\ next = "idle")
      PROVE  proc'[w].pc = next /\ proc'[w] # proc[w]
  <2>1. Goto(w, next) => proc'[w].pc = next
    BY <1>1, ProcFields, Zenon
  <2>2. Done(w) => proc'[w].pc = "idle"
    BY <1>1, ProcFields, Zenon
  <2> QED BY <1>3, <2>1, <2>2, Zenon
<1>4. ASSUME NEW r, proc[w].pc # "idle", SetRow(w, r) PROVE job'[proc[w].job] = r
  BY <1>1, <1>2, <1>4 DEF SetRow
<1> DEFINE writing == {"claimed", "submit", "run", "store"}
<1>5. ASSUME NEW pc, NEW to \in Statuses, NEW next, Transition(w, pc, to, next),
             pc \in writing, next # pc
      PROVE  /\ proc[w].pc = pc /\ proc[w].pc # "idle" /\ proc'[w] # proc[w]
             /\ job[proc[w].job].status = LocalStatus[pc] /\ job'[proc[w].job].status = to
             /\ to \notin ClearsLease => job'[proc[w].job].token = job[proc[w].job].token
  <2>1. proc[w].pc = pc /\ proc[w].pc # "idle" /\ Goto(w, next) /\ SetRow(w, Transit(Row(w), to))
    BY <1>5 DEF Transition
  <2>2. Row(w).status = LocalStatus[pc]
    BY <1>5 DEF Transition, Matches
  <2>3. job'[proc[w].job] = Transit(job[proc[w].job], to)
    BY <1>4, <2>1, Zenon DEF Row
  <2>4. job[proc[w].job] \in JobRow
    BY <1>2, <2>1
  <2>5. proc'[w] # proc[w]
    BY <1>3, <1>5, <2>1, Zenon
  <2>6. /\ job'[proc[w].job].status = to
        /\ to \notin ClearsLease => job'[proc[w].job].token = job[proc[w].job].token
    BY <2>3, <2>4, TransitFields, Zenon
  <2> QED BY <2>1, <2>2, <2>5, <2>6, Zenon DEF Row
<1>6. CASE Queue(w)
  <2>1. /\ "queued" \in Statuses \ ClearsLease /\ LocalStatus["claimed"] = "reserved"
        /\ "claimed" \in writing /\ "beforeProvider" # "claimed"
    BY DEF Statuses, Leased, ClearsLease, Terminal, LocalStatus
  <2> HIDE DEF writing
  <2>2. /\ proc[w].pc # "idle" /\ proc'[w] # proc[w]
        /\ job[proc[w].job].status = "reserved" /\ job'[proc[w].job].status = "queued"
        /\ job'[proc[w].job].token = job[proc[w].job].token
    BY <1>5, <1>6, <2>1 DEF Queue
  <2> QED BY <2>2, Zenon
<1>7. CASE Submit(w)
  <2>1. /\ "submitted" \in Statuses \ ClearsLease /\ LocalStatus["submit"] = "queued"
        /\ "submit" \in writing /\ "provider" # "submit"
    BY DEF Statuses, Leased, ClearsLease, Terminal, LocalStatus
  <2> HIDE DEF writing
  <2>2. /\ proc[w].pc # "idle" /\ proc'[w] # proc[w] /\ proc[w].pc = "submit"
        /\ job[proc[w].job].status = "queued" /\ job'[proc[w].job].status = "submitted"
    BY <1>5, <1>7, <2>1 DEF Submit
  <2> QED BY <2>2, Zenon
<1>8. CASE Run(w) \/ Store(w)
  <2>1. /\ "running" \in Statuses /\ "running" \notin Early /\ LocalStatus["run"] = "submitted"
        /\ "storing" \in Statuses /\ "storing" \notin Early /\ LocalStatus["store"] = "running"
        /\ "run" \in writing /\ "store" # "run"
        /\ "store" \in writing /\ "beforeCapture" # "store"
    BY DEF Statuses, Leased, LocalStatus, Early, PreSubmission
  <2> HIDE DEF writing
  <2>2. /\ proc[w].pc # "idle" /\ proc'[w] # proc[w]
        /\ job'[proc[w].job].status \in {"running", "storing"}
    BY <1>5, <1>8, <2>1 DEF Run, Store
  <2> QED BY <2>1, <2>2, Zenon
<1>9. CASE Requeue(w)
  <2>1. /\ proc[w].pc = "requeue" /\ proc[w].pc # "idle" /\ Done(w)
        /\ SetRow(w, Transit(Row(w), "accepted"))
    BY <1>9, Zenon DEF Requeue
  <2>2. Row(w).status = "queued"
    BY <1>9, LocalStatusFacts DEF Requeue, Matches
  <2>3. job'[proc[w].job] = Transit(job[proc[w].job], "accepted") /\ job[proc[w].job] \in JobRow
    BY <1>2, <1>4, <2>1, Zenon DEF Row
  <2>4. "accepted" \in Statuses /\ "accepted" \in ClearsLease
    BY DEF Statuses, ClearsLease
  <2>5. job'[proc[w].job].status = "accepted" /\ job'[proc[w].job].token = 0
    BY <2>3, <2>4, TransitFields
  <2> QED BY <1>3, <2>1, <2>2, <2>5, Zenon DEF Row
<1>10. CASE CompleteJob(w)
  <2>1. proc[w].pc # "idle" /\ proc[w].pc # "capture" /\ Goto(w, "capture") /\ job[proc[w].job] \in JobRow
    BY <1>2, <1>10 DEF CompleteJob
  <2>2. PICK c \in Charges : SetRow(w, Completed(Row(w), c))
    BY <1>10, Zenon DEF CompleteJob
  <2>3. job'[proc[w].job] = Completed(job[proc[w].job], c)
    BY <1>4, <2>1, <2>2, Zenon DEF Row
  <2>4. job'[proc[w].job].status = "succeeded" /\ "succeeded" \notin Early
    BY <2>1, <2>3, RowFields DEF Early, PreSubmission
  <2> QED BY <1>3, <2>1, <2>4, Zenon
<1>11. CASE Fail(w)
  <2>1. proc[w].pc = "fail" /\ proc[w].pc # "idle" /\ proc[w].pc # "release" /\ job[proc[w].job] \in JobRow
    BY <1>2, <1>11, Zenon DEF Fail
  <2>2. proc'[w] # proc[w]
    BY <1>3, <1>11, <2>1, Zenon DEF Fail
  <2>3. ASSUME NEW t \in {"submitted_unknown", "failed"}, SetRow(w, Transit(Row(w), t))
        PROVE  job'[proc[w].job].status \notin Early
    <3>1. job'[proc[w].job] = Transit(job[proc[w].job], t)
      BY <1>4, <2>1, <2>3, Zenon DEF Row
    <3>2. t \in Statuses /\ t \notin Early
      BY <2>3 DEF Statuses, Terminal, Early, PreSubmission
    <3> QED BY <2>1, <3>1, <3>2, TransitFields
  <2>4. UNCHANGED job => Same(job[proc[w].job], job'[proc[w].job])
    BY Zenon DEF Same
  <2> QED BY <1>11, <2>1, <2>2, <2>3, <2>4, Zenon DEF Fail
<1> QED
  BY <1>6, <1>7, <1>8, <1>9, <1>10, <1>11, Zenon DEF OwnWrite

\* The fields that acceptance, cancellation, a claim and a lapse write.
LEMMA RowWrites ==
  ASSUME ProcsOK, ChargeInv, NEW j \in Sources
  PROVE  /\ \A a \in Amounts : Accept(j, a) =>
              /\ job[j].status = "none" /\ job'[j].status = "accepted" /\ job'[j].token = job[j].token
              /\ resv'[j].status = "pending"
         /\ Cancel(j) => job[j].status = "accepted" /\ job'[j].status = "cancelled"
         /\ \A w \in Workers : Claim(w, j) =>
              /\ job[j].status = "accepted" /\ job[j].token = 0 /\ proc[w].pc = "idle"
              /\ job'[j].status = "reserved" /\ job'[j].token # 0 /\ job'[j].live
              /\ proc'[w].pc = "claimed" /\ proc'[w].job = j /\ proc'[w].token = job'[j].token
         /\ OrphanLeaseLapses(j) \/ HolderPauses(j) =>
              job'[j].status = job[j].status /\ job'[j].token = job[j].token
<1>0. job \in [Sources -> JobRow] /\ job[j] \in JobRow /\ resv \in [Sources -> Reservation]
      /\ proc \in [Procs -> ProcState] /\ job[j].fence \in Nat
  BY DEF ProcsOK, ChargeInv, JobRow
<1>1. ASSUME NEW a \in Amounts, Accept(j, a)
      PROVE  /\ job[j].status = "none" /\ job'[j].status = "accepted" /\ job'[j].token = job[j].token
             /\ resv'[j].status = "pending"
  <2>1. job'[j] = [job[j] EXCEPT !.status = "accepted"] /\ job[j].status = "none"
    BY <1>0, <1>1 DEF Accept
  <2>2. resv' = [resv EXCEPT ![j] = [status |-> "pending", amount |-> a,
                                     lapsed |-> FALSE, captured |-> NoAmount]]
    BY <1>1 DEF Accept, Hold
  <2>3. resv'[j].status = "pending"
    BY <1>0, <2>2
  <2> QED BY <1>0, <2>1, <2>3 DEF JobRow
<1>2. ASSUME Cancel(j) PROVE job[j].status = "accepted" /\ job'[j].status = "cancelled"
  <2>1. job'[j] = [job[j] EXCEPT !.status = "cancelled", !.recon = "not_required"]
    BY <1>0, <1>2 DEF Cancel
  <2> QED BY <1>0, <1>2, <2>1 DEF JobRow, Cancel
<1>3. ASSUME NEW w \in Workers, Claim(w, j)
      PROVE  /\ job[j].status = "accepted" /\ job[j].token = 0 /\ proc[w].pc = "idle"
             /\ job'[j].status = "reserved" /\ job'[j].token # 0 /\ job'[j].live
             /\ proc'[w].pc = "claimed" /\ proc'[w].job = j /\ proc'[w].token = job'[j].token
  <2> DEFINE r == [job[j] EXCEPT !.status = "reserved", !.live = TRUE,
                                 !.fence = job[j].fence + 1, !.token = job[j].fence + 1]
             s == [proc[w] EXCEPT !.pc = "claimed", !.job = j, !.token = job[j].fence + 1]
  <2>1. job' = [job EXCEPT ![j] = r] /\ proc' = [proc EXCEPT ![w] = s]
    BY <1>3 DEF Claim
  <2>2. r.status = "reserved" /\ r.token = job[j].fence + 1 /\ r.live
    BY <1>0 DEF JobRow
  <2>3. s.pc = "claimed" /\ s.job = j /\ s.token = job[j].fence + 1
    BY <1>0 DEF ProcState, Procs
  <2>4. job[j].fence + 1 # 0
    BY <1>0
  <2>5. job[j].status = "accepted" /\ job[j].token = 0 /\ proc[w].pc = "idle"
    BY <1>3 DEF Claim
  <2> HIDE DEF r, s
  <2>6. job'[j] = r /\ proc'[w] = s
    BY <1>0, <2>1 DEF Procs
  <2> QED BY <2>2, <2>3, <2>4, <2>5, <2>6, Zenon
<1>4. ASSUME OrphanLeaseLapses(j) \/ HolderPauses(j)
      PROVE  job'[j].status = job[j].status /\ job'[j].token = job[j].token
  <2>1. job' = [job EXCEPT ![j] = [job[j] EXCEPT !.live = FALSE]]
    BY <1>4, Zenon DEF OrphanLeaseLapses, HolderPauses
  <2>2. job'[j] = [job[j] EXCEPT !.live = FALSE]
    BY <1>0, <2>1
  <2> QED BY <1>0, <2>2 DEF JobRow
<1> QED
  BY <1>1, <1>2, <1>3, <1>4, Zenon

\* A job without a lease carries no token, a worker holds the lease of a job
\* that was not yet submitted, and the hold of such a job is pending as long
\* as its worker is on the way to the provider.
LeaseHoldInv ==
  /\ \A j \in Sources : job[j].status \in {"none", "accepted"} => job[j].token = 0
  /\ \A w \in Workers : proc[w].pc # "idle" =>
       /\ proc[w].token # 0
       /\ job[proc[w].job].status \in PreSubmission => job[proc[w].job].token = proc[w].token
  /\ \A j \in Sources : job[j].status = "accepted" => resv[j].status = "pending"
  /\ \A w \in Workers : proc[w].pc \in Before /\ job[proc[w].job].status \in PreSubmission =>
       resv[proc[w].job].status = "pending"

\* A settlement pass works on terminal jobs; a hold is released as expired only
\* for a succeeded job whose hold lapsed, and a reconciliation is closed only
\* for a failed job, after its hold was released.
ClosingInv ==
  /\ \A p \in Reconcilers : \A j \in todo[p] : j \in Sources /\ job[j].status \in Terminal
  /\ \A p \in Procs :
       /\ proc[p].pc = "releaseExpired" =>
            /\ job[proc[p].job].status = "succeeded"
            /\ resv[proc[p].job].lapsed /\ resv[proc[p].job].status # "none"
       /\ proc[p].pc \in {"resolve", "releaseFailed", "resolveFailed"} =>
            job[proc[p].job].status = "failed"
       /\ proc[p].pc \in {"resolve", "resolveFailed"} => resv[proc[p].job].status = "released"
  /\ ResolvedMeansReleased

\* Before submission only the worker of a job can release its hold.
LEMMA EarlyReleases ==
  ASSUME GenInv, LeaseHoldInv, ClosingInv, NEW j \in Sources, job[j].status \in PreSubmission,
         NEW p \in Procs, Releases(p, j)
  PROVE  /\ p \in Workers /\ proc[p].pc = "release" /\ proc[p].job = j
         /\ proc[p].token = job[j].token /\ proc[p].token # 0
<1>1. job[j].status \notin Terminal /\ job[j].status # "succeeded" /\ job[j].status # "failed"
  BY DEF PreSubmission, Terminal
<1>2. CASE proc[p].pc = "release" /\ proc[p].job = j
  <2>1. "release" \notin ReconcilerPCs /\ "release" \notin OperatorPCs /\ "release" # "idle"
    BY DEF ReconcilerPCs, OperatorPCs
  <2>2. p \in Workers
    BY <1>2, <2>1, Zenon DEF GenInv, ProcsOK, Procs
  <2> QED
    BY <1>2, <2>1, <2>2, Zenon DEF LeaseHoldInv
<1>3. CASE proc[p].pc \in {"releaseExpired", "releaseFailed"} /\ proc[p].job = j
  <2>1. \/ proc[p].pc = "releaseExpired"
        \/ proc[p].pc \in {"resolve", "releaseFailed", "resolveFailed"}
    BY <1>3
  <2> QED
    BY <1>1, <1>3, <2>1, Zenon DEF ClosingInv
<1>4. CASE p \in Reconcilers /\ j \in todo[p]
  BY <1>1, <1>4, Zenon DEF ClosingInv
<1> QED
  BY <1>2, <1>3, <1>4 DEF Releases

\* Before submission a pending hold stays pending while no worker is about to
\* release it.
LEMMA EarlyHoldStays ==
  ASSUME GenInv, LeaseHoldInv, ClosingInv, NEW j \in Sources, job[j].status \in PreSubmission,
         resv[j].status = "pending", HoldEvent(j),
         \/ job[j].token = 0
         \/ \E w \in Workers : /\ proc[w].job = j /\ proc[w].token = job[j].token
                               /\ proc[w].pc # "release"
  PROVE  resv'[j].status = "pending"
<1>1. job[j].status # "succeeded"
  BY DEF PreSubmission
<1>2. ASSUME NEW p \in Procs, Releases(p, j) PROVE FALSE
  <2>1. /\ p \in Workers /\ proc[p].pc = "release" /\ proc[p].job = j
        /\ proc[p].token = job[j].token /\ proc[p].token # 0
    BY <1>2, EarlyReleases, Zenon
  <2>2. PICK w \in Workers : /\ proc[w].job = j /\ proc[w].token = job[j].token
                             /\ proc[w].pc # "release"
    BY <2>1, Zenon
  <2>3. w \in Procs
    BY DEF Procs
  <2>4. p = w
    BY <2>1, <2>2, <2>3, Zenon DEF GenInv, FenceInv
  <2> QED BY <2>1, <2>2, <2>4, Zenon
<1> QED
  BY <1>1, <1>2, Zenon DEF HoldEvent

\* The lease of a job that stays before submission changes hands only with its
\* worker: what happens to the row is nothing, a lapse or the worker's own write.
LEMMA EarlyLease ==
  ASSUME GenInv, LeaseHoldInv, RowsChange, NEW w \in Workers, proc[w].pc # "idle",
         proc'[w].pc # "idle", RowEvent(proc[w].job), job'[proc[w].job].status \in PreSubmission
  PROVE  job[proc[w].job].status \in PreSubmission /\ job'[proc[w].job].token = proc[w].token
<1> DEFINE j == proc[w].job
<1>1. j \in Sources /\ w \in Procs /\ proc[w].token # 0
  <2>1. proc[w].pc \notin Resting
    BY DEF GenInv, ProcsOK, Resting, WorkerPCs, LocalStatus
  <2> QED
    BY <2>1, Zenon DEF GenInv, ProcsOK, LeaseHoldInv, Procs
<1>2. job[j].status \in PreSubmission
  BY <1>1, Zenon DEF RowsChange, RowChange
<1>3. job[j].token = proc[w].token
  BY <1>2, Zenon DEF LeaseHoldInv
<1>4. job[j].status \notin {"none", "accepted"}
  BY <1>1, <1>3, Zenon DEF LeaseHoldInv
<1>5. /\ job[j].status # "none" /\ job[j].status # "accepted"
      /\ job[j].status # "running" /\ job[j].status # "storing"
      /\ job'[j].status \in Early /\ job'[j].status # "submitted"
  BY <1>2, <1>4 DEF PreSubmission, Early
<1> HIDE DEF j
<1>6. CASE Same(job[j], job'[j])
  BY <1>2, <1>3, <1>6, Zenon DEF Same, j
<1>7. CASE OrphanLeaseLapses(j) \/ HolderPauses(j)
  BY <1>1, <1>2, <1>3, <1>7, RowWrites, Zenon DEF GenInv, j
<1>8. ASSUME NEW v \in Workers, proc[v].job = j, Fenced(v), OwnWrite(v)
      PROVE  job'[j].token = proc[w].token
  <2>1. v = w
    BY <1>1, <1>3, <1>8, Zenon DEF GenInv, FenceInv, Fenced, Row, Procs, j
  <2> QED
    BY <1>3, <1>5, <1>8, <2>1, OwnWrites, Zenon DEF GenInv, Same, j
<1>9. /\ \A a \in Amounts : ~Accept(j, a)
      /\ ~Cancel(j)
      /\ \A v \in Workers : ~Claim(v, j)
  BY <1>1, <1>5, RowWrites, Zenon DEF GenInv
<1>10. RowEvent(j)
  BY DEF j
<1> QED
  BY <1>2, <1>5, <1>6, <1>7, <1>8, <1>9, <1>10, Zenon DEF RowEvent, j

\* A step keeps LeaseHoldInv.
LEMMA LeaseHoldPreserved ==
  ASSUME GenInv, LeaseHoldInv, ClosingInv, RowsChange, ProcsChange,
         \A j \in Sources : RowEvent(j) /\ HoldEvent(j),
         \A w \in Workers : WorkerEvent(w)
  PROVE  LeaseHoldInv'
<1>0. ProcsOK /\ ChargeInv
  BY DEF GenInv
<1>1. ASSUME NEW j \in Sources, job'[j].status \in {"none", "accepted"}
      PROVE  /\ job'[j].token = 0
             /\ job'[j].status = "accepted" => resv'[j].status = "pending"
  <2>1. job'[j].status \in Early /\ job'[j].status \in PreSubmission /\ job'[j].status # "cancelled"
        /\ job'[j].status # "reserved" /\ job'[j].status # "queued" /\ job'[j].status # "submitted"
    BY <1>1 DEF Early, PreSubmission
  <2>2. ASSUME job'[j].status = job[j].status, job'[j].token = job[j].token
        PROVE  /\ job'[j].token = 0
               /\ job'[j].status = "accepted" => resv'[j].status = "pending"
    <3>1. job[j].token = 0
      BY <1>1, <2>2, Zenon DEF LeaseHoldInv
    <3>2. job[j].status = "accepted" => resv[j].status = "pending"
      BY Zenon DEF LeaseHoldInv
    <3>3. job[j].status \in PreSubmission
      BY <2>1, <2>2, Zenon
    <3> QED BY <2>2, <3>1, <3>2, <3>3, EarlyHoldStays, Zenon
  <2>3. CASE Same(job[j], job'[j])
    BY <2>2, <2>3, Zenon DEF Same
  <2>4. CASE OrphanLeaseLapses(j) \/ HolderPauses(j)
    BY <1>0, <2>2, <2>4, RowWrites, Zenon
  <2>5. ASSUME NEW a \in Amounts, Accept(j, a)
        PROVE  job'[j].token = 0 /\ resv'[j].status = "pending"
    <3>1. /\ job[j].status = "none" /\ job'[j].token = job[j].token /\ resv'[j].status = "pending"
      BY <1>0, <2>5, RowWrites, Zenon
    <3> QED BY <3>1 DEF LeaseHoldInv
  <2>6. ASSUME NEW w \in Workers, proc[w].job = j, Fenced(w), OwnWrite(w)
        PROVE  /\ job'[j].token = 0
               /\ job'[j].status = "accepted" => resv'[j].status = "pending"
    <3>1. CASE Same(job[j], job'[j])
      BY <2>2, <3>1, Zenon DEF Same
    <3>2. CASE /\ proc[w].pc = "requeue" /\ job[j].status = "queued"
               /\ job'[j].status = "accepted" /\ job'[j].token = 0
      <4>1. /\ "requeue" \in Before /\ job[j].status \in PreSubmission
            /\ proc[w].pc # "release" /\ proc[w].pc # "idle"
        BY <3>2 DEF Before, PreSubmission
      <4>2. resv[j].status = "pending" /\ proc[w].token = job[j].token
        BY <2>6, <3>2, <4>1, Zenon DEF LeaseHoldInv
      <4> QED BY <2>6, <3>2, <4>1, <4>2, EarlyHoldStays, Zenon
    <3> QED
      BY <1>0, <2>1, <2>6, <3>1, <3>2, OwnWrites, Zenon
  <2>7. ~Cancel(j) /\ \A w \in Workers : ~Claim(w, j)
    BY <1>0, <2>1, RowWrites, Zenon
  <2>8. RowEvent(j)
    OBVIOUS
  <2> QED
    BY <2>1, <2>3, <2>4, <2>5, <2>6, <2>7, <2>8, Zenon DEF RowEvent
<1>2. ASSUME NEW w \in Workers, proc'[w].pc # "idle"
      PROVE  \/ /\ proc[w].pc # "idle" /\ proc'[w].job = proc[w].job /\ proc'[w].token = proc[w].token
                /\ proc'[w].pc \in Before => proc[w].pc \in Before
             \/ \E j \in Sources : Claim(w, j)
  <2>1. WorkerEvent(w) /\ "capture" \notin Before /\ "fail" \notin Before /\ "release" \notin Before
    BY DEF Before
  <2>2. Goes(w) /\ proc'[w].pc \in Before => proc[w].pc \in Before
    BY <2>1, Zenon DEF Goes
  <2> QED
    BY <1>2, <2>1, <2>2, Zenon DEF WorkerEvent
<1>3. ASSUME NEW w \in Workers, NEW j \in Sources, Claim(w, j)
      PROVE  /\ proc'[w].token # 0 /\ job'[proc'[w].job].token = proc'[w].token
             /\ resv'[proc'[w].job].status = "pending"
  <2>1. /\ job[j].status = "accepted" /\ job[j].token = 0 /\ job'[j].token # 0
        /\ proc'[w].job = j /\ proc'[w].token = job'[j].token
    BY <1>0, <1>3, RowWrites, Zenon
  <2>2. job[j].status \in PreSubmission /\ resv[j].status = "pending"
    BY <2>1 DEF PreSubmission, LeaseHoldInv
  <2> QED BY <2>1, <2>2, EarlyHoldStays, Zenon
<1>4. ASSUME NEW w \in Workers, proc'[w].pc # "idle", proc[w].pc # "idle",
             proc'[w].job = proc[w].job, proc'[w].token = proc[w].token
      PROVE  /\ proc'[w].token # 0
             /\ job'[proc'[w].job].status \in PreSubmission =>
                  /\ job'[proc'[w].job].token = proc'[w].token
                  /\ proc[w].pc \in Before => resv'[proc'[w].job].status = "pending"
  <2>1. proc[w].job \in Sources
    BY <1>4, Zenon DEF GenInv, ProcsOK, Resting, WorkerPCs, LocalStatus, Procs
  <2>2. proc[w].token # 0
    BY <1>4, Zenon DEF LeaseHoldInv
  <2>3. ASSUME job'[proc'[w].job].status \in PreSubmission
        PROVE  job'[proc'[w].job].token = proc'[w].token /\ job[proc[w].job].status \in PreSubmission
    BY <1>4, <2>1, <2>3, EarlyLease, Zenon
  <2>4. ASSUME job[proc[w].job].status \in PreSubmission, proc[w].pc \in Before
        PROVE  resv'[proc[w].job].status = "pending"
    <3>1. proc[w].pc # "release"
      BY <2>4 DEF Before
    <3>2. resv[proc[w].job].status = "pending" /\ proc[w].token = job[proc[w].job].token
      BY <1>4, <2>4, Zenon DEF LeaseHoldInv
    <3> QED BY <2>1, <2>4, <3>1, <3>2, EarlyHoldStays, Zenon
  <2> QED BY <1>4, <2>2, <2>3, <2>4, Zenon
<1>5. "idle" \notin Before
  BY DEF Before
<1>6. ASSUME NEW w \in Workers, proc'[w].pc # "idle"
      PROVE  /\ proc'[w].token # 0
             /\ job'[proc'[w].job].status \in PreSubmission =>
                  /\ job'[proc'[w].job].token = proc'[w].token
                  /\ proc'[w].pc \in Before => resv'[proc'[w].job].status = "pending"
  BY <1>2, <1>3, <1>4, <1>6, Zenon
<1>7. \A j \in Sources : job'[j].status = "accepted" => job'[j].status \in {"none", "accepted"}
  BY Zenon
<1> QED
  BY <1>1, <1>5, <1>6, <1>7, Zenon DEF LeaseHoldInv

\* Who marks a reconciliation resolved.
Closes(p, j) == proc[p].pc \in {"resolve", "resolveFailed"} /\ proc[p].job = j

\* Only the settlement pass and resolve_failed, in the step that closes it,
\* mark a reconciliation resolved.
LEMMA NextResolved ==
  ASSUME ProcsOK, Next
  PROVE  \A j \in Sources : job'[j].recon = "resolved" =>
           job[j].recon = "resolved" \/ \E p \in Procs : Closes(p, j)
<1> DEFINE Good(j) == job'[j].recon = "resolved" =>
                        job[j].recon = "resolved" \/ \E p \in Procs : Closes(p, j)
           All == \A j \in Sources : Good(j)
<1>0. job \in [Sources -> JobRow]
  BY DEF ProcsOK
<1>1. ASSUME NEW x \in Sources, NEW r, job' = [job EXCEPT ![x] = r],
             r.recon = "resolved" => job[x].recon = "resolved" \/ \E p \in Procs : Closes(p, x)
      PROVE  All
  <2>1. job'[x] = r /\ \A j \in Sources : j # x => job'[j] = job[j]
    BY <1>0, <1>1
  <2> QED BY <1>1, <2>1, Zenon
<1>2. ASSUME UNCHANGED job PROVE All
  BY <1>2, Zenon
<1> HIDE DEF All
<1>3. ASSUME NEW p \in Procs, proc[p].job \in Sources, NEW t \in Statuses, SetRow(p, Transit(Row(p), t))
      PROVE  All
  <2>1. job[proc[p].job] \in JobRow /\ job' = [job EXCEPT ![proc[p].job] = Transit(job[proc[p].job], t)]
    BY <1>0, <1>3, Zenon DEF SetRow, Row
  <2>2. Transit(job[proc[p].job], t).recon = "resolved" => job[proc[p].job].recon = "resolved"
    BY <2>1, TransitFields, Zenon
  <2> QED BY <1>1, <1>3, <2>1, <2>2, Zenon
<1>4. ASSUME NEW p \in Procs, proc[p].job \in Sources, NEW c \in Charges, SetRow(p, Completed(Row(p), c))
      PROVE  All
  <2>1. job[proc[p].job] \in JobRow /\ job' = [job EXCEPT ![proc[p].job] = Completed(job[proc[p].job], c)]
    BY <1>0, <1>4, Zenon DEF SetRow, Row
  <2>2. Completed(job[proc[p].job], c).recon = "not_required" /\ "not_required" # "resolved"
    BY <2>1, RowFields
  <2> QED BY <1>1, <1>4, <2>1, <2>2, Zenon
<1>5. {"queued", "submitted", "running", "storing", "accepted", "submitted_unknown", "failed"} \subseteq Statuses
  BY DEF Statuses, Leased, Terminal
<1>6. ASSUME NEW p \in Procs, ResolveStep(p) PROVE All
  <2>1. proc[p].job \in Sources /\ job[proc[p].job] \in JobRow
    BY <1>6, Zenon DEF ProcsOK, Resting, ResolveStep, MarkFailed, ReleaseFailed, ResolveFailed
  <2>2. ASSUME SetRow(p, [Row(p) EXCEPT !.status = "failed", !.observedFailed = TRUE,
                                        !.token = 0, !.live = FALSE])
        PROVE  All
    <3> DEFINE r == [job[proc[p].job] EXCEPT !.status = "failed", !.observedFailed = TRUE,
                                             !.token = 0, !.live = FALSE]
    <3>1. r.recon = job[proc[p].job].recon
      BY <2>1 DEF JobRow
    <3>2. job' = [job EXCEPT ![proc[p].job] = r]
      BY <2>2 DEF SetRow, Row
    <3> HIDE DEF r
    <3> QED BY <1>1, <2>1, <3>1, <3>2, Zenon
  <2>3. ASSUME proc[p].pc = "resolveFailed", SetRow(p, [Row(p) EXCEPT !.recon = "resolved"]) PROVE All
    <3>1. Closes(p, proc[p].job)
      BY <2>3 DEF Closes
    <3> QED BY <1>1, <2>1, <2>3, <3>1, Zenon DEF SetRow
  <2> QED
    BY <1>2, <1>6, <2>2, <2>3, Zenon DEF ResolveStep, MarkFailed, ReleaseFailed, ResolveFailed
<1>7. ASSUME NEW w \in Workers, WorkerStep(w) \/ WorkerError(w) PROVE All
  <2>1. w \in Procs /\ (proc[w].pc # "idle" => proc[w].job \in Sources /\ job[proc[w].job] \in JobRow)
    BY Zenon DEF Procs, ProcsOK, Resting, WorkerPCs, LocalStatus
  <2>2. CASE Queue(w) \/ Submit(w) \/ Run(w) \/ Store(w)
    <3>1. proc[w].job \in Sources
      BY <2>1, <2>2 DEF Queue, Submit, Run, Store, Transition
    <3>2. \E t \in Statuses : SetRow(w, Transit(Row(w), t))
      BY <1>5, <2>2, Zenon DEF Queue, Submit, Run, Store, Transition
    <3> QED BY <1>3, <2>1, <3>1, <3>2, Zenon
  <2>3. CASE Requeue(w) \/ Fail(w)
    <3>1. proc[w].job \in Sources
      BY <2>1, <2>3, Zenon DEF Requeue, Fail
    <3>2. UNCHANGED job \/ \E t \in {"accepted", "submitted_unknown", "failed"} : SetRow(w, Transit(Row(w), t))
      BY <2>3, Zenon DEF Requeue, Fail
    <3>3. UNCHANGED job \/ \E t \in Statuses : SetRow(w, Transit(Row(w), t))
      BY <1>5, <3>2
    <3> QED BY <1>2, <1>3, <2>1, <3>1, <3>3, Zenon
  <2>4. CASE CompleteJob(w)
    <3>1. proc[w].job \in Sources
      BY <2>1, <2>4, Zenon DEF CompleteJob
    <3> QED BY <1>4, <2>1, <2>4, <3>1, Zenon DEF CompleteJob
  <2>5. CASE RecordTask(w)
    <3>1. proc[w].job \in Sources /\ job[proc[w].job] \in JobRow
      BY <2>1, <2>5 DEF RecordTask
    <3> DEFINE r == [job[proc[w].job] EXCEPT !.task = TRUE]
    <3>2. r.recon = job[proc[w].job].recon
      BY <3>1 DEF JobRow
    <3>3. job' = [job EXCEPT ![proc[w].job] = r]
      BY <2>5 DEF RecordTask, SetRow, Row
    <3> HIDE DEF r
    <3> QED BY <1>1, <3>1, <3>2, <3>3, Zenon
  <2> QED
    BY <1>2, <1>7, <2>2, <2>3, <2>4, <2>5, Zenon
    DEF WorkerStep, WorkerError, EnsureLive, Admit, Saturate, PostAccepted, PostRefused, PostAnswerLost,
        AwaitVideo, AwaitTimesOut, RecordRequest, CaptureHold, Rejected, ReleaseHold
<1>8. ASSUME NEW p \in Reconcilers, ReconcilerStep(p) \/ ReconcilerError(p) PROVE All
  <2>1. p \in Procs /\ (proc[p].pc \notin Resting => proc[p].job \in Sources /\ job[proc[p].job] \in JobRow)
    BY Zenon DEF Procs, ProcsOK
  <2>2. CASE ReconcileStalled(p)
    <3>1. ASSUME NEW j \in Sources, job'[j].recon = "resolved" PROVE job[j].recon = "resolved"
      <4>1. job[j] \in JobRow /\ (job'[j] = job[j] \/ job'[j] = Unstalled(job[j]))
        BY <1>0, <2>2 DEF ReconcileStalled
      <4> QED BY <3>1, <4>1, RowFields
    <3> QED BY <3>1, Zenon DEF All
  <2>3. CASE MarkResolved(p)
    <3>1. proc[p].job \in Sources /\ Closes(p, proc[p].job)
      BY <2>1, <2>3 DEF MarkResolved, Resting, Closes
    <3> QED BY <1>1, <2>1, <2>3, <3>1, Zenon DEF MarkResolved, SetRow
  <2>4. ASSUME NEW j \in Sources, ClaimRecovery(p, j) PROVE All
    <3> DEFINE r == [job[j] EXCEPT !.live = TRUE, !.fence = job[j].fence + 1, !.token = job[j].fence + 1]
    <3>1. r.recon = job[j].recon
      BY <1>0 DEF JobRow
    <3>2. job' = [job EXCEPT ![j] = r]
      BY <2>4 DEF ClaimRecovery
    <3> HIDE DEF r
    <3> QED BY <1>1, <3>1, <3>2, Zenon
  <2>5. CASE Recover(p) \/ RecoverStore(p)
    <3>1. proc[p].job \in Sources
      BY <2>1, <2>5, Zenon DEF Recover, RecoverStore, RecoverTo, Resting
    <3>2. UNCHANGED job \/ \E t \in {"running", "storing"} : SetRow(p, Transit(Row(p), t))
      BY <2>5 DEF Recover, RecoverStore, RecoverTo
    <3>3. UNCHANGED job \/ \E t \in Statuses : SetRow(p, Transit(Row(p), t))
      BY <1>5, <3>2
    <3> QED BY <1>2, <1>3, <2>1, <3>1, <3>3, Zenon
  <2>6. CASE RecoverComplete(p)
    <3>1. proc[p].job \in Sources
      BY <2>1, <2>6, Zenon DEF RecoverComplete, Resting
    <3> QED BY <1>2, <1>4, <2>1, <2>6, <3>1, Zenon DEF RecoverComplete
  <2>7. CASE Abandon(p)
    <3>1. proc[p].job \in Sources /\ job[proc[p].job] \in JobRow
      BY <2>1, <2>7 DEF Abandon, Resting
    <3> DEFINE r == [job[proc[p].job] EXCEPT !.token = 0, !.live = FALSE]
    <3>2. r.recon = job[proc[p].job].recon
      BY <3>1 DEF JobRow
    <3>3. UNCHANGED job \/ job' = [job EXCEPT ![proc[p].job] = r]
      BY <2>7, Zenon DEF Abandon, SetRow, Row
    <3> HIDE DEF r
    <3> QED BY <1>1, <1>2, <3>1, <3>2, <3>3, Zenon
  <2> QED
    BY <1>2, <1>6, <1>8, <2>1, <2>2, <2>3, <2>4, <2>5, <2>6, <2>7, Zenon
    DEF ReconcilerStep, ReconcilerError, Select, SelectionDone, SettleSucceeded,
        SettleUnsuccessful, ReleaseExpired, NothingToRecover, PollTask, RecoverCapture
<1>9. ASSUME NEW j \in Sources, NEW r, job' = [job EXCEPT ![j] = r],
             r.recon = job[j].recon \/ r.recon = "not_required"
      PROVE  All
  <2>1. "not_required" # "resolved"
    OBVIOUS
  <2> QED BY <1>1, <1>9, <2>1, Zenon
<1>10. ASSUME NEW j \in Sources,
              \/ \E a \in Amounts : Accept(j, a)
              \/ Cancel(j) \/ OrphanLeaseLapses(j) \/ HolderPauses(j)
              \/ \E w \in Workers : Claim(w, j)
       PROVE  All
  <2> DEFINE a == [job[j] EXCEPT !.status = "accepted"]
             c == [job[j] EXCEPT !.status = "cancelled", !.recon = "not_required"]
             l == [job[j] EXCEPT !.live = FALSE]
             k == [job[j] EXCEPT !.status = "reserved", !.live = TRUE,
                                 !.fence = job[j].fence + 1, !.token = job[j].fence + 1]
  <2>1. /\ a.recon = job[j].recon /\ c.recon = "not_required"
        /\ l.recon = job[j].recon /\ k.recon = job[j].recon
    BY <1>0 DEF JobRow
  <2>2. \/ job' = [job EXCEPT ![j] = a] \/ job' = [job EXCEPT ![j] = c]
        \/ job' = [job EXCEPT ![j] = l] \/ job' = [job EXCEPT ![j] = k]
    BY <1>10, Zenon DEF Accept, Cancel, OrphanLeaseLapses, HolderPauses, Claim
  <2> HIDE DEF a, c, l, k
  <2> QED BY <1>9, <2>1, <2>2, Zenon
<1>11. \A o \in Operators : o \in Procs
  BY DEF Procs
<1>12. All
  BY <1>2, <1>6, <1>7, <1>8, <1>10, <1>11, Zenon
  DEF Next, ProviderFinishes, HoldExpires, Credit, genVars, OperatorStarts, Crash
<1> QED
  BY <1>12, Zenon DEF All

\* What a process that settles or closes has just found: a lapsed hold of a
\* succeeded job, or a failed job, released before it is marked resolved.
ClosingEntry(p) ==
  LET j == proc'[p].job IN
  proc'[p].pc \in {"releaseExpired", "resolve", "releaseFailed", "resolveFailed"} =>
    \/ proc[p].pc = proc'[p].pc /\ proc[p].job = j
    \/ /\ proc'[p].pc = "releaseExpired" /\ job[j].status = "succeeded"
       /\ resv[j].lapsed /\ resv[j].status = "pending"
    \/ proc'[p].pc = "resolve" /\ job[j].status = "failed" /\ resv'[j].status = "released"
    \/ proc'[p].pc = "releaseFailed" /\ job'[j].status = "failed"
    \/ /\ proc'[p].pc = "resolveFailed" /\ proc[p].pc = "releaseFailed" /\ proc[p].job = j
       /\ resv'[j].status = "released"

\* After a release, or an idempotent one, the hold is released.
LEMMA ReleasedHold ==
  ASSUME ChargeInv, NEW j \in Sources,
         Release(j) \/ (ReleaseOutcome(j) = "idempotent" /\ UNCHANGED billingVars)
  PROVE  resv'[j].status = "released"
<1>0. resv \in [Sources -> Reservation] /\ resv[j] \in Reservation
  BY DEF ChargeInv
<1>1. CASE Release(j)
  <2>1. resv' = [resv EXCEPT ![j] = [resv[j] EXCEPT !.status = "released"]]
    BY <1>1 DEF Release
  <2>2. resv'[j] = [resv[j] EXCEPT !.status = "released"]
    BY <1>0, <2>1
  <2> QED BY <1>0, <2>2 DEF Reservation
<1>2. CASE ReleaseOutcome(j) = "idempotent" /\ UNCHANGED billingVars
  <2>1. "NOT_FOUND" # "idempotent" /\ "RELEASE_CONFLICT" # "idempotent"
        /\ "INVARIANT" # "idempotent" /\ "released" # "idempotent"
    OBVIOUS
  <2>2. resv[j].status = "released"
    BY <1>2, <2>1, Zenon DEF ReleaseOutcome
  <2> QED BY <1>2, <2>2, Zenon DEF billingVars
<1> QED
  BY <1>1, <1>2, Zenon

\* The steps of resolve_failed.
LEMMA ResolveEntries ==
  ASSUME ProcsOK, ChargeInv, NEW p \in Procs, ResolveStep(p)
  PROVE  ClosingEntry(p)
<1>1. proc[p].job \in Sources /\ job[proc[p].job] \in JobRow /\ job \in [Sources -> JobRow]
  BY DEF ProcsOK, Resting, ResolveStep, MarkFailed, ReleaseFailed, ResolveFailed
<1>2. ASSUME NEW pc, Goto(p, pc) PROVE proc'[p].pc = pc /\ proc'[p].job = proc[p].job
  BY <1>2, ProcFields, Zenon
<1>3. ASSUME Done(p) \/ GiveUp(p) PROVE ClosingEntry(p)
  <2>1. proc'[p].pc \in {"stalled", "idle", "abandon"}
    BY <1>2, <1>3, ProcFields DEF GiveUp, Home
  <2> QED
    BY <2>1 DEF ClosingEntry
<1>4. CASE MarkFailed(p)
  <2>1. ASSUME Goto(p, "releaseFailed"), job'[proc[p].job].status = "failed" PROVE ClosingEntry(p)
    BY <1>2, <2>1, Zenon DEF ClosingEntry
  <2>2. ASSUME SetRow(p, [Row(p) EXCEPT !.status = "failed", !.observedFailed = TRUE,
                                        !.token = 0, !.live = FALSE])
        PROVE  job'[proc[p].job].status = "failed"
    <3> DEFINE r == [job[proc[p].job] EXCEPT !.status = "failed", !.observedFailed = TRUE,
                                             !.token = 0, !.live = FALSE]
    <3>1. r.status = "failed"
      BY <1>1 DEF JobRow
    <3>2. job' = [job EXCEPT ![proc[p].job] = r]
      BY <2>2 DEF SetRow, Row
    <3> HIDE DEF r
    <3>3. job'[proc[p].job] = r
      BY <1>1, <3>2
    <3> QED BY <3>1, <3>3
  <2> QED
    BY <1>3, <1>4, <2>1, <2>2, Zenon DEF MarkFailed, Row
<1>5. CASE ReleaseFailed(p)
  <2>1. ASSUME Goto(p, "resolveFailed"), resv'[proc[p].job].status = "released" PROVE ClosingEntry(p)
    BY <1>2, <1>5, <2>1, Zenon DEF ClosingEntry, ReleaseFailed
  <2> QED
    BY <1>1, <1>3, <1>5, <2>1, ReleasedHold, Zenon DEF ReleaseFailed
<1>6. CASE ResolveFailed(p)
  BY <1>3, <1>6, Zenon DEF ResolveFailed
<1> QED
  BY <1>4, <1>5, <1>6 DEF ResolveStep

\* The steps of a reconciliation loop.
LEMMA ReconcilerEntries ==
  ASSUME ProcsOK, ChargeInv, NEW p \in Reconcilers, ReconcilerStep(p) \/ ReconcilerError(p)
  PROVE  ClosingEntry(p)
<1> DEFINE closing == {"releaseExpired", "resolve", "releaseFailed", "resolveFailed"}
<1>1. p \in Procs /\ proc \in [Procs -> ProcState] /\ proc[p] \in ProcState
  BY Zenon DEF Procs, ProcsOK
<1>2. ASSUME proc'[p].pc \notin closing PROVE ClosingEntry(p)
  BY <1>2, Zenon DEF ClosingEntry
<1>3. ASSUME NEW pc, Goto(p, pc), pc \notin closing PROVE ClosingEntry(p)
  BY <1>1, <1>2, <1>3, ProcFields, Zenon
<1>4. Home(p) \notin closing
  BY DEF Home
<1>5. ASSUME Done(p) PROVE ClosingEntry(p)
  BY <1>1, <1>2, <1>4, <1>5, ProcFields, Zenon
<1>6. ASSUME NEW j, Settled1(p, j) PROVE ClosingEntry(p)
  <2>1. proc'[p] = At("settle")
    BY <1>1, <1>6 DEF Settled1
  <2>2. At("settle").pc = "settle" /\ "settle" \notin closing
    BY DEF At
  <2> QED BY <1>2, <2>1, <2>2, Zenon
<1>7. ASSUME NEW j \in Sources, NEW pc, proc' = [proc EXCEPT ![p] = [@ EXCEPT !.pc = pc, !.job = j]]
      PROVE  proc'[p].pc = pc /\ proc'[p].job = j
  <2> DEFINE s == [proc[p] EXCEPT !.pc = pc, !.job = j]
  <2>1. s.pc = pc /\ s.job = j
    BY <1>1 DEF ProcState
  <2>2. proc' = [proc EXCEPT ![p] = s]
    BY <1>7
  <2> HIDE DEF s
  <2>3. proc'[p] = s
    BY <1>1, <2>2
  <2> QED BY <2>1, <2>3, Zenon
<1>8. ASSUME NEW j \in Sources, SettleSucceeded(p, j) PROVE ClosingEntry(p)
  <2>1. ASSUME CaptureOutcome(j, job[j].usage) = "RESERVATION_EXPIRED",
               proc' = [proc EXCEPT ![p] = [@ EXCEPT !.pc = "releaseExpired", !.job = j]]
        PROVE  ClosingEntry(p)
    <3>1. /\ "NOT_FOUND" # "RESERVATION_EXPIRED" /\ "idempotent" # "RESERVATION_EXPIRED"
          /\ "CAPTURE_CONFLICT" # "RESERVATION_EXPIRED"
          /\ "CAPTURE_AMOUNT_EXCEEDED" # "RESERVATION_EXPIRED"
          /\ "WALLET_UNAVAILABLE" # "RESERVATION_EXPIRED"
          /\ "INVARIANT" # "RESERVATION_EXPIRED" /\ "captured" # "RESERVATION_EXPIRED"
      OBVIOUS
    <3>2. resv[j].status = "pending" /\ resv[j].lapsed
      BY <2>1, <3>1, Zenon DEF CaptureOutcome
    <3>3. proc'[p].pc = "releaseExpired" /\ proc'[p].job = j
      BY <1>7, <2>1, Zenon
    <3> QED BY <1>8, <3>2, <3>3, Zenon DEF ClosingEntry, SettleSucceeded
  <2> QED BY <1>5, <1>6, <1>8, <2>1, Zenon DEF SettleSucceeded, Restart
<1>9. ASSUME NEW j \in Sources, SettleUnsuccessful(p, j) PROVE ClosingEntry(p)
  <2>1. ASSUME Release(j) \/ (ReleaseOutcome(j) = "idempotent" /\ UNCHANGED billingVars),
               job[j].status = "failed",
               proc' = [proc EXCEPT ![p] = [@ EXCEPT !.pc = "resolve", !.job = j]]
        PROVE  ClosingEntry(p)
    <3>1. resv'[j].status = "released"
      BY <2>1, ReleasedHold, Zenon
    <3>2. proc'[p].pc = "resolve" /\ proc'[p].job = j
      BY <1>7, <2>1, Zenon
    <3> QED BY <2>1, <3>1, <3>2, Zenon DEF ClosingEntry
  <2> QED BY <1>5, <1>6, <1>9, <2>1, Zenon DEF SettleUnsuccessful, Restart
<1>10. ASSUME NEW j \in Sources, ClaimRecovery(p, j) PROVE ClosingEntry(p)
  <2> DEFINE s == [proc[p] EXCEPT !.pc = "poll", !.job = j, !.token = job[j].fence + 1]
  <2>1. s.pc = "poll" /\ "poll" \notin closing
    BY <1>1 DEF ProcState
  <2>2. proc' = [proc EXCEPT ![p] = s]
    BY <1>10 DEF ClaimRecovery
  <2> HIDE DEF s
  <2>3. proc'[p] = s
    BY <1>1, <2>2
  <2> QED BY <1>2, <2>1, <2>3, Zenon
<1>11. /\ "select" \notin closing /\ "settle" \notin closing /\ "claim" \notin closing
       /\ "recover" \notin closing /\ "markFailed" \notin closing /\ "abandon" \notin closing
       /\ "recoverStore" \notin closing /\ "recoverComplete" \notin closing
       /\ "recoverCapture" \notin closing
  OBVIOUS
<1> HIDE DEF closing
<1>12. CASE \/ ReconcileStalled(p) \/ Select(p) \/ SelectionDone(p) \/ NothingToRecover(p) \/ PollTask(p)
            \/ Recover(p) \/ RecoverStore(p) \/ RecoverComplete(p) \/ RecoverCapture(p) \/ Abandon(p)
            \/ ReconcilerError(p)
  BY <1>3, <1>5, <1>11, <1>12, Zenon
  DEF ReconcileStalled, Select, SelectionDone, NothingToRecover, PollTask, Recover, RecoverStore,
      RecoverTo, RecoverComplete, RecoverCapture, Abandon, ReconcilerError
<1>13. CASE ReleaseExpired(p) \/ MarkResolved(p)
  BY <1>5, <1>6, <1>13, Zenon DEF ReleaseExpired, MarkResolved, Restart
<1> QED
  BY <1>1, <1>8, <1>9, <1>10, <1>12, <1>13, ResolveEntries, Zenon DEF ReconcilerStep

\* Every process that reaches a closing step found what ClosingEntry says.
LEMMA NextEntries ==
  ASSUME GenInv, ProcsOK', Next, NEW p \in Procs
  PROVE  ClosingEntry(p)
<1>0. ProcsOK /\ ChargeInv
  BY Zenon DEF GenInv
<1>1. /\ \A q \in Reconcilers : q \in Procs /\ q \notin Workers
      /\ \A q \in Workers : q \in Procs
      /\ \A q \in Operators : q \in Procs
  BY ProcsAssumption DEF Procs
<1>2. CASE p \in Workers
  <2>1. proc'[p].pc \in WorkerPCs
    BY <1>2 DEF ProcsOK
  <2>2. proc'[p].pc \notin {"releaseExpired", "resolve", "releaseFailed", "resolveFailed"}
    BY <2>1 DEF WorkerPCs, LocalStatus
  <2> QED BY <2>2, Zenon DEF ClosingEntry
<1>3. ASSUME proc'[p] = proc[p] PROVE ClosingEntry(p)
  BY <1>3, Zenon DEF ClosingEntry
<1>4. ASSUME NEW q \in Procs, q # p, Moves(q) PROVE ClosingEntry(p)
  <2>1. proc'[p] = proc[p]
    BY <1>0, <1>4 DEF ProcsOK, Moves
  <2> QED BY <1>3, <2>1, Zenon
<1>5. ASSUME UNCHANGED proc PROVE ClosingEntry(p)
  BY <1>3, <1>5, Zenon
<1>6. ASSUME NEW v \in Workers, WorkerStep(v) \/ WorkerError(v) \/ \E j \in Sources : Claim(v, j)
      PROVE  ClosingEntry(p)
  BY <1>1, <1>2, <1>4, <1>6, OneMoves, Zenon
<1>7. ASSUME NEW q \in Reconcilers, ReconcilerStep(q) \/ ReconcilerError(q) PROVE ClosingEntry(p)
  BY <1>0, <1>1, <1>4, <1>7, ReconcilerEntries, OneMoves, Zenon
<1>8. ASSUME NEW q \in Operators, ResolveStep(q) PROVE ClosingEntry(p)
  BY <1>0, <1>1, <1>4, <1>8, ResolveEntries, OneMoves, Zenon
<1>9. ASSUME NEW q \in Operators, NEW j \in Sources, OperatorStarts(q, j) PROVE ClosingEntry(p)
  <2>1. CASE q = p
    <3> DEFINE s == [proc[p] EXCEPT !.pc = "markFailed", !.job = j]
    <3>1. proc \in [Procs -> ProcState] /\ proc[p] \in ProcState
      BY <1>0 DEF ProcsOK
    <3>2. s.pc = "markFailed"
      BY <3>1 DEF ProcState
    <3>3. proc' = [proc EXCEPT ![p] = s]
      BY <1>9, <2>1 DEF OperatorStarts
    <3> HIDE DEF s
    <3>4. proc'[p] = s
      BY <3>1, <3>3
    <3>5. proc'[p].pc \notin {"releaseExpired", "resolve", "releaseFailed", "resolveFailed"}
      BY <3>2, <3>4
    <3> QED BY <3>5, Zenon DEF ClosingEntry
  <2>2. CASE q # p
    BY <1>1, <1>4, <1>9, <2>2, OneMoves, Zenon
  <2> QED BY <2>1, <2>2
<1>10. ASSUME NEW q \in Procs, Crash(q) PROVE ClosingEntry(p)
  <2>1. CASE q = p
    <3>1. proc'[p].pc = Home(p)
      BY <1>0, <1>10, <2>1, ProcFields, Zenon DEF Crash
    <3>2. proc'[p].pc \notin {"releaseExpired", "resolve", "releaseFailed", "resolveFailed"}
      BY <3>1 DEF Home
    <3> QED BY <3>2, Zenon DEF ClosingEntry
  <2>2. CASE q # p
    BY <1>4, <1>10, <2>2, OneMoves, Zenon
  <2> QED BY <2>1, <2>2
<1> QED
  BY <1>5, <1>6, <1>7, <1>8, <1>9, <1>10, Zenon
  DEF Next, Accept, Cancel, OrphanLeaseLapses, HolderPauses, ProviderFinishes, HoldExpires,
      Credit, genVars

\* A selection gains only terminal jobs, and the number of faults never falls.
LEMMA NextSelections ==
  ASSUME todo \in [Reconcilers -> SUBSET Sources], faults \in Nat, Next
  PROVE  /\ \A p \in Reconcilers : \A j \in todo'[p] : j \in todo[p] \/ job[j].status \in Terminal
         /\ faults' = faults \/ faults' = faults + 1
         /\ \A j \in Sources : HolderPauses(j) => faults' = faults + 1
<1> DEFINE Chosen == \A p \in Reconcilers : \A j \in todo'[p] : j \in todo[p] \/ job[j].status \in Terminal
           Counted == faults' = faults \/ faults' = faults + 1
<1>1. ASSUME UNCHANGED todo PROVE Chosen
  BY <1>1, Zenon
<1>2. ASSUME NEW q \in Reconcilers, NEW T, todo' = [todo EXCEPT ![q] = T],
             \A j \in T : j \in todo[q] \/ job[j].status \in Terminal
      PROVE  Chosen
  BY <1>2
<1>3. UNCHANGED faults => Counted
  BY Zenon
<1>4. Fault => Counted
  BY Zenon DEF Fault
<1> HIDE DEF Chosen, Counted
<1>5. ASSUME NEW q \in Reconcilers, NEW j, Settled1(q, j) PROVE Chosen
  <2>1. \A i \in todo[q] \ {j} : i \in todo[q]
    OBVIOUS
  <2> QED BY <1>2, <1>5, <2>1, Zenon DEF Settled1
<1>6. ASSUME NEW q \in Reconcilers, todo' = [todo EXCEPT ![q] = {}] PROVE Chosen
  <2> DEFINE T == {}
  <2>1. todo' = [todo EXCEPT ![q] = T] /\ \A j \in T : j \in todo[q] \/ job[j].status \in Terminal
    BY <1>6
  <2> HIDE DEF T
  <2> QED BY <1>2, <2>1, Zenon
<1>7. ASSUME NEW q \in Reconcilers, Select(q) PROVE Chosen
  <2> DEFINE T == {j \in Sources : resv[j].status = "pending" /\ job[j].status \in Terminal}
  <2>1. todo' = [todo EXCEPT ![q] = T] /\ \A j \in T : job[j].status \in Terminal
    BY <1>7 DEF Select
  <2> HIDE DEF T
  <2> QED BY <1>2, <2>1, Zenon
<1>8. ASSUME NEW q, ResolveStep(q) PROVE Chosen /\ Counted
  BY <1>1, <1>3, <1>8, Zenon DEF ResolveStep, MarkFailed, ReleaseFailed, ResolveFailed
<1>9. ASSUME NEW q \in Reconcilers, ReconcilerStep(q) \/ ReconcilerError(q) PROVE Chosen /\ Counted
  <2>1. ASSUME NEW j \in Sources, SettleSucceeded(q, j) \/ SettleUnsuccessful(q, j)
        PROVE  Chosen /\ Counted
    BY <1>1, <1>3, <1>5, <1>6, <2>1, Zenon DEF SettleSucceeded, SettleUnsuccessful, Restart
  <2>2. CASE ReleaseExpired(q) \/ MarkResolved(q)
    BY <1>3, <1>5, <1>6, <2>2, Zenon DEF ReleaseExpired, MarkResolved, Restart
  <2>3. CASE Select(q)
    BY <1>3, <1>7, <2>3, Zenon DEF Select
  <2>4. CASE ReconcilerError(q)
    BY <1>4, <1>6, <2>4, Zenon DEF ReconcilerError
  <2> QED
    BY <1>1, <1>3, <1>8, <1>9, <2>1, <2>2, <2>3, <2>4, Zenon
    DEF ReconcilerStep, ReconcileStalled, SelectionDone, ClaimRecovery, NothingToRecover, PollTask,
        Recover, RecoverStore, RecoverTo, RecoverComplete, RecoverCapture, Abandon
<1>10. ASSUME NEW w \in Workers, WorkerStep(w) \/ WorkerError(w) PROVE Chosen /\ Counted
  BY <1>1, <1>3, <1>4, <1>10, Zenon
  DEF WorkerStep, WorkerError, Queue, Submit, Run, Store, Transition, EnsureLive, Admit, Saturate,
      Requeue, PostAccepted, PostRefused, PostAnswerLost, RecordTask, AwaitVideo, AwaitTimesOut,
      RecordRequest, CompleteJob, CaptureHold, Rejected, Fail, ReleaseHold
<1>11. ASSUME NEW q \in Procs, Crash(q) PROVE Chosen /\ Counted
  <2>1. todo' = [r \in Reconcilers |-> IF r = q THEN {} ELSE todo[r]]
    BY <1>11 DEF Crash
  <2>2. Chosen
    BY <2>1 DEF Chosen
  <2> QED BY <1>4, <1>11, <2>2, Zenon DEF Crash
<1>12. \A j \in Sources : HolderPauses(j) => faults' = faults + 1
  BY Zenon DEF HolderPauses, Fault
<1>13. Chosen /\ Counted
  BY <1>1, <1>3, <1>4, <1>8, <1>9, <1>10, <1>11, Zenon
  DEF Next, Accept, Cancel, OrphanLeaseLapses, HolderPauses, ProviderFinishes, HoldExpires,
      Credit, genVars, Claim, OperatorStarts
<1> QED
  BY <1>12, <1>13, Zenon DEF Chosen, Counted

\* A step keeps ClosingInv.
LEMMA ClosingPreserved ==
  ASSUME GenInv, GenInv', ClosingInv, RowsChange,
         todo \in [Reconcilers -> SUBSET Sources], todo' \in [Reconcilers -> SUBSET Sources],
         \A p \in Reconcilers : \A j \in todo'[p] : j \in todo[p] \/ job[j].status \in Terminal,
         \A p \in Procs : ClosingEntry(p),
         \A j \in Sources : HoldEvent(j),
         \A j \in Sources : job'[j].recon = "resolved" =>
           job[j].recon = "resolved" \/ \E p \in Procs : Closes(p, j)
  PROVE  ClosingInv'
<1>1. ASSUME NEW j \in Sources
      PROVE  job[j].status \in Terminal => job'[j].status = job[j].status
  BY Zenon DEF RowsChange, RowChange
<1>2. "succeeded" \in Terminal /\ "failed" \in Terminal
  BY DEF Terminal
<1>3. ASSUME NEW p \in Reconcilers, NEW j \in todo'[p]
      PROVE  j \in Sources /\ job'[j].status \in Terminal
  <2>1. j \in Sources
    BY <1>3
  <2>2. job[j].status \in Terminal
    BY <1>3, Zenon DEF ClosingInv
  <2> QED BY <1>1, <2>1, <2>2, Zenon
<1>4. ASSUME NEW p \in Procs, proc'[p].pc \in {"releaseExpired", "resolve", "releaseFailed", "resolveFailed"}
      PROVE  proc'[p].job \in Sources
  BY <1>4 DEF GenInv, ProcsOK, Resting
<1>5. ASSUME NEW p \in Procs, proc'[p].pc = "releaseExpired"
      PROVE  /\ job'[proc'[p].job].status = "succeeded"
             /\ resv'[proc'[p].job].lapsed /\ resv'[proc'[p].job].status # "none"
  <2>1. proc'[p].pc \in {"releaseExpired", "resolve", "releaseFailed", "resolveFailed"}
    BY <1>5, Zenon
  <2>2. proc'[p].job \in Sources
    BY <1>4, <2>1, Zenon
  <2>3. /\ "releaseExpired" # "resolve" /\ "releaseExpired" # "releaseFailed"
        /\ "releaseExpired" # "resolveFailed" /\ "pending" # "none"
    OBVIOUS
  <2>4. /\ job[proc'[p].job].status = "succeeded"
        /\ resv[proc'[p].job].lapsed /\ resv[proc'[p].job].status # "none"
    <3>1. ClosingEntry(p)
      OBVIOUS
    <3> QED BY <1>5, <2>1, <2>3, <3>1, Zenon DEF ClosingEntry, ClosingInv
  <2>5. HoldEvent(proc'[p].job)
    BY <2>2
  <2> QED BY <1>1, <1>2, <2>2, <2>4, <2>5, Zenon DEF HoldEvent
<1>6. ASSUME NEW p \in Procs, proc'[p].pc \in {"resolve", "releaseFailed", "resolveFailed"}
      PROVE  /\ job'[proc'[p].job].status = "failed"
             /\ proc'[p].pc # "releaseFailed" => resv'[proc'[p].job].status = "released"
  <2>1. proc'[p].pc \in {"releaseExpired", "resolve", "releaseFailed", "resolveFailed"}
        /\ proc'[p].pc # "releaseExpired"
    BY <1>6, Zenon
  <2>2. proc'[p].job \in Sources
    BY <1>4, <2>1, Zenon
  <2>3. HoldEvent(proc'[p].job) /\ ClosingEntry(p)
    BY <2>2
  <2>4. CASE proc[p].pc = proc'[p].pc /\ proc[p].job = proc'[p].job
    <3>1. job[proc'[p].job].status = "failed"
      BY <1>6, <2>4, Zenon DEF ClosingInv
    <3>2. proc'[p].pc # "releaseFailed" => proc[p].pc \in {"resolve", "resolveFailed"}
      BY <1>6, <2>4
    <3>3. proc'[p].pc # "releaseFailed" => resv[proc'[p].job].status = "released"
      BY <2>4, <3>2, Zenon DEF ClosingInv
    <3> QED BY <1>1, <1>2, <2>2, <2>3, <3>1, <3>3, Zenon DEF HoldEvent
  <2>5. CASE job[proc'[p].job].status = "failed" /\ resv'[proc'[p].job].status = "released"
    BY <1>1, <1>2, <2>2, <2>5, Zenon
  <2>6. CASE proc'[p].pc = "releaseFailed" /\ job'[proc'[p].job].status = "failed"
    BY <2>6, Zenon
  <2>7. CASE /\ proc[p].pc = "releaseFailed" /\ proc[p].job = proc'[p].job
             /\ resv'[proc'[p].job].status = "released"
    <3>1. proc[p].pc \in {"resolve", "releaseFailed", "resolveFailed"}
      BY <2>7, Zenon
    <3>2. job[proc'[p].job].status = "failed"
      BY <2>7, <3>1, Zenon DEF ClosingInv
    <3> QED BY <1>1, <1>2, <2>2, <2>7, <3>2, Zenon
  <2> QED BY <2>1, <2>3, <2>4, <2>5, <2>6, <2>7, Zenon DEF ClosingEntry
<1>7. ASSUME NEW p \in Procs, proc'[p].pc \in {"resolve", "resolveFailed"}
      PROVE  resv'[proc'[p].job].status = "released"
  <2>1. proc'[p].pc \in {"resolve", "releaseFailed", "resolveFailed"} /\ proc'[p].pc # "releaseFailed"
    BY <1>7
  <2> QED BY <1>6, <2>1, Zenon
<1>8. ASSUME NEW j \in Sources, job'[j].recon = "resolved"
      PROVE  job'[j].status = "failed" /\ resv'[j].status = "released"
  <2>1. job[j].status = "failed" /\ resv[j].status = "released"
    <3>1. CASE job[j].recon = "resolved"
      BY <3>1, Zenon DEF ClosingInv, ResolvedMeansReleased
    <3>2. ASSUME NEW p \in Procs, Closes(p, j) PROVE <2>1
      <4>1. proc[p].pc \in {"resolve", "releaseFailed", "resolveFailed"}
        BY <3>2 DEF Closes
      <4> QED BY <3>2, <4>1, Zenon DEF ClosingInv, Closes
    <3> QED BY <1>8, <3>1, <3>2, Zenon
  <2>2. HoldEvent(j)
    OBVIOUS
  <2> QED BY <1>1, <1>2, <2>1, <2>2, Zenon DEF HoldEvent
<1> QED
  BY <1>3, <1>5, <1>6, <1>7, <1>8, Zenon DEF ClosingInv, ResolvedMeansReleased

\* What a worker relies on when nothing failed: its row is as it left it.
Holds(w) ==
  /\ proc[w].pc \in DOMAIN LocalStatus \ {"capture"} =>
       Fenced(w) /\ Row(w).status = LocalStatus[proc[w].pc]
  /\ proc[w].pc = "fail" => Fenced(w) /\ Row(w).status = proc[w].expected
  /\ proc[w].pc = "release" => Row(w).status = "failed"

\* Without crashes, pauses and failed transactions every worker holds the row
\* it works on, and a hold that was released had lapsed or belongs to a job
\* that ended without success.
QuietInv == faults = 0 =>
  /\ \A w \in Workers : Holds(w)
  /\ \A j \in Sources : resv[j].status = "released" =>
       resv[j].lapsed \/ job[j].status \in Terminal \ {"succeeded"}

\* A worker that holds its row keeps it while it does nothing.
LEMMA HolderStays ==
  ASSUME GenInv, LeaseHoldInv, RowsChange, NEW w \in Workers, Holds(w), proc'[w] = proc[w],
         \A j \in Sources : RowEvent(j) /\ ~HolderPauses(j)
  PROVE  Holds(w)'
<1>0. ProcsOK /\ ChargeInv /\ w \in Procs
  BY DEF GenInv, Procs
<1>1. ASSUME Fenced(w), Row(w).status \in Leased, proc[w].pc # "idle"
      PROVE  Same(job[proc[w].job], job'[proc[w].job])
  <2>1. proc[w].job \in Sources
    BY <1>1, Zenon DEF GenInv, ProcsOK, Resting, WorkerPCs, LocalStatus, Procs
  <2> DEFINE j == proc[w].job
  <2>2. /\ job[j].status # "none" /\ job[j].status # "accepted" /\ job[j].status # "submitted_unknown"
        /\ job[j].live /\ job[j].token = proc[w].token
    BY <1>1 DEF Leased, Fenced, Row
  <2>3. ASSUME NEW p \in Procs, proc[p].job = j, Fenced(p) PROVE p = w
    BY <1>0, <1>1, <2>1, <2>3, Zenon DEF GenInv, FenceInv, Fenced, Row
  <2>4. /\ \A a \in Amounts : ~Accept(j, a)
        /\ ~Cancel(j)
        /\ \A v \in Workers : ~Claim(v, j)
    BY <1>0, <2>1, <2>2, RowWrites, Zenon
  <2>5. ASSUME NEW v \in Workers, proc[v].job = j, Fenced(v), OwnWrite(v) PROVE FALSE
    <3>1. v = w
      BY <2>3, <2>5, Zenon DEF Procs
    <3> QED BY <1>0, <2>5, <3>1, OwnWrites, Zenon
  <2>6. ASSUME NEW p \in Reconcilers, proc[p].job = j, Fenced(p) PROVE FALSE
    <3>1. p \in Procs /\ p # w
      BY ProcsAssumption DEF Procs
    <3> QED BY <2>3, <2>6, <3>1, Zenon
  <2>7. ~OrphanLeaseLapses(j) /\ ~HolderPauses(j)
    BY <1>0, <2>1, <2>2, Zenon DEF OrphanLeaseLapses, HeldBy
  <2>8. RowEvent(j)
    BY <2>1
  <2> QED BY <2>2, <2>4, <2>5, <2>6, <2>7, <2>8, Zenon DEF RowEvent
<1>2. ASSUME Fenced(w), Row(w).status \in Leased, proc[w].pc # "idle"
      PROVE  Fenced(w)' /\ Row(w)'.status = Row(w).status
  <2>1. Same(job[proc[w].job], job'[proc[w].job])
    BY <1>1, <1>2, Zenon
  <2> QED BY <1>2, <2>1, Zenon DEF Same, Fenced, Row
<1>3. ASSUME proc[w].pc \in DOMAIN LocalStatus \ {"capture"}
      PROVE  Fenced(w)' /\ Row(w)'.status = LocalStatus[proc[w].pc]
  <2>1. LocalStatus[proc[w].pc] \in Leased /\ proc[w].pc # "idle"
    BY <1>3, LocalStatusFacts
  <2> QED BY <1>2, <1>3, <2>1, Zenon DEF Holds
<1>4. ASSUME proc[w].pc = "fail"
      PROVE  Fenced(w)' /\ Row(w)'.status = proc[w].expected
  <2>1. proc[w].expected \in Leased /\ proc[w].pc # "idle"
    BY <1>0, <1>4 DEF ProcsOK
  <2> QED BY <1>2, <1>4, <2>1, Zenon DEF Holds
<1>5. ASSUME proc[w].pc = "release" PROVE Row(w)'.status = "failed"
  <2>1. proc[w].job \in Sources
    BY <1>5, Zenon DEF GenInv, ProcsOK, Resting, WorkerPCs, LocalStatus, Procs
  <2>2. job[proc[w].job].status = "failed" /\ "failed" \in Terminal
    BY <1>5 DEF Holds, Row, Terminal
  <2>3. job'[proc[w].job].status = "failed"
    BY <2>1, <2>2, Zenon DEF RowsChange, RowChange
  <2> QED BY <2>3, Zenon DEF Row
<1> QED
  BY <1>3, <1>4, <1>5, Zenon DEF Holds

\* A worker that moves while nothing fails still holds its row.
LEMMA MoverHolds ==
  ASSUME GenInv, NEW w \in Workers, Holds(w), UNCHANGED faults,
         proc'[w].job = proc[w].job, proc'[w].token = proc[w].token, Goes(w)
  PROVE  Holds(w)'
<1>1. /\ "capture" \notin DOMAIN LocalStatus \ {"capture"} /\ "capture" # "fail" /\ "capture" # "release"
      /\ "fail" \notin DOMAIN LocalStatus /\ "release" \notin DOMAIN LocalStatus /\ "fail" # "release"
      /\ LocalStatus["capture"] = "succeeded"
      /\ \A pc \in DOMAIN LocalStatus \ {"capture"} : LocalStatus[pc] # "succeeded"
  <2>1. "succeeded" \notin Leased
    BY Zenon DEF Leased
  <2>2. "fail" \notin DOMAIN LocalStatus /\ "release" \notin DOMAIN LocalStatus
    BY LocalStatusFacts
  <2>3. \A pc \in DOMAIN LocalStatus \ {"capture"} : LocalStatus[pc] # "succeeded"
    BY <2>1, LocalStatusFacts, Zenon
  <2> QED BY <2>2, <2>3, LocalStatusFacts, Zenon
<1>2. ASSUME Same(job[proc[w].job], job'[proc[w].job]), Fenced(w)
      PROVE  Fenced(w)' /\ Row(w)'.status = Row(w).status
  BY <1>2, Zenon DEF Same, Fenced, Row
<1>3. ASSUME proc[w].pc \in DOMAIN LocalStatus, proc'[w].pc \in DOMAIN LocalStatus \ {"capture"},
             Same(job[proc[w].job], job'[proc[w].job]), LocalStatus[proc'[w].pc] = LocalStatus[proc[w].pc]
      PROVE  Holds(w)'
  <2>1. proc[w].pc \in DOMAIN LocalStatus \ {"capture"}
    BY <1>1, <1>3, Zenon
  <2>2. Fenced(w) /\ Row(w).status = LocalStatus[proc[w].pc]
    BY <2>1, Zenon DEF Holds
  <2>3. Fenced(w)' /\ Row(w)'.status = LocalStatus[proc'[w].pc]
    BY <1>2, <1>3, <2>2, Zenon
  <2>4. proc'[w].pc # "fail" /\ proc'[w].pc # "release"
    BY <1>1, <1>3, Zenon
  <2> QED BY <2>3, <2>4, Zenon DEF Holds
<1>4. ASSUME proc'[w].pc \in DOMAIN LocalStatus \ {"capture"}, Fenced(w),
             job'[proc[w].job].status = LocalStatus[proc'[w].pc],
             job'[proc[w].job].token = job[proc[w].job].token,
             job'[proc[w].job].live = job[proc[w].job].live
      PROVE  Holds(w)'
  <2>1. Fenced(w)' /\ Row(w)'.status = LocalStatus[proc'[w].pc]
    BY <1>4, Zenon DEF Fenced, Row
  <2>2. proc'[w].pc # "fail" /\ proc'[w].pc # "release"
    BY <1>1, <1>4
  <2> QED BY <2>1, <2>2, Zenon DEF Holds
<1>5. ASSUME proc'[w].pc = "capture" PROVE Holds(w)'
  BY <1>1, <1>5, Zenon DEF Holds
<1>6. ASSUME proc[w].pc \in DOMAIN LocalStatus \ {"capture"}, proc'[w].pc = "fail",
             proc'[w].expected = LocalStatus[proc[w].pc], Same(job[proc[w].job], job'[proc[w].job])
      PROVE  Holds(w)'
  <2>1. Fenced(w) /\ Row(w).status = LocalStatus[proc[w].pc]
    BY <1>6, Zenon DEF Holds
  <2>2. Fenced(w)' /\ Row(w)'.status = proc'[w].expected
    BY <1>2, <1>6, <2>1, Zenon
  <2> QED BY <1>1, <1>6, <2>2, Zenon DEF Holds
<1>7. ASSUME proc[w].pc = "fail", proc'[w].pc = "release",
             (Fenced(w) /\ job[proc[w].job].status = proc[w].expected /\ UNCHANGED faults) =>
               job'[proc[w].job].status = "failed"
      PROVE  Holds(w)'
  <2>1. Row(w)'.status = "failed"
    BY <1>7, Zenon DEF Holds, Row
  <2> QED BY <1>1, <1>7, <2>1, Zenon DEF Holds
<1> QED
  BY <1>3, <1>4, <1>5, <1>6, <1>7, Zenon DEF Goes

\* A step keeps QuietInv.
LEMMA QuietPreserved ==
  ASSUME GenInv, LeaseHoldInv, ClosingInv, QuietInv, RowsChange, faults \in Nat,
         faults' = faults \/ faults' = faults + 1,
         \A j \in Sources : HolderPauses(j) => faults' = faults + 1,
         \A j \in Sources : RowEvent(j) /\ HoldEvent(j),
         \A w \in Workers : WorkerEvent(w)
  PROVE  QuietInv'
<1> SUFFICES ASSUME faults' = 0
             PROVE  /\ \A w \in Workers : Holds(w)'
                    /\ \A j \in Sources : resv'[j].status = "released" =>
                         resv'[j].lapsed \/ job'[j].status \in Terminal \ {"succeeded"}
  BY Zenon DEF QuietInv
<1>1. faults = 0 /\ UNCHANGED faults /\ \A j \in Sources : ~HolderPauses(j)
  <2>1. faults + 1 # 0
    OBVIOUS
  <2> QED BY <2>1, Zenon
<1>2. \A w \in Workers : Holds(w)
  BY <1>1, Zenon DEF QuietInv
<1>3. ASSUME NEW w \in Workers PROVE Holds(w)'
  <2>1. CASE proc'[w] = proc[w]
    BY <1>1, <1>2, <2>1, HolderStays, Zenon
  <2>2. CASE proc'[w].pc = "idle"
    <3>1. "idle" \notin DOMAIN LocalStatus /\ "idle" # "fail" /\ "idle" # "release"
      BY Zenon DEF LocalStatus
    <3>2. proc'[w].pc \notin DOMAIN LocalStatus \ {"capture"}
      BY <2>2, <3>1
    <3> QED BY <2>2, <3>1, <3>2, Zenon DEF Holds
  <2>3. ASSUME NEW j \in Sources, Claim(w, j) PROVE Holds(w)'
    <3>1. /\ job'[j].status = "reserved" /\ job'[j].live
          /\ proc'[w].pc = "claimed" /\ proc'[w].job = j /\ proc'[w].token = job'[j].token
      BY <2>3, RowWrites, Zenon DEF GenInv
    <3>2. "claimed" # "fail" /\ "claimed" # "release" /\ LocalStatus["claimed"] = "reserved"
      BY Zenon DEF LocalStatus
    <3>3. Fenced(w)' /\ Row(w)'.status = LocalStatus[proc'[w].pc]
      BY <3>1, <3>2, Zenon DEF Fenced, Row
    <3> QED BY <3>1, <3>2, <3>3, Zenon DEF Holds
  <2>4. CASE proc'[w].job = proc[w].job /\ proc'[w].token = proc[w].token /\ Goes(w)
    BY <1>1, <1>2, <2>4, MoverHolds, Zenon
  <2>5. WorkerEvent(w)
    OBVIOUS
  <2> QED BY <2>1, <2>2, <2>3, <2>4, <2>5, Zenon DEF WorkerEvent
<1>4. ASSUME NEW j \in Sources, resv'[j].status = "released"
      PROVE  resv'[j].lapsed \/ job'[j].status \in Terminal \ {"succeeded"}
  <2>1. HoldEvent(j)
    OBVIOUS
  <2>2. ASSUME job[j].status \in Terminal \ {"succeeded"} PROVE job'[j].status \in Terminal \ {"succeeded"}
    <3>1. job[j].status \in Terminal
      BY <2>2
    <3>2. job'[j].status = job[j].status
      BY <3>1, Zenon DEF RowsChange, RowChange
    <3> QED BY <2>2, <3>2, Zenon
  <2>3. ASSUME resv[j].lapsed, resv[j].status # "none" PROVE resv'[j].lapsed
    BY <2>1, <2>3, Zenon DEF HoldEvent
  <2>4. CASE resv[j].status = "released"
    <3>1. resv[j].status # "none"
      BY <2>4
    <3> QED BY <1>1, <2>2, <2>3, <2>4, <3>1, Zenon DEF QuietInv
  <2>5. "failed" \in Terminal \ {"succeeded"}
    BY DEF Terminal
  <2>6. ASSUME NEW p \in Procs, Releases(p, j)
        PROVE  resv'[j].lapsed \/ job'[j].status \in Terminal \ {"succeeded"}
    <3>1. CASE proc[p].pc = "release" /\ proc[p].job = j
      <4>1. "release" \notin ReconcilerPCs /\ "release" \notin OperatorPCs
        BY DEF ReconcilerPCs, OperatorPCs
      <4>2. p \in Workers
        BY <3>1, <4>1, Zenon DEF GenInv, ProcsOK, Procs
      <4>3. job[j].status = "failed"
        BY <1>2, <3>1, <4>2, Zenon DEF Holds, Row
      <4> QED BY <2>2, <2>5, <4>3, Zenon
    <3>2. CASE proc[p].pc = "releaseExpired" /\ proc[p].job = j
      BY <2>3, <3>2, Zenon DEF ClosingInv
    <3>3. CASE proc[p].pc = "releaseFailed" /\ proc[p].job = j
      <4>1. proc[p].pc \in {"resolve", "releaseFailed", "resolveFailed"}
        BY <3>3, Zenon
      <4> QED BY <2>2, <2>5, <3>3, <4>1, Zenon DEF ClosingInv
    <3>4. CASE p \in Reconcilers /\ j \in todo[p] /\ job[j].status # "succeeded"
      <4>1. job[j].status \in Terminal
        BY <3>4, Zenon DEF ClosingInv
      <4>2. job[j].status \in Terminal \ {"succeeded"}
        BY <3>4, <4>1
      <4> QED BY <2>2, <4>2, Zenon
    <3>5. \/ proc[p].pc = "release" /\ proc[p].job = j
          \/ proc[p].pc = "releaseExpired" /\ proc[p].job = j
          \/ proc[p].pc = "releaseFailed" /\ proc[p].job = j
          \/ p \in Reconcilers /\ j \in todo[p] /\ job[j].status # "succeeded"
      BY <2>6 DEF Releases
    <3> QED BY <3>1, <3>2, <3>3, <3>4, <3>5, Zenon
  <2> QED BY <1>4, <2>1, <2>4, <2>6, Zenon DEF HoldEvent
<1> QED
  BY <1>3, <1>4, Zenon

\* The inductive invariant of leases, holds and reconciliations.
SettlingInv == GenInv /\ RestOK /\ LeaseHoldInv /\ ClosingInv /\ QuietInv

\* It holds initially.
LEMMA InitSettling == Init => SettlingInv
<1> SUFFICES ASSUME Init PROVE SettlingInv
  OBVIOUS
<1>1. GenInv /\ RestOK
  BY InitGenInv, BoundsAssumption DEF Init, RestOK
<1>2. ASSUME NEW j \in Sources
      PROVE  /\ job[j].status = "none" /\ job[j].token = 0 /\ job[j].recon = "not_required"
             /\ resv[j].status = "none"
  BY Zenon DEF Init, BillingInit, NoRow, NoReservation
<1>3. ASSUME NEW p \in Procs PROVE proc[p].pc \in {"idle", "stalled"} /\ (p \in Workers => proc[p].pc = "idle")
  BY ProcsAssumption DEF Init, At, Home
<1>4. LeaseHoldInv
  <2>1. \A w \in Workers : proc[w].pc = "idle"
    BY <1>3, Zenon DEF Procs
  <2>2. "idle" \notin Before /\ "none" # "accepted"
    BY DEF Before
  <2> QED BY <1>2, <2>1, <2>2, Zenon DEF LeaseHoldInv
<1>5. ClosingInv
  <2>1. \A p \in Reconcilers : todo[p] = {}
    BY DEF Init
  <2>2. \A p \in Procs : proc[p].pc \notin {"releaseExpired", "resolve", "releaseFailed", "resolveFailed"}
    BY <1>3
  <2>3. ResolvedMeansReleased
    BY <1>2 DEF ResolvedMeansReleased
  <2> QED BY <2>1, <2>2, <2>3 DEF ClosingInv
<1>6. QuietInv
  <2>1. \A w \in Workers : proc[w].pc = "idle"
    BY <1>3 DEF Procs
  <2>2. "idle" \notin DOMAIN LocalStatus \ {"capture"} /\ "idle" # "fail" /\ "idle" # "release"
    BY DEF LocalStatus
  <2>3. \A w \in Workers : Holds(w)
    BY <2>1, <2>2, Zenon DEF Holds
  <2>4. "none" # "released"
    OBVIOUS
  <2> QED BY <1>2, <2>3, <2>4, Zenon DEF QuietInv
<1> QED
  BY <1>1, <1>4, <1>5, <1>6 DEF SettlingInv

\* Every step keeps it.
LEMMA NextSettling ==
  ASSUME SettlingInv, [Next]_vars
  PROVE  SettlingInv'
<1>0. GenInv /\ RestOK /\ LeaseHoldInv /\ ClosingInv /\ QuietInv /\ ProcsOK /\ ChargeInv
  BY Zenon DEF SettlingInv, GenInv
<1>1. CASE Next
  <2>1. GenInv' /\ RestOK' /\ ProcsOK'
    <3>1. GenInv'
      BY <1>0, <1>1, NextGenInv, Zenon
    <3> QED BY <1>0, <1>1, <3>1, NextRest, Zenon DEF GenInv
  <2>2. RowsChange /\ ProcsChange
    BY <1>0, <1>1, NextRows, NextProcs, Zenon
  <2>3. WalletChange
    BY <1>0, <1>1, NextWallet, Zenon DEF ChargeInv
  <2>4. \A j \in Sources : RowEvent(j) /\ HoldEvent(j)
    BY <1>0, <1>1, <2>3, NextRowEvents, WalletHoldEvents, Zenon
  <2>5. faults \in Nat /\ todo \in [Reconcilers -> SUBSET Sources] /\ todo' \in [Reconcilers -> SUBSET Sources]
    BY <1>0, <2>1, BoundsAssumption DEF RestOK
  <2>6. \A w \in Workers : WorkerEvent(w)
    BY <1>0, <1>1, <2>5, NextWorkerEvents, Zenon
  <2>7. LeaseHoldInv'
    BY <1>0, <2>2, <2>4, <2>6, LeaseHoldPreserved, Zenon
  <2>8. \A p \in Procs : ClosingEntry(p)
    BY <1>0, <1>1, <2>1, NextEntries, Zenon
  <2>9. ClosingInv'
    <3>1. /\ \A p \in Reconcilers : \A j \in todo'[p] : j \in todo[p] \/ job[j].status \in Terminal
          /\ \A j \in Sources : job'[j].recon = "resolved" =>
               job[j].recon = "resolved" \/ \E p \in Procs : Closes(p, j)
      BY <1>0, <1>1, <2>5, NextSelections, NextResolved, Zenon
    <3> QED BY <1>0, <2>1, <2>2, <2>4, <2>5, <2>8, <3>1, ClosingPreserved, Zenon
  <2>10. QuietInv'
    <3>1. /\ faults' = faults \/ faults' = faults + 1
          /\ \A j \in Sources : HolderPauses(j) => faults' = faults + 1
      BY <1>1, <2>5, NextSelections, Zenon
    <3> QED BY <1>0, <2>2, <2>4, <2>5, <2>6, <3>1, QuietPreserved, Zenon
  <2> QED BY <2>1, <2>7, <2>9, <2>10, Zenon DEF SettlingInv
<1>2. CASE UNCHANGED vars
  <2>1. UNCHANGED <<job, proc, todo, posted, remote, faults, resv, walletStatus, balance, reserved,
                    ledger, credited>>
    BY <1>2, Zenon DEF vars, genVars, billingVars
  <2>2. GenInv'
    BY <1>0, <1>2, NextGenInv, Zenon
  <2> QED
    BY <1>0, <2>1, <2>2, Zenon
    DEF SettlingInv, RestOK, LeaseHoldInv, ClosingInv, QuietInv, ResolvedMeansReleased, Holds, Fenced, Row
<1> QED
  BY <1>1, <1>2

\* The strengthened invariant holds in every reachable state.
THEOREM SettlingInvariant == Spec => []SettlingInv
BY InitSettling, NextSettling, PTL DEF Spec

\* A reconciliation marked resolved left a failed job whose hold was given
\* back, whatever crashes between the release and the mark.
THEOREM ResolvedMeansReleasedAlways == Spec => []ResolvedMeansReleased
<1>1. SettlingInv => ResolvedMeansReleased
  BY Zenon DEF SettlingInv, ClosingInv
<1> QED
  BY <1>1, SettlingInvariant, PTL

\* While nothing crashed, paused or failed, a succeeded job loses its hold
\* uncharged only if the hold had lapsed.
THEOREM SuccessIsChargedAlways == Spec => []SuccessIsCharged
<1>1. SettlingInv => SuccessIsCharged
  <2>1. "succeeded" \notin Terminal \ {"succeeded"}
    OBVIOUS
  <2> QED BY <2>1, Zenon DEF SettlingInv, QuietInv, SuccessIsCharged
<1> QED
  BY <1>1, SettlingInvariant, PTL

\* A job is submitted to the provider only while its hold is pending.
THEOREM SubmitCoveredAlways == Spec => SubmitCovered
<1>1. ASSUME SettlingInv, [Next]_vars PROVE [SubmitStep]_vars
  <2>0. GenInv /\ ProcsOK /\ ChargeInv /\ LeaseHoldInv
    BY <1>1, Zenon DEF SettlingInv, GenInv
  <2>1. ASSUME Next, NEW j \in Sources, job[j].status # "submitted", job'[j].status = "submitted"
        PROVE  resv[j].status = "pending"
    <3>1. RowEvent(j)
      BY <2>0, <2>1, NextRowEvents, Zenon
    <3>2. /\ job'[j].status \in Early /\ job'[j].status # "accepted" /\ job'[j].status # "cancelled"
          /\ job'[j].status # "reserved" /\ job'[j].status # "queued"
      BY <2>1, Zenon DEF Early
    <3>3. ~Same(job[j], job'[j]) /\ ~OrphanLeaseLapses(j) /\ ~HolderPauses(j)
      BY <2>0, <2>1, RowWrites, Zenon DEF Same
    <3>4. /\ \A a \in Amounts : ~Accept(j, a)
          /\ ~Cancel(j)
          /\ \A w \in Workers : ~Claim(w, j)
      BY <2>0, <3>2, RowWrites, Zenon
    <3>5. ASSUME NEW w \in Workers, proc[w].job = j, Fenced(w), OwnWrite(w)
          PROVE  resv[j].status = "pending"
      <4>1. proc[w].pc = "submit" /\ job[j].status = "queued"
        BY <2>0, <3>2, <3>3, <3>5, OwnWrites, Zenon
      <4>2. proc[w].pc \in Before /\ job[j].status \in PreSubmission
        BY <4>1, Zenon DEF Before, PreSubmission
      <4> QED BY <2>0, <3>5, <4>2, Zenon DEF LeaseHoldInv
    <3>6. ASSUME job'[j].status \notin Early PROVE FALSE
      BY <3>2, <3>6, Zenon
    <3> QED
      BY <3>1, <3>2, <3>3, <3>4, <3>5, <3>6, Zenon DEF RowEvent
  <2>2. CASE UNCHANGED vars
    BY <2>2
  <2> QED
    BY <1>1, <2>1, <2>2, Zenon DEF SubmitStep
<1> QED
  BY <1>1, SettlingInvariant, PTL DEF Spec, SubmitCovered

=============================================================================
