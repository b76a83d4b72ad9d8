------------------------------ MODULE Artifacts ------------------------------
(***************************************************************************)
(* The results of one generation job in object storage: how they are       *)
(* stored and published, how the user's delete hides them, and how the     *)
(* cleanup processes remove them (app/generations/lifecycle.py, storage.py *)
(* and repository.complete).                                               *)
(*                                                                         *)
(* Object storage and the database share no transaction.  A writer stores  *)
(* its objects first and publishes the rows afterwards; a cleaner marks a  *)
(* row, deletes the object and marks the row again.  A cleaner's mark has  *)
(* no fencing token: a row that has been delete_pending for five minutes   *)
(* is taken by another cleaner although the first may still be at work.    *)
(***************************************************************************)
EXTENDS Integers, FiniteSets

CONSTANTS
  Writers,    \* executions of the job: its worker, and the recovery
  Parts,      \* the results of an execution, such as several images
  Cleaners,   \* artifact_cleanup processes
  NoWriter,   \* nobody holds the job's lease
  NoObject,   \* a cleaner without a claim
  MaxErrors   \* bound: crashes and storage errors

ASSUME ArtifactsAssumption ==
  /\ IsFiniteSet(Writers) /\ IsFiniteSet(Parts) /\ NoWriter \notin Writers /\ MaxErrors \in Nat
  /\ NoObject \notin Writers \X Parts

\* An object key holds a random nonce: two executions never share one.
Objects == Writers \X Parts

VARIABLES
  job,      \* its status, the holder of its lease, and deleted_at
  writer,   \* where each execution is
  store,    \* the objects in storage
  artifact, \* the status of each object's row, "none" if it has none
  due,      \* the rows whose expires_at, or five minutes, have passed
  cleaner,  \* where each cleaner is, and the object it works on
  faults

vars == <<job, writer, store, artifact, due, cleaner, faults>>

RowStatus == {"none", "ready", "expired", "delete_pending", "deleted"}

Init ==
  /\ job = [status |-> "open", owner |-> NoWriter, deleted |-> FALSE]
  /\ writer = [w \in Writers |-> "waiting"]
  /\ store = {}
  /\ artifact = [o \in Objects |-> "none"]
  /\ due = {}
  /\ cleaner = [c \in Cleaners |-> [pc |-> "claim", object |-> NoObject]]
  /\ faults = 0

Fault == faults < MaxErrors /\ faults' = faults + 1

-----------------------------------------------------------------------------
(* The executions of the job.                                              *)

\* An execution holds the lease (claim_accepted, claim_pending_reconciliation).
ClaimJob(w) ==
  /\ writer[w] = "waiting"
  /\ job.status = "open"
  /\ job.owner = NoWriter
  /\ job' = [job EXCEPT !.owner = w]
  /\ writer' = [writer EXCEPT ![w] = "storing"]
  /\ UNCHANGED <<store, artifact, due, cleaner, faults>>

\* put_bytes or transfer_remote stores one result; nothing checks the lease.
Put(w, p) ==
  /\ writer[w] = "storing"
  /\ <<w, p>> \notin store
  /\ store' = store \cup {<<w, p>>}
  /\ UNCHANGED <<job, writer, artifact, due, cleaner, faults>>

\* A publication that relies on the job's status alone.
CompleteUnfenced(w) ==
  /\ writer[w] = "storing"
  /\ \A p \in Parts : <<w, p>> \in store
  /\ artifact' = [o \in Objects |-> IF o[1] = w THEN "ready" ELSE artifact[o]]
  /\ job' = [job EXCEPT !.status = "succeeded", !.owner = NoWriter]
  /\ writer' = [writer EXCEPT ![w] = "done"]
  /\ UNCHANGED <<store, due, cleaner, faults>>

\* repository.complete publishes the rows and ends the job in one transaction,
\* under the lease and only if the job has no rows yet.
Complete(w) ==
  /\ writer[w] = "storing"
  /\ \A p \in Parts : <<w, p>> \in store
  /\ job.owner = w /\ job.status = "open"
  /\ \A o \in Objects : artifact[o] = "none"
  /\ artifact' = [o \in Objects |-> IF o[1] = w THEN "ready" ELSE artifact[o]]
  /\ job' = [job EXCEPT !.status = "succeeded", !.owner = NoWriter]
  /\ writer' = [writer EXCEPT ![w] = "done"]
  /\ UNCHANGED <<store, due, cleaner, faults>>

\* The execution raises: at a download, or in complete because its lease is gone.
\* The objects it stored stay behind.  The job fails if the lease is still held.
WriterRaises(w) ==
  /\ writer[w] = "storing"
  /\ writer' = [writer EXCEPT ![w] = "done"]
  /\ \/ job.owner = w /\ job' = [job EXCEPT !.status = "failed", !.owner = NoWriter]
     \/ job.owner # w /\ UNCHANGED job
  /\ UNCHANGED <<store, artifact, due, cleaner, faults>>

\* The lease lapses, and the execution goes on without knowing.
LeaseLapses ==
  /\ job.owner # NoWriter
  /\ job' = [job EXCEPT !.owner = NoWriter]
  /\ UNCHANGED <<writer, store, artifact, due, cleaner, faults>>

-----------------------------------------------------------------------------
(* The user.                                                               *)

\* soft_delete: only a terminal job; its ready rows expire at once.
SoftDelete ==
  /\ ~job.deleted
  /\ job.status # "open"
  /\ job' = [job EXCEPT !.deleted = TRUE]
  /\ artifact' = [o \in Objects |-> IF artifact[o] = "ready" THEN "expired" ELSE artifact[o]]
  /\ due' = due \cup {o \in Objects : artifact[o] = "ready"}
  /\ UNCHANGED <<writer, store, cleaner, faults>>

-----------------------------------------------------------------------------
(* ArtifactCleanupService.run_once.                                        *)

\* A claim that forgets the rows a dead cleaner left delete_pending.
ClaimRowExpired(c, o) ==
  /\ cleaner[c].pc = "claim"
  /\ artifact[o] = "expired"
  /\ o \in due
  /\ artifact' = [artifact EXCEPT ![o] = "delete_pending"]
  /\ due' = due \ {o}
  /\ cleaner' = [cleaner EXCEPT ![c] = [pc |-> "delete", object |-> o]]
  /\ UNCHANGED <<job, writer, store, faults>>

\* _claim: an expired row that is due, or a stale delete_pending one.
ClaimRow(c, o) ==
  /\ cleaner[c].pc = "claim"
  /\ artifact[o] \in {"expired", "delete_pending"}
  /\ o \in due
  /\ artifact' = [artifact EXCEPT ![o] = "delete_pending"]
  /\ due' = due \ {o}
  /\ cleaner' = [cleaner EXCEPT ![c] = [pc |-> "delete", object |-> o]]
  /\ UNCHANGED <<job, writer, store, faults>>

\* delete_object succeeds also when the object is gone.
DeleteObject(c) ==
  /\ cleaner[c].pc = "delete"
  /\ store' = store \ {cleaner[c].object}
  /\ cleaner' = [cleaner EXCEPT ![c].pc = "complete"]
  /\ UNCHANGED <<job, writer, artifact, due, faults>>

\* A cleaner that takes a storage error for a success.
DeleteRaisesUnnoticed(c) ==
  /\ cleaner[c].pc = "delete"
  /\ store' \in {store, store \ {cleaner[c].object}}
  /\ cleaner' = [cleaner EXCEPT ![c].pc = "complete"]
  /\ Fault
  /\ UNCHANGED <<job, writer, artifact, due>>

\* delete_object raises, with or without an effect.
DeleteRaises(c) ==
  /\ cleaner[c].pc = "delete"
  /\ store' \in {store, store \ {cleaner[c].object}}
  /\ cleaner' = [cleaner EXCEPT ![c].pc = "retry"]
  /\ Fault
  /\ UNCHANGED <<job, writer, artifact, due>>

\* _complete updates a row that is still delete_pending; otherwise it raises, and
\* an error ends the process.
CompleteDeletion(c) ==
  LET o == cleaner[c].object IN
  /\ cleaner[c].pc = "complete"
  /\ \/ /\ artifact[o] = "delete_pending"
        /\ artifact' = [artifact EXCEPT ![o] = "deleted"]
        /\ due' = due \ {o}
        /\ cleaner' = [cleaner EXCEPT ![c] = [pc |-> "claim", object |-> NoObject]]
     \/ /\ artifact[o] # "delete_pending"
        /\ cleaner' = [cleaner EXCEPT ![c] = [pc |-> "down", object |-> NoObject]]
        /\ UNCHANGED <<artifact, due>>
  /\ UNCHANGED <<job, writer, store, faults>>

\* A retry that brings the artifact back.
RetryAsReady(c) ==
  LET o == cleaner[c].object IN
  /\ cleaner[c].pc = "retry"
  /\ artifact' = [artifact EXCEPT ![o] = IF @ = "delete_pending" THEN "ready" ELSE @]
  /\ due' = due \ {o}
  /\ cleaner' = [cleaner EXCEPT ![c] = [pc |-> "down", object |-> NoObject]]
  /\ UNCHANGED <<job, writer, store, faults>>

\* _retry: a row that is still delete_pending expires again in five minutes, and
\* the error ends the process.
Retry(c) ==
  LET o == cleaner[c].object IN
  /\ cleaner[c].pc = "retry"
  /\ \/ /\ artifact[o] = "delete_pending"
        /\ artifact' = [artifact EXCEPT ![o] = "expired"]
        /\ due' = due \ {o}
     \/ artifact[o] # "delete_pending" /\ UNCHANGED <<artifact, due>>
  /\ cleaner' = [cleaner EXCEPT ![c] = [pc |-> "down", object |-> NoObject]]
  /\ UNCHANGED <<job, writer, store, faults>>

CleanerCrash(c) ==
  /\ cleaner[c].pc # "down"
  /\ cleaner' = [cleaner EXCEPT ![c] = [pc |-> "down", object |-> NoObject]]
  /\ Fault
  /\ UNCHANGED <<job, writer, store, artifact, due>>

\* The container's restart policy.
Restart(c) ==
  /\ cleaner[c].pc = "down"
  /\ cleaner' = [cleaner EXCEPT ![c].pc = "claim"]
  /\ UNCHANGED <<job, writer, store, artifact, due, faults>>

\* Five minutes pass, whether or not a cleaner is still at work on the row.
DeletionDue(o) ==
  /\ artifact[o] \in {"expired", "delete_pending"}
  /\ o \notin due
  /\ due' = due \cup {o}
  /\ UNCHANGED <<job, writer, store, artifact, cleaner, faults>>

CleanerStep(c) ==
  \/ \E o \in Objects : ClaimRow(c, o)
  \/ DeleteObject(c) \/ CompleteDeletion(c) \/ Retry(c)
  \/ Restart(c)

Next ==
  \/ \E w \in Writers :
       \/ ClaimJob(w) \/ Complete(w) \/ WriterRaises(w)
       \/ \E p \in Parts : Put(w, p)
  \/ LeaseLapses
  \/ SoftDelete
  \/ \E c \in Cleaners :
       \/ \E o \in Objects : ClaimRow(c, o)
       \/ DeleteObject(c) \/ DeleteRaises(c)
       \/ CompleteDeletion(c) \/ Retry(c)
       \/ CleanerCrash(c) \/ Restart(c)
  \/ \E o \in Objects : DeletionDue(o)

\* The cleaners run and are restarted, and time passes.
Fairness ==
  /\ \A c \in Cleaners : WF_vars(CleanerStep(c))
  /\ \A o \in Objects : WF_vars(DeletionDue(o))

Spec == Init /\ [][Next]_vars /\ Fairness

-----------------------------------------------------------------------------
(* Properties.                                                             *)

\* Type invariant; only a row that waits for its deletion can be due for it.
ArtifactsTypeOK ==
  /\ job \in [status : {"open", "succeeded", "failed"}, owner : Writers \cup {NoWriter},
              deleted : BOOLEAN]
  /\ writer \in [Writers -> {"waiting", "storing", "done"}]
  /\ store \subseteq Objects
  /\ artifact \in [Objects -> RowStatus]
  /\ due \subseteq {o \in Objects : artifact[o] \in {"expired", "delete_pending"}}
  /\ cleaner \in [Cleaners -> [pc : {"claim", "delete", "complete", "retry", "down"},
                               object : Objects \cup {NoObject}]]
  /\ faults \in 0..MaxErrors

\* An artifact the API offers for download is in storage: objects are stored
\* before their rows are published, and no failed deletion is taken back to ready
\* (repository.complete, _retry).
ReadyIsStored == \A o \in Objects : artifact[o] = "ready" => o \in store

\* The artifacts of a job come from one execution, although a second one may have
\* stored its own objects (the lease and the existing_artifacts check of complete).
OneExecutionPublished ==
  \A o, p \in Objects : artifact[o] # "none" /\ artifact[p] # "none" => o[1] = p[1]

\* A row says deleted only when the object is gone, whichever of two cleaners
\* marked it and whatever the other one met (run_once, _complete).
DeletedIsGone == \A o \in Objects : artifact[o] = "deleted" => o \notin store

\* After the user's delete every published object leaves storage, although
\* cleaners die between any two steps and storage fails a few times.
DeletionCompletes ==
  \A o \in Objects :
    (job.deleted /\ artifact[o] # "none") ~> (artifact[o] = "deleted" /\ o \notin store)

=============================================================================
