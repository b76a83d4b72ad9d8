------------------------------- MODULE Turns --------------------------------
(***************************************************************************)
(* The turns of one conversation at the grain of row locks: create, send,  *)
(* regenerate and stop (app/conversations/repository.py), the worker's and *)
(* the reconciler's ending transactions (execution_repository.py) and the  *)
(* settlement of a hold (app/billing/service.py).                          *)
(*                                                                         *)
(* A transaction takes its row locks one by one, in the order of the code, *)
(* checks what it has locked, and applies all its writes when it commits;  *)
(* until then nobody sees them.  It may roll back at any point: an error   *)
(* the code raises, a crash of the process, a deadlock victim.  A client   *)
(* repeats a request with the same key whenever it likes, so an answer     *)
(* lost after the commit is a second transaction with that key.            *)
(*                                                                         *)
(* Abstractions: row locks are exclusive; locks that foreign keys take on  *)
(* rows the transaction holds already are left out; deltas and heartbeats, *)
(* which lock a prefix of what Finish locks, are Finish transactions that  *)
(* roll back.  A claim, and giving it back, lock the request alone and are *)
(* a step each.  What the chat worker does between its transactions is in  *)
(* Chat.                                                                   *)
(***************************************************************************)
EXTENDS Naturals, Sequences, FiniteSets

CONSTANTS
  Procs,          \* database sessions
  Requests,       \* bound: inference_requests rows
  NoRequest,
  CreateKeys, SendKeys, RegenerateKeys,     \* client_request_id, by operation
  Contents        \* message contents a client may send

ASSUME TurnsConstants ==
  /\ NoRequest \notin Requests
  /\ "none" \notin Requests \cup CreateKeys \cup SendKeys \cup RegenerateKeys

VARIABLES
  conv,      \* the conversations row
  msgs,      \* its messages, by sequence_no
  reqs,      \* inference_requests
  idem,      \* idempotency_records
  txn,       \* open transactions
  answers    \* history: what was answered to each key

vars == <<conv, msgs, reqs, idem, txn, answers>>

Keys == CreateKeys \cup SendKeys \cup RegenerateKeys
Statuses == {"queued", "running", "stop_requested", "succeeded", "failed",
             "stopped", "submitted_unknown"}
Terminal == {"succeeded", "failed", "stopped"}    \* _TERMINAL_REQUEST_STATUSES
Open == {"queued", "running", "stop_requested"}

NoConversation == [exists |-> FALSE, active |-> NoRequest]
Unused == [status |-> "none", message |-> 0, key |-> "none"]
NoRow == [body |-> "none", resource |-> "none"]
NoTxn == [op |-> "none", key |-> "none", body |-> "none", request |-> NoRequest, at |-> 0]

Init ==
  /\ conv = NoConversation
  /\ msgs = <<>>
  /\ reqs = [r \in Requests |-> Unused]
  /\ idem = [k \in Keys |-> NoRow]
  /\ txn = [p \in Procs |-> NoTxn]
  /\ answers = [k \in Keys |-> {}]

-----------------------------------------------------------------------------
(* Locks. *)

Conv == <<"conversation">>
Model == <<"product_model">>    \* _lock_conversation locks the joined row as well
Wallet == <<"wallet">>

\* The rows a transaction locks, in order.
Plan(p) ==
  LET t == txn[p]
      message == <<"message", reqs[t.request].message>>
  IN
  CASE t.op = "create"     -> << <<"idem", t.key>>, Model>>
    [] t.op = "send"       -> << <<"idem", t.key>>, Conv, Model, Wallet>>
    [] t.op = "regenerate" -> << <<"idem", t.key>>, Conv, Model, <<"message", t.body>>, Wallet>>
    [] t.op = "stop"       -> IF reqs[t.request].status = "queued"
                              THEN <<Conv, Model, <<"request", t.request>>, message>>
                              ELSE <<Conv, Model, <<"request", t.request>> >>
    [] t.op \in {"finish", "reconcile"} -> << <<"request", t.request>>, message, Conv>>
    [] t.op = "settle"     -> <<Wallet, <<"hold", t.request>>, <<"usage", t.request>> >>
    [] OTHER               -> <<>>

Held(p) == {Plan(p)[i] : i \in 1 .. txn[p].at}
Wants(p) == txn[p].at < Len(Plan(p))

-----------------------------------------------------------------------------
(* Checks on the rows locked so far; the transaction rolls back where one    *)
(* fails.                                                                    *)

Taken(k) == idem[k].resource # NoRow.resource
KeyIsNew(t) == t.at >= 1 => ~Taken(t.key)
ConversationIdle(t) == t.at >= 3 => conv.exists /\ conv.active = NoRequest

\* Mutant: the busy check comes after the lock on the message.
MayRegenerateLate(t) ==
  /\ KeyIsNew(t)
  /\ t.at >= 4 => /\ conv.active = NoRequest
                  /\ t.body = Len(msgs) /\ msgs[t.body].role = "assistant"

\* regenerate: the target is the latest message, and an answer.
MayRegenerate(t) ==
  /\ KeyIsNew(t) /\ ConversationIdle(t)
  /\ t.at >= 4 => t.body = Len(msgs) /\ msgs[t.body].role = "assistant"

\* Mutant: stop does not compare its request with the active one.
MayStopAny(t) == t.at >= 2 => conv.exists

\* stop: an ended request, or the active one.
MayStop(t) ==
  /\ t.at >= 2 => conv.exists
  /\ t.at >= 3 => reqs[t.request].status \in Terminal \/ conv.active = t.request

\* _locked_writable_request and _locked_conversation; the same conditions in
\* the queries of the reconciler.
MayEnd(t) ==
  /\ t.at >= 1 => reqs[t.request].status \in {"running", "stop_requested"}
  /\ t.at >= 3 => conv.active = t.request

Passed(p) ==
  LET t == txn[p] IN
  CASE t.op = "create"     -> KeyIsNew(t)
    [] t.op = "send"       -> KeyIsNew(t) /\ ConversationIdle(t)
    [] t.op = "regenerate" -> MayRegenerate(t)
    [] t.op = "stop"       -> MayStop(t)
    [] t.op \in {"finish", "reconcile"} -> MayEnd(t)
    [] OTHER               -> TRUE

-----------------------------------------------------------------------------
(* Transactions. *)

\* p waits for a row that q holds.
Waits(p, q) ==
  /\ p # q
  /\ Wants(p) /\ Passed(p)
  /\ Plan(p)[txn[p].at + 1] \in Held(q)

\* SELECT ... FOR UPDATE, or the insert of the key, which waits for an
\* uncommitted row with the same key.
Acquire(p) ==
  /\ Wants(p) /\ Passed(p)
  /\ \A q \in Procs : ~Waits(p, q)
  /\ txn' = [txn EXCEPT ![p].at = @ + 1]
  /\ UNCHANGED <<conv, msgs, reqs, idem, answers>>

Ready(p, op) ==
  /\ txn[p].op = op
  /\ ~Wants(p) /\ Passed(p)

End(p) == txn' = [txn EXCEPT ![p] = NoTxn]

\* A check that fails, a BillingError or ModelUnavailable, a crash or a
\* deadlock: the whole transaction is undone, its idempotency row included.
Rollback(p) ==
  /\ txn[p].op # "none"
  /\ End(p)
  /\ UNCHANGED <<conv, msgs, reqs, idem, answers>>

-----------------------------------------------------------------------------
(* Requests of a client. *)

\* A transaction of a client with a key, and one about a request.
Keyed(op, key, body) == [op |-> op, key |-> key, body |-> body, request |-> NoRequest, at |-> 0]
About(op, r, at) == [op |-> op, key |-> "none", body |-> "none", request |-> r, at |-> at]

Begin(p, t) ==
  /\ txn[p] = NoTxn
  /\ txn' = [txn EXCEPT ![p] = t]
  /\ UNCHANGED <<conv, msgs, reqs, idem, answers>>

\* The request hash covers the model, the content, or the message.
Call(p) ==
  \/ \E k \in CreateKeys :
       Begin(p, Keyed("create", k, "model"))
  \/ \E k \in SendKeys, c \in Contents :
       Begin(p, Keyed("send", k, c))
  \/ \E k \in RegenerateKeys, i \in DOMAIN msgs :
       Begin(p, Keyed("regenerate", k, i))

CallStop(p) ==
  \E r \in Requests :
    /\ reqs[r].status # "none"
    /\ Begin(p, About("stop", r, 0))

\* The answer and _complete_idempotency: the key's row points to what was made.
Accept(p, resource) ==
  LET t == txn[p] IN
  /\ idem' = [idem EXCEPT ![t.key] = [body |-> t.body, resource |-> resource]]
  /\ answers' = [answers EXCEPT ![t.key] = @ \cup {<<t.body, resource>>}]
  /\ End(p)

\* Mutant: the key of a replay is not compared with the request hash.
ReplayAnyBody(p) ==
  LET t == txn[p] IN
  /\ t.op \in {"create", "send", "regenerate"} /\ t.at = 1
  /\ Taken(t.key)
  /\ answers' = [answers EXCEPT ![t.key] = @ \cup {<<t.body, idem[t.key].resource>>}]
  /\ End(p)
  /\ UNCHANGED <<conv, msgs, reqs, idem>>

\* A key used before: the first answer again, if the request is the same.
Replay(p) ==
  LET t == txn[p] IN
  /\ t.op \in {"create", "send", "regenerate"} /\ t.at = 1
  /\ Taken(t.key) /\ idem[t.key].body = t.body
  /\ answers' = [answers EXCEPT ![t.key] = @ \cup {<<t.body, idem[t.key].resource>>}]
  /\ End(p)
  /\ UNCHANGED <<conv, msgs, reqs, idem>>

Create(p) ==
  /\ Ready(p, "create")
  /\ ~conv.exists    \* bound: one conversation
  /\ conv' = [conv EXCEPT !.exists = TRUE]
  /\ Accept(p, "conversation")
  /\ UNCHANGED <<msgs, reqs>>

\* _append_request_transaction, after the messages.
AppendRequest(p, r) ==
  /\ reqs[r].status = "none"
  /\ reqs' = [reqs EXCEPT ![r] = [status |-> "queued", message |-> Len(msgs'), key |-> txn[p].key]]
  /\ conv' = [conv EXCEPT !.active = r]
  /\ Accept(p, r)

Send(p, r) ==
  /\ Ready(p, "send")
  /\ msgs' = msgs \o <<[role |-> "user", status |-> "accepted"],
                       [role |-> "assistant", status |-> "streaming"]>>
  /\ AppendRequest(p, r)

Regenerate(p, r) ==
  /\ Ready(p, "regenerate")
  /\ msgs' = [msgs EXCEPT ![txn[p].body].status = "streaming"]
  /\ AppendRequest(p, r)

-----------------------------------------------------------------------------
(* Endings. *)

ClearActive(r) == conv' = [conv EXCEPT !.active = IF @ = r THEN NoRequest ELSE @]

\* A request ends with its message, and the conversation is free again.
Close(r, status, message) ==
  /\ reqs' = [reqs EXCEPT ![r].status = status]
  /\ msgs' = [msgs EXCEPT ![reqs[r].message].status = message]
  /\ ClearActive(r)

\* stop: a queued request ends at once, a running one is asked to; on an ended
\* one only a stale active reference is cleared.
Stop(p) ==
  LET r == txn[p].request IN
  /\ Ready(p, "stop")
  /\ \/ /\ reqs[r].status \in Terminal
        /\ ClearActive(r)
        /\ UNCHANGED <<msgs, reqs>>
     \/ /\ reqs[r].status = "queued"
        /\ Close(r, "stopped", "stopped")
     \/ /\ reqs[r].status \in {"running", "submitted_unknown", "stop_requested"}
        /\ reqs' = [reqs EXCEPT ![r].status = "stop_requested"]
        /\ UNCHANGED <<conv, msgs>>
  /\ End(p)
  /\ UNCHANGED <<idem, answers>>

\* A transaction at the row of a request alone, which nobody has locked.
Lease(r, from, to) ==
  /\ reqs[r].status = from
  /\ \A p \in Procs : <<"request", r>> \notin Held(p)
  /\ reqs' = [reqs EXCEPT ![r].status = to]
  /\ UNCHANGED <<conv, msgs, idem, txn, answers>>

\* claim_queued, which skips a row another transaction has locked, and
\* requeue_claimed, after a refused permit.
Claim(r)   == Lease(r, "queued", "running")
Requeue(r) == Lease(r, "running", "queued")

\* A worker with the lease begins to write an ending; the reconciler begins
\* with a request nobody has locked, once its lease has run out.
Work(p) ==
  \E r \in Requests :
    \/ /\ reqs[r].status \in {"running", "stop_requested"}
       /\ Begin(p, About("finish", r, 0))
    \/ /\ reqs[r].status \in {"running", "stop_requested"}
       /\ \A q \in Procs : <<"request", r>> \notin Held(q)
       /\ Begin(p, About("reconcile", r, 1))
    \/ /\ reqs[r].status \in Terminal
       /\ Begin(p, About("settle", r, 0))

\* mark_completed and mark_submitted_unknown need a running request; mark_failed
\* and mark_stopped accept one that was asked to stop.
Finish(p) ==
  LET r == txn[p].request IN
  /\ Ready(p, "finish")
  /\ \/ reqs[r].status = "running" /\ Close(r, "succeeded", "completed")
     \/ reqs[r].status = "running" /\ Close(r, "submitted_unknown", "failed")
     \/ Close(r, "failed", "failed")
     \/ Close(r, "stopped", "stopped")
  /\ End(p)
  /\ UNCHANGED <<idem, answers>>

\* Mutant: the conversation keeps its active request.
ReconcileOnly(p) ==
  LET r == txn[p].request IN
  /\ Ready(p, "reconcile")
  /\ IF reqs[r].status = "running"
     THEN reqs' = [reqs EXCEPT ![r].status = "submitted_unknown"]
     ELSE reqs' = [reqs EXCEPT ![r].status = "stopped"]
  /\ msgs' = [msgs EXCEPT ![reqs[r].message].status = "failed"]
  /\ End(p)
  /\ UNCHANGED <<conv, idem, answers>>

\* reconcile_expired_once, for one request.
Reconcile(p) ==
  LET r == txn[p].request IN
  /\ Ready(p, "reconcile")
  /\ IF reqs[r].status = "running" THEN Close(r, "submitted_unknown", "failed")
     ELSE Close(r, "stopped", "stopped")
  /\ End(p)
  /\ UNCHANGED <<idem, answers>>

\* capture or release; the amounts are in Billing.
Settle(p) ==
  /\ Ready(p, "settle")
  /\ End(p)
  /\ UNCHANGED <<conv, msgs, reqs, idem, answers>>

Step(p) ==
  \/ Call(p) \/ CallStop(p) \/ Work(p)
  \/ Acquire(p) \/ Rollback(p) \/ Replay(p)
  \/ Create(p) \/ (\E r \in Requests : Send(p, r) \/ Regenerate(p, r))
  \/ Stop(p) \/ Finish(p) \/ Reconcile(p) \/ Settle(p)

Next ==
  \/ \E p \in Procs : Step(p)
  \/ \E r \in Requests : Claim(r) \/ Requeue(r)

Spec == Init /\ [][Next]_vars

-----------------------------------------------------------------------------
(* Properties. *)

Message == [role : {"user", "assistant"},
            status : {"accepted", "streaming", "completed", "failed", "stopped"}]
Bodies == Contents \cup Nat \cup {"model", "none"}
Resources == Requests \cup {"conversation", "none"}
Operations == {"none", "create", "send", "regenerate", "stop", "finish", "reconcile", "settle"}

\* Types of the rows and the transactions; a transaction holds at most the locks
\* it plans to take.
TurnsTypeOK ==
  /\ conv \in [exists : BOOLEAN, active : Requests \cup {NoRequest}]
  /\ msgs \in Seq(Message)
  /\ reqs \in [Requests -> [status : Statuses \cup {"none"}, message : Nat,
                            key : Keys \cup {"none"}]]
  /\ idem \in [Keys -> [body : Bodies, resource : Resources]]
  /\ txn \in [Procs -> [op : Operations, key : Keys \cup {"none"}, body : Bodies,
                        request : Requests \cup {NoRequest}, at : Nat]]
  /\ answers \in [Keys -> SUBSET (Bodies \X Resources)]
  /\ \A p \in Procs : txn[p].at <= Len(Plan(p))

\* A key is honoured once: all answers to it name one request body and one
\* resource, and no two requests were made for it, however often the client
\* repeats it, with whatever content, while the first is still open or after
\* its answer was lost.
KeyAcceptedOnce ==
  /\ \A k \in Keys : Cardinality(answers[k]) <= 1
  /\ \A r, s \in Requests :
       reqs[r].status # "none" /\ reqs[r].key = reqs[s].key => r = s

\* The conversation names the one request that is still open, that request
\* writes the last message, and no other message is streaming; messages
\* alternate.  This is what the busy check, regenerate's "latest message" and
\* the worker's history rely on.
TurnsInOrder ==
  /\ \A r \in Requests : reqs[r].status \in Open <=> conv.active = r
  /\ \A i \in DOMAIN msgs :
       /\ msgs[i].role = IF i % 2 = 1 THEN "user" ELSE "assistant"
       /\ msgs[i].status = "streaming" <=>
            conv.active # NoRequest /\ i = Len(msgs) /\ reqs[conv.active].message = i

\* Transactions that wait for each other in a circle.
Circle(S) ==
  /\ S # {}
  /\ \A p \in S : \E q \in S : Waits(p, q)
  /\ \A q \in S : \E p \in S : Waits(p, q)

\* The lock order of the wallet, the hold, the key, the conversation and the
\* message admits one deadlock only: stop, which locks the conversation before
\* the request, against an ending, which locks them the other way round.  The
\* database ends it by rolling one of them back.
OnlyStopDeadlocks ==
  \A S \in SUBSET Procs :
    Circle(S) => \E p, q \in S : txn[p].op = "stop" /\ txn[q].op \in {"finish", "reconcile"}

\* Two transactions never hold the same row.
LocksExclusive == \A p, q \in Procs : p # q => Held(p) \cap Held(q) = {}

\* What a transaction has checked under its locks stays so until it ends,
\* whatever the others commit meanwhile: the busy check, the latest message, the
\* active request and the status of the request are not stale when its writes
\* are applied, although the code looks at them only once.
ChecksStand == [][\A p \in Procs : Passed(p) /\ txn'[p] = txn[p] => Passed(p)']_vars

\* An ended request stays as it ended: stop may not reopen one whose outcome
\* is unknown, though its status is not in _TERMINAL_REQUEST_STATUSES.
EndedStays ==
  [][\A r \in Requests :
       reqs[r].status \in Terminal \cup {"submitted_unknown"} => reqs'[r] = reqs[r]]_vars

=============================================================================
