----------------------------- MODULE ChatProofs ------------------------------
(***************************************************************************)
(* Proofs about durable chat, for any number of requests, workers,         *)
(* reconcilers, deltas, claims and faults: the provider is asked at most   *)
(* once, only whole answers are completed, holds are settled as requests   *)
(* ended, and the event log is the one that ChatLog specifies.             *)
(***************************************************************************)
EXTENDS Chat, TLAPS

-----------------------------------------------------------------------------
(* The inductive invariant. *)

\* A row q with log l and hold h: its lease is of its last claim; it counts its
\* events; its hold is pending while it is open, and captured at its usage.
RowFine(q, l, h) ==
  /\ q \in RequestRow /\ l \in Seq(Log!EventTypes) /\ h \in Reservation
  /\ q.token \in {0, q.claims}
  /\ q.status = "none" <=> l = <<>>
  /\ q.seq = Len(l) - 1
  /\ q.status = "none" => h.status = "none" /\ q.claims = 0
  /\ q.status \in Open \cup {"submitted_unknown"} => h.status = "pending"
  /\ h.status = "committed" => q.status = "succeeded" /\ h.captured = q.usage

RowsFine ==
  /\ req = [r \in Sources |-> req[r]]
  /\ log = [r \in Sources |-> log[r]]
  /\ resv = [r \in Sources |-> resv[r]]
  /\ \A r \in Sources : RowFine(req[r], log[r], resv[r])

BeforeSending == {"check", "admission", "requeue"}
Sending == {"post", "chunks", "chunk", "blank", "delta", "final", "complete"}

\* A worker s on row q: its program counter tells how far it has come with the
\* provider; once it is about to send, its claim stays the last one; while its
\* lease is current nobody else writes; it goes on to complete a whole answer.
OnRow(s, q) ==
  /\ s.token \in 1 .. q.claims
  /\ s.phase = "sent" => s.token = q.claims /\ q.status \notin {"none", "queued"}
  /\ q.token = s.token => q.seq = s.seq
  /\ s.pc = "final" /\ ~s.whole => ~(q.token = s.token /\ q.status = "running" /\ q.live)
  /\ s.pc = "capture" => q.status = "succeeded"
  /\ s.pc = "release" => q.status \in {"stopped", "failed"}

WorkerFine(s) ==
  /\ s \in WorkerState
  /\ s = Idle \/ (s.pc # "idle" /\ s.req \in Sources)
  /\ s.pc \in BeforeSending => s.phase = "before"
  /\ s.pc = "recheck" => s.phase = "admitted"
  /\ s.pc \in Sending => s.phase = "sent"
  /\ s.pc \in {"chunk", "delta"} => s.seq < MaxDeltas
  /\ s.pc = "complete" => s.whole

\* Two workers on one request hold different claims of it.
Apart(s, t) == s.req \in Sources /\ s.req = t.req => s.token # t.token

WorkersFine ==
  /\ worker = [w \in Workers |-> worker[w]]
  /\ \A w \in Workers : WorkerFine(worker[w])
  /\ \A w \in Workers : worker[w].req \in Sources => OnRow(worker[w], req[worker[w].req])
  /\ \A w, v \in Workers : w # v => Apart(worker[w], worker[v])

\* After a request was sent it is not queued again, and the worker with its
\* last claim is past sending.
Past(s, r, q) == s.req = r /\ s.token = q.claims => s.phase = "sent" /\ s.pc # "post"

PostsFine ==
  /\ posted = [r \in Sources |-> posted[r]]
  /\ \A r \in Sources : posted[r] \in {0, 1}
  /\ \A r \in Sources : posted[r] = 1 =>
       /\ req[r].status \notin {"none", "queued"}
       /\ \A w \in Workers : Past(worker[w], r, req[r])

\* What a reconciler selected has ended.
LoopsFine ==
  /\ todo = [p \in Reconcilers |-> todo[p]]
  /\ loop = [p \in Reconcilers |-> loop[p]]
  /\ \A p \in Reconcilers : todo[p] \subseteq {r \in Sources : req[r].status \in Ended}
  /\ \A p \in Reconcilers : loop[p].pc = "releaseExpired" =>
       loop[p].req \in Sources /\ req[loop[p].req].status = "succeeded"

ChatInv == RowsFine /\ WorkersFine /\ PostsFine /\ LoopsFine

-----------------------------------------------------------------------------
(* What most steps do to rows and workers. *)

\* A row stays with its claim and goes on towards its end.
Steady(a, b) ==
  /\ b \in RequestRow
  /\ b.claims = a.claims
  /\ b.token \in {0, a.token}
  /\ a.status \in Terminal => b.status = a.status
  /\ b.status \in {"none", "queued"} => b.status = a.status
  /\ b.status = "running" => a.status = "running"
  /\ b.live => a.live

\* Moreover it is written under a lease only when the lease is given up.
KeepsRow(a, b) == Steady(a, b) /\ (b.token # 0 => b.seq = a.seq)

\* A worker stays on its claim, or leaves.
KeepsWorker(s, t) ==
  \/ t = s
  \/ t = Idle
  \/ /\ s.req \in Sources /\ t.req = s.req /\ t.token = s.token
     /\ s.phase = "sent" => t.phase = "sent" /\ t.pc # "post"

\* Rows, logs and holds have their types.
LEMMA RowTypes ==
  ASSUME ChatInv, NEW r \in Sources
  PROVE  RowFine(req[r], log[r], resv[r]) /\ req[r] \in RequestRow
BY DEF ChatInv, RowsFine, RowFine

\* A row is a row of its own successor.
LEMMA SameRow ==
  ASSUME NEW a \in RequestRow
  PROVE  KeepsRow(a, a)
BY DEF KeepsRow, Steady

\* Facts about a worker and its row outlive such a step of the row.
LEMMA OnRowKept ==
  ASSUME NEW s \in WorkerState, NEW a \in RequestRow, NEW b, KeepsRow(a, b), OnRow(s, a)
  PROVE  OnRow(s, b)
BY DEF KeepsRow, Steady, OnRow, RequestRow, WorkerState, Terminal, Ended

\* An idle worker has no request.
LEMMA IdleFine ==
  WorkerFine(Idle) /\ Idle.req \notin Sources
BY ChatConstants DEF Idle, WorkerFine, WorkerState, WorkerPCs, Phases, BeforeSending, Sending

\* Rows that go on and workers that stay or leave keep the invariant.
LEMMA WorkersKept ==
  ASSUME ChatInv, \A r \in Sources : KeepsRow(req[r], req'[r]),
         worker' = [w \in Workers |-> worker'[w]],
         \A w \in Workers : KeepsWorker(worker[w], worker'[w]),
         \A w \in Workers : \/ worker'[w] = worker[w]
                            \/ worker'[w] = Idle
                            \/ WorkerFine(worker'[w]) /\ OnRow(worker'[w], req'[worker'[w].req])
  PROVE  WorkersFine'
<1> USE DEF ChatInv
<1>1. ASSUME NEW w \in Workers PROVE WorkerFine(worker'[w])
  BY IdleFine DEF WorkersFine
<1>2. ASSUME NEW w \in Workers, worker'[w].req \in Sources
      PROVE  OnRow(worker'[w], req'[worker'[w].req])
  <2>1. CASE worker'[w] = worker[w]
    <3>1. worker[w] \in WorkerState /\ worker[w].req \in Sources
          /\ OnRow(worker[w], req[worker[w].req])
      BY <1>2, <2>1 DEF WorkersFine, WorkerFine
    <3> QED
      BY <2>1, <3>1, OnRowKept, RowTypes
  <2>2. CASE worker'[w] = Idle
    BY <1>2, <2>2, IdleFine
  <2> QED
    BY <2>1, <2>2
<1>3. ASSUME NEW w \in Workers, NEW v \in Workers, w # v PROVE Apart(worker'[w], worker'[v])
  <2>1. Apart(worker[w], worker[v])
    BY <1>3 DEF WorkersFine
  <2>2. \A u \in Workers : worker'[u].req \in Sources =>
          worker'[u].req = worker[u].req /\ worker'[u].token = worker[u].token
    BY IdleFine DEF KeepsWorker
  <2> QED
    BY <2>1, <2>2 DEF Apart
<1> QED
  BY <1>1, <1>2, <1>3 DEF WorkersFine

\* So they do for what was sent ...
LEMMA PostsKept ==
  ASSUME ChatInv, \A r \in Sources : Steady(req[r], req'[r]), posted' = posted,
         \A w \in Workers : KeepsWorker(worker[w], worker'[w])
  PROVE  PostsFine'
<1> USE DEF ChatInv
<1>1. ASSUME NEW r \in Sources, posted[r] = 1
      PROVE  /\ req'[r].status \notin {"none", "queued"}
             /\ \A w \in Workers : Past(worker'[w], r, req'[r])
  <2>1. req[r].status \notin {"none", "queued"} /\ Steady(req[r], req'[r])
    BY <1>1 DEF PostsFine
  <2>2. ASSUME NEW w \in Workers PROVE Past(worker'[w], r, req'[r])
    <3>1. Past(worker[w], r, req[r]) /\ KeepsWorker(worker[w], worker'[w])
      BY <1>1 DEF PostsFine
    <3> QED
      BY <2>1, <3>1, IdleFine DEF Past, KeepsWorker, KeepsRow, Steady
  <2> QED
    BY <2>1, <2>2 DEF KeepsRow, Steady
<1> QED
  BY <1>1 DEF PostsFine

\* ... and for what was selected.
LEMMA LoopsKept ==
  ASSUME ChatInv, \A r \in Sources : Steady(req[r], req'[r]), UNCHANGED <<loop, todo>>
  PROVE  LoopsFine'
<1>1. \A r \in Sources : req[r].status \in Ended => req'[r].status = req[r].status
  BY DEF KeepsRow, Steady, Terminal
<1>2. "succeeded" \in Ended
  BY DEF Ended
<1> QED
  BY <1>1, <1>2 DEF ChatInv, LoopsFine

\* A step that leaves rows, logs and holds alone.
LEMMA RowsRest ==
  ASSUME ChatInv, UNCHANGED <<req, log, resv>>
  PROVE  RowsFine' /\ \A r \in Sources : KeepsRow(req[r], req'[r])
<1>1. req' = req /\ log' = log /\ resv' = resv
  OBVIOUS
<1>2. RowsFine'
  BY <1>1 DEF ChatInv, RowsFine
<1> QED
  BY <1>1, <1>2, RowTypes, SameRow

\* A step of one row, its log and its hold.
LEMMA OneRowFine ==
  ASSUME ChatInv, NEW r \in Sources, NEW q, NEW l, NEW h, req' = [req EXCEPT ![r] = q],
         log' = [log EXCEPT ![r] = l], resv' = [resv EXCEPT ![r] = h], RowFine(q, l, h)
  PROVE  RowsFine' /\ req'[r] = q /\ \A x \in Sources \ {r} : req'[x] = req[x]
<1>1. /\ req'[r] = q /\ log'[r] = l /\ resv'[r] = h
      /\ \A x \in Sources \ {r} : req'[x] = req[x] /\ log'[x] = log[x] /\ resv'[x] = resv[x]
  BY DEF ChatInv, RowsFine
<1>2. /\ req' = [x \in Sources |-> req'[x]] /\ log' = [x \in Sources |-> log'[x]]
      /\ resv' = [x \in Sources |-> resv'[x]]
  BY Zenon DEF ChatInv, RowsFine
<1>3. \A x \in Sources : RowFine(req'[x], log'[x], resv'[x])
  BY <1>1, RowTypes
<1> QED
  BY <1>1, <1>2, <1>3 DEF RowsFine

\* Such a step with a row that goes on.
LEMMA OneRow ==
  ASSUME ChatInv, NEW r \in Sources, NEW q, NEW l, req' = [req EXCEPT ![r] = q],
         log' = [log EXCEPT ![r] = l], resv' = resv,
         KeepsRow(req[r], q), RowFine(q, l, resv[r])
  PROVE  RowsFine' /\ (\A x \in Sources : KeepsRow(req[x], req'[x])) /\ req'[r] = q
<1>1. resv' = [resv EXCEPT ![r] = resv[r]]
  BY DEF ChatInv, RowsFine
<1>2. RowsFine' /\ req'[r] = q /\ \A x \in Sources \ {r} : req'[x] = req[x]
  BY <1>1, OneRowFine, Zenon
<1> QED
  BY <1>2, RowTypes, SameRow

\* What WorkersKept asks of the workers.
WorkersMove ==
  /\ worker' = [w \in Workers |-> worker'[w]]
  /\ \A w \in Workers : KeepsWorker(worker[w], worker'[w])
  /\ \A w \in Workers : \/ worker'[w] = worker[w]
                        \/ worker'[w] = Idle
                        \/ WorkerFine(worker'[w]) /\ OnRow(worker'[w], req'[worker'[w].req])

\* A step without a worker.
LEMMA WorkersRest ==
  ASSUME ChatInv, UNCHANGED worker
  PROVE  WorkersMove
BY DEF ChatInv, WorkersFine, WorkersMove, KeepsWorker

\* A step of one worker.
LEMMA OneWorker ==
  ASSUME ChatInv, NEW w \in Workers, NEW t, worker' = [worker EXCEPT ![w] = t],
         KeepsWorker(worker[w], t), t = Idle \/ (WorkerFine(t) /\ OnRow(t, req'[t.req]))
  PROVE  WorkersMove
<1>1. worker' = [v \in Workers |-> worker'[v]]
  BY DEF ChatInv, WorkersFine
<1>2. worker'[w] = t /\ \A v \in Workers \ {w} : worker'[v] = worker[v]
  BY DEF ChatInv, WorkersFine
<1>3. \A v \in Workers : KeepsWorker(worker[v], worker'[v])
  BY <1>2 DEF KeepsWorker
<1> QED
  BY <1>1, <1>2, <1>3 DEF WorkersMove

\* Rows that go on, workers that stay or leave, loops that rest.
LEMMA GoesOn ==
  ASSUME ChatInv, RowsFine', \A r \in Sources : KeepsRow(req[r], req'[r]), WorkersMove,
         UNCHANGED <<posted, loop, todo>>
  PROVE  ChatInv'
BY WorkersKept, PostsKept, LoopsKept DEF WorkersMove, ChatInv, KeepsRow

\* A worker at work is on a row.
LEMMA AtWork ==
  ASSUME ChatInv, NEW w \in Workers, worker[w].pc # "idle"
  PROVE  /\ WorkerFine(worker[w]) /\ worker[w] \in WorkerState /\ worker[w].req \in Sources
         /\ OnRow(worker[w], req[worker[w].req]) /\ req[worker[w].req] \in RequestRow
<1>1. WorkerFine(worker[w])
  BY DEF ChatInv, WorkersFine
<1>2. worker[w].req \in Sources
  BY <1>1 DEF WorkerFine, Idle
<1> QED
  BY <1>1, <1>2, RowTypes DEF ChatInv, WorkersFine, WorkerFine

-----------------------------------------------------------------------------
(* Steps of a worker that write no row. *)

\* A worker turns to its next task.
LEMMA Turns ==
  ASSUME NEW s, NEW q \in RequestRow, WorkerFine(s), s.req \in Sources, OnRow(s, q),
         NEW pc \in WorkerPCs \ {"idle", "recheck", "post", "capture", "release"},
         pc \in BeforeSending => s.phase = "before",
         pc \in Sending => s.phase = "sent",
         pc \in {"chunk", "delta"} => s.seq < MaxDeltas,
         pc = "complete" => s.whole,
         pc = "final" => s.whole \/ ~(q.token = s.token /\ q.status = "running" /\ q.live),
         NEW t, t = [s EXCEPT !.pc = pc]
  PROVE  WorkerFine(t) /\ OnRow(t, q) /\ KeepsWorker(s, t) /\ t.req = s.req
<1>1. s \in WorkerState
  BY DEF WorkerFine
<1>2. /\ t \in WorkerState /\ t.pc = pc /\ t.req = s.req /\ t.token = s.token /\ t.seq = s.seq
      /\ t.phase = s.phase /\ t.whole = s.whole
  BY <1>1 DEF WorkerState
<1>3. WorkerFine(t)
  BY <1>2 DEF WorkerFine
<1>4. OnRow(t, q)
  BY <1>2 DEF OnRow
<1> QED
  BY <1>2, <1>3, <1>4 DEF KeepsWorker

\* A worker that turns or leaves, and nothing else, keeps the invariant.
LEMMA OnlyWorker ==
  ASSUME ChatInv, NEW w \in Workers, worker[w].pc # "idle", NEW t,
         worker' = [worker EXCEPT ![w] = t],
         t = Idle \/ (WorkerFine(t) /\ OnRow(t, req[worker[w].req]) /\ t.req = worker[w].req),
         KeepsWorker(worker[w], t), UNCHANGED <<req, log, resv, posted, loop, todo>>
  PROVE  ChatInv'
<1>1. t = Idle \/ (WorkerFine(t) /\ OnRow(t, req'[t.req]))
  OBVIOUS
<1>2. WorkersMove
  BY <1>1, OneWorker, Zenon
<1>3. RowsFine' /\ \A r \in Sources : KeepsRow(req[r], req'[r])
  BY RowsRest
<1> QED
  BY <1>2, <1>3, GoesOn

\* A worker that leaves.
LEMMA Leaves ==
  ASSUME ChatInv, NEW w \in Workers, worker[w].pc # "idle", Leave(w),
         UNCHANGED <<req, log, resv, posted, loop, todo>>
  PROVE  ChatInv'
BY OnlyWorker, Zenon DEF Leave, KeepsWorker

\* A worker that turns.
LEMMA Goes ==
  ASSUME ChatInv, NEW w \in Workers, worker[w].pc # "idle",
         NEW pc \in WorkerPCs \ {"idle", "recheck", "post", "capture", "release"}, Goto(w, pc),
         pc \in BeforeSending => worker[w].phase = "before",
         pc \in Sending => worker[w].phase = "sent",
         pc \in {"chunk", "delta"} => worker[w].seq < MaxDeltas,
         pc = "complete" => worker[w].whole,
         pc = "final" => worker[w].whole \/ ~(Owns(w) /\ Row(w).status = "running" /\ Row(w).live),
         UNCHANGED <<req, log, resv, posted, loop, todo>>
  PROVE  ChatInv'
<1> DEFINE s == worker[w]
           q == req[s.req]
           t == [s EXCEPT !.pc = pc]
<1>1. WorkerFine(s) /\ s.req \in Sources /\ OnRow(s, q) /\ q \in RequestRow
  BY AtWork
<1>2. pc = "final" => s.whole \/ ~(q.token = s.token /\ q.status = "running" /\ q.live)
  BY DEF Owns, Row
<1>3. worker' = [worker EXCEPT ![w] = t]
  BY DEF Goto
<1>4. WorkerFine(t) /\ OnRow(t, q) /\ KeepsWorker(s, t) /\ t.req = s.req
  <2> HIDE DEF s, q, t
  <2>1. t = [s EXCEPT !.pc = pc]
    BY DEF t
  <2>2. /\ pc \in BeforeSending => s.phase = "before"
        /\ pc \in Sending => s.phase = "sent"
        /\ pc \in {"chunk", "delta"} => s.seq < MaxDeltas
        /\ pc = "complete" => s.whole
    BY DEF s
  <2> QED
    BY <1>1, <1>2, <2>1, <2>2, Turns
<1> HIDE DEF t
<1> QED
  BY <1>3, <1>4, OnlyWorker, Zenon

\* The tasks a worker turns to are tasks.
LEMMA Tasks ==
  {"check", "admission", "requeue", "chunks", "chunk", "blank", "delta", "final", "complete",
   "stop", "fail", "unknown"} \subseteq WorkerPCs \ {"idle", "recheck", "post", "capture", "release"}
BY DEF WorkerPCs

\* CheckStop: only a worker whose lease is current goes on to send.
LEMMA CheckStopStep ==
  ASSUME ChatInv, NEW w \in Workers, CheckStop(w)
  PROVE  ChatInv'
<1> DEFINE s == worker[w]
           q == req[s.req]
<1>1. /\ s.pc \in {"check", "recheck"} /\ UNCHANGED <<req, log, resv, posted, loop, todo>>
  BY DEF CheckStop, billingVars
<1>2. /\ WorkerFine(s) /\ s \in WorkerState /\ s.req \in Sources /\ OnRow(s, q) /\ q \in RequestRow
      /\ RowFine(q, log[s.req], resv[s.req])
  BY <1>1, AtWork, RowTypes
<1>3. CASE Leave(w)
  BY <1>1, <1>3, Leaves
<1>4. CASE Goto(w, "stop")
  BY <1>1, <1>4, Goes, Tasks DEF BeforeSending, Sending
<1>5. CASE s.pc = "check" /\ Goto(w, "admission")
  <2>1. s.phase = "before"
    BY <1>2, <1>5 DEF WorkerFine, BeforeSending
  <2> QED
    BY <1>1, <1>5, <2>1, Goes, Tasks DEF BeforeSending, Sending
<1>6. CASE /\ s.pc = "recheck" /\ Valid(w) /\ Row(w).status = "running"
           /\ worker' = [worker EXCEPT ![w] = [@ EXCEPT !.pc = "post", !.phase = "sent"]]
  <2> DEFINE t == [s EXCEPT !.pc = "post", !.phase = "sent"]
  <2>1. /\ t \in WorkerState /\ t.pc = "post" /\ t.req = s.req /\ t.token = s.token
        /\ t.seq = s.seq /\ t.phase = "sent" /\ t.whole = s.whole
    BY <1>2, Zenon DEF WorkerState, WorkerPCs, Phases
  <2>2. worker' = [worker EXCEPT ![w] = t]
    BY <1>6
  <2> HIDE DEF t
  <2>3. WorkerFine(t)
    BY <1>2, <2>1 DEF WorkerFine, BeforeSending, Sending
  <2>4. q.status = "running" /\ q.token = s.token
    BY <1>6 DEF Valid, Owns, Row
  <2>5. OnRow(t, q)
    BY <1>2, <2>1, <2>4 DEF OnRow, RowFine
  <2>6. s.phase = "admitted"
    BY <1>2, <1>6 DEF WorkerFine
  <2>7. KeepsWorker(s, t)
    BY <1>2, <2>1, <2>6 DEF KeepsWorker
  <2> QED
    BY <1>1, <2>1, <2>2, <2>3, <2>5, <2>7, OnlyWorker, Zenon
<1> QED
  BY <1>3, <1>4, <1>5, <1>6 DEF CheckStop, CheckThen

\* RejectHistory, Admit and Saturate.
LEMMA AdmissionStep ==
  ASSUME ChatInv, NEW w \in Workers, RejectHistory(w) \/ Admit(w) \/ Saturate(w)
  PROVE  ChatInv'
<1> DEFINE s == worker[w]
           q == req[s.req]
<1>1. /\ s.pc = "admission" /\ UNCHANGED <<req, log, resv, posted, loop, todo>>
  BY DEF RejectHistory, Admit, Saturate, billingVars
<1>2. /\ WorkerFine(s) /\ s \in WorkerState /\ s.req \in Sources /\ OnRow(s, q)
  BY <1>1, AtWork
<1>3. s.phase = "before"
  BY <1>1, <1>2 DEF WorkerFine, BeforeSending
<1>4. CASE RejectHistory(w) \/ Saturate(w)
  <2>1. Goto(w, "fail") \/ Goto(w, "requeue")
    BY <1>4 DEF RejectHistory, Saturate
  <2> QED
    BY <1>1, <1>3, <2>1, Goes, Tasks DEF BeforeSending, Sending
<1>5. CASE Admit(w)
  <2> DEFINE t == [s EXCEPT !.pc = "recheck", !.phase = "admitted"]
  <2>1. /\ t \in WorkerState /\ t.pc = "recheck" /\ t.req = s.req /\ t.token = s.token
        /\ t.seq = s.seq /\ t.phase = "admitted" /\ t.whole = s.whole
    BY <1>2, Zenon DEF WorkerState, WorkerPCs, Phases
  <2>2. worker' = [worker EXCEPT ![w] = t]
    BY <1>5 DEF Admit
  <2> HIDE DEF t
  <2>3. WorkerFine(t)
    BY <1>2, <2>1 DEF WorkerFine, BeforeSending, Sending
  <2>4. OnRow(t, q)
    BY <1>2, <2>1 DEF OnRow
  <2>5. KeepsWorker(s, t)
    BY <1>2, <1>3, <2>1 DEF KeepsWorker
  <2> QED
    BY <1>1, <2>1, <2>2, <2>3, <2>4, <2>5, OnlyWorker, Zenon
<1> QED
  BY <1>4, <1>5

\* NextChunk, StreamEnds, CheckChunk and FinalCheck: the loop over the stream.
LEMMA StreamStep ==
  ASSUME ChatInv, NEW w \in Workers,
         NextChunk(w) \/ StreamEnds(w) \/ CheckChunk(w) \/ FinalCheck(w)
  PROVE  ChatInv'
<1> DEFINE s == worker[w]
           q == req[s.req]
<1>1. /\ s.pc \in {"chunks", "chunk", "blank", "final"}
      /\ UNCHANGED <<req, log, resv, posted, loop, todo>>
  BY DEF NextChunk, StreamEnds, CheckChunk, FinalCheck, billingVars
<1>2. /\ WorkerFine(s) /\ s \in WorkerState /\ s.req \in Sources /\ OnRow(s, q) /\ s.phase = "sent"
  BY <1>1, AtWork DEF WorkerFine, Sending
<1>3. CASE Leave(w)
  BY <1>1, <1>3, Leaves
<1>4. ASSUME NEW pc \in {"stop", "unknown", "blank", "chunks"}, Goto(w, pc) PROVE ChatInv'
  BY <1>1, <1>2, <1>4, Goes, Tasks DEF BeforeSending
<1>5. ASSUME NEW pc \in {"chunk", "delta"}, Goto(w, pc), s.seq < MaxDeltas PROVE ChatInv'
  BY <1>1, <1>2, <1>5, Goes, Tasks DEF BeforeSending
<1>6. CASE Goto(w, "final") /\ ~Valid(w)
  <2>1. ~(Owns(w) /\ Row(w).status = "running" /\ Row(w).live)
    BY <1>6 DEF Valid, Executing
  <2> QED
    BY <1>1, <1>2, <1>6, <2>1, Goes, Tasks DEF BeforeSending
<1>7. CASE s.pc = "final" /\ Goto(w, "complete") /\ Valid(w) /\ Row(w).status = "running"
  <2>1. s.whole
    BY <1>2, <1>7 DEF OnRow, Valid, Owns, Row
  <2> QED
    BY <1>1, <1>2, <1>7, <2>1, Goes, Tasks DEF BeforeSending
<1>8. CASE worker' = [worker EXCEPT ![w] = [@ EXCEPT !.pc = "final", !.whole = TRUE]]
  <2> DEFINE t == [s EXCEPT !.pc = "final", !.whole = TRUE]
  <2>1. /\ t \in WorkerState /\ t.pc = "final" /\ t.req = s.req /\ t.token = s.token
        /\ t.seq = s.seq /\ t.phase = s.phase /\ t.whole
    BY <1>2, Zenon DEF WorkerState, WorkerPCs, Phases
  <2>2. worker' = [worker EXCEPT ![w] = t]
    BY <1>8
  <2> HIDE DEF t
  <2>3. WorkerFine(t)
    BY <1>2, <2>1 DEF WorkerFine, BeforeSending, Sending
  <2>4. OnRow(t, q)
    BY <1>2, <2>1, Zenon DEF OnRow
  <2>5. KeepsWorker(s, t)
    BY <1>2, <2>1 DEF KeepsWorker
  <2> QED
    BY <1>1, <2>1, <2>2, <2>3, <2>4, <2>5, OnlyWorker, Zenon
<1>9. s.pc = "chunk" => s.seq < MaxDeltas
  BY <1>2 DEF WorkerFine
<1>10. CASE NextChunk(w) \/ StreamEnds(w)
  BY <1>4, <1>5, <1>8, <1>10 DEF NextChunk, StreamEnds
<1>11. CASE CheckChunk(w) \/ FinalCheck(w)
  BY <1>3, <1>4, <1>5, <1>6, <1>7, <1>9, <1>11 DEF CheckChunk, FinalCheck, CheckThen
<1> QED
  BY <1>10, <1>11

\* WorkerError and Crash.
LEMMA FaultStep ==
  ASSUME ChatInv, NEW w \in Workers, WorkerError(w) \/ Crash(w)
  PROVE  ChatInv'
<1>1. worker[w].pc # "idle" /\ UNCHANGED <<req, log, resv, posted, loop, todo>>
  BY DEF WorkerError, Crash, billingVars
<1>2. CASE Leave(w)
  BY <1>1, <1>2, Leaves
<1>3. CASE Goto(w, "unknown") \/ Goto(w, "fail")
  BY <1>1, <1>3, Goes, Tasks DEF BeforeSending, Sending
<1> QED
  BY <1>2, <1>3, Zenon DEF WorkerError, Crash

\* Post: the worker about to send holds the last claim of a request that was
\* not sent.
LEMMA PostStep ==
  ASSUME ChatInv, NEW w \in Workers, Post(w)
  PROVE  ChatInv'
<1> DEFINE s == worker[w]
           r == s.req
           q == req[r]
<1>1. /\ s.pc = "post" /\ posted' = [posted EXCEPT ![r] = posted[r] + 1]
      /\ UNCHANGED <<req, log, resv, loop, todo>>
  BY DEF Post, billingVars
<1>2. /\ WorkerFine(s) /\ s \in WorkerState /\ r \in Sources /\ OnRow(s, q) /\ q \in RequestRow
  BY <1>1, AtWork
<1>3. s.phase = "sent" /\ s.token = q.claims /\ q.status \notin {"none", "queued"}
  BY <1>1, <1>2 DEF WorkerFine, Sending, OnRow
<1>4. posted[r] = 0
  BY <1>1, <1>2, <1>3 DEF ChatInv, PostsFine, Past
<1>5. PICK pc \in {"chunks", "fail", "unknown"} : Goto(w, pc)
  BY DEF Post
<1> DEFINE t == [s EXCEPT !.pc = pc]
<1>6. worker' = [worker EXCEPT ![w] = t] /\ t.pc # "post" /\ t.phase = "sent" /\ t.req = r
  BY <1>2, <1>3, <1>5 DEF Goto, WorkerState
<1>7. WorkerFine(t) /\ OnRow(t, q) /\ KeepsWorker(s, t)
  <2>1. pc \in WorkerPCs \ {"idle", "recheck", "post", "capture", "release"}
    BY Tasks
  <2> HIDE DEF s, q
  <2> QED
    BY <1>2, <1>3, <2>1, Turns DEF BeforeSending
<1> HIDE DEF t
<1>8. RowsFine' /\ \A x \in Sources : KeepsRow(req[x], req'[x])
  BY <1>1, RowsRest
<1>9. WorkersMove
  <2>1. OnRow(t, req'[t.req])
    BY <1>1, <1>6, <1>7
  <2> QED
    BY <1>6, <1>7, <2>1, OneWorker, Zenon
<1>10. WorkersFine' /\ LoopsFine'
  BY <1>1, <1>8, <1>9, WorkersKept, LoopsKept DEF WorkersMove, KeepsRow
<1>11. PostsFine'
  <2>1. /\ posted'[r] = 1 /\ posted' = [x \in Sources |-> posted'[x]]
        /\ \A x \in Sources \ {r} : posted'[x] = posted[x]
    BY <1>1, <1>2, <1>4 DEF ChatInv, PostsFine
  <2>2. worker'[w] = t /\ \A v \in Workers \ {w} : worker'[v] = worker[v]
    BY <1>6 DEF ChatInv, WorkersFine
  <2>3. ASSUME NEW v \in Workers PROVE Past(worker'[v], r, req'[r])
    <3>1. CASE v = w
      BY <1>6, <2>2, <3>1 DEF Past
    <3>2. CASE v # w
      <4>1. Apart(worker[w], worker[v])
        BY <3>2 DEF ChatInv, WorkersFine
      <4> QED
        BY <1>1, <1>2, <1>3, <2>2, <3>2, <4>1 DEF Past, Apart
    <3> QED
      BY <3>1, <3>2
  <2>4. ASSUME NEW x \in Sources \ {r}, posted[x] = 1, NEW v \in Workers
        PROVE  Past(worker'[v], x, req'[x])
    <3>1. Past(worker[v], x, req[x])
      BY <2>4 DEF ChatInv, PostsFine
    <3> QED
      BY <1>1, <1>6, <2>2, <3>1 DEF Past
  <2>5. \A x \in Sources : req'[x] = req[x]
    BY <1>1
  <2> QED
    BY <1>3, <2>1, <2>3, <2>4, <2>5 DEF ChatInv, PostsFine
<1> QED
  BY <1>8, <1>10, <1>11 DEF ChatInv

-----------------------------------------------------------------------------
(* Steps that write a row. *)

\* A request ends: its row, its log and its hold, which is left pending.
LEMMA EndedRow ==
  ASSUME NEW a, NEW l, NEW h, RowFine(a, l, h), a.status \in Open,
         NEW status \in Terminal \ {"succeeded"}, NEW event \in Log!TerminalEvents,
         NEW b, b = Closed(a, status, a.usage)
  PROVE  KeepsRow(a, b) /\ RowFine(b, Append(l, event), h) /\ b.status = status
<1>1. a \in RequestRow /\ l \in Seq(Log!EventTypes) /\ event \in Log!EventTypes
  BY DEF RowFine, Log!EventTypes
<1>2. /\ b \in RequestRow /\ b.status = status /\ b.token = 0 /\ ~b.live /\ b.seq = a.seq + 1
      /\ b.claims = a.claims /\ b.usage = a.usage
  BY <1>1 DEF Closed, RequestRow
<1>3. Append(l, event) \in Seq(Log!EventTypes) /\ Len(Append(l, event)) = Len(l) + 1
      /\ Append(l, event) # <<>>
  BY <1>1
<1>4. a.status \notin Terminal /\ status \notin {"none", "queued", "running"} /\ a.status # "none"
      /\ status \notin Open
  BY DEF Open, Executing, Terminal, Ended
<1>5. KeepsRow(a, b)
  BY <1>2, <1>4 DEF KeepsRow, Steady
<1>6. h.status = "pending"
  BY DEF RowFine
<1>7. b.seq = Len(Append(l, event)) - 1
  BY <1>1, <1>2, <1>3 DEF RowFine
<1>8. RowFine(b, Append(l, event), h)
  BY <1>2, <1>3, <1>4, <1>6, <1>7 DEF RowFine
<1> QED
  BY <1>2, <1>5, <1>8

\* End: a step that ends an open request, with what workers do at it.
LEMMA EndStep ==
  ASSUME ChatInv, NEW r \in Sources, req[r].status \in Open,
         NEW status \in Terminal \ {"succeeded"}, NEW event \in Log!TerminalEvents,
         End(r, status, event), resv' = resv
  PROVE  /\ RowsFine' /\ \A x \in Sources : KeepsRow(req[x], req'[x])
         /\ req'[r].status = status
<1> DEFINE b == Closed(req[r], status, req[r].usage)
<1>1. req' = [req EXCEPT ![r] = b] /\ log' = [log EXCEPT ![r] = Append(log[r], event)]
  BY DEF End
<1>2. KeepsRow(req[r], b) /\ RowFine(b, Append(log[r], event), resv[r]) /\ b.status = status
  BY EndedRow, RowTypes
<1> HIDE DEF b
<1> QED
  BY <1>1, <1>2, OneRow, Zenon

\* The worker that ended its request turns to the hold.
LEMMA TurnsToHold ==
  ASSUME ChatInv, NEW w \in Workers, worker[w].pc # "idle",
         \A x \in Sources : KeepsRow(req[x], req'[x]),
         NEW pc \in {"capture", "release"}, Goto(w, pc),
         pc = "capture" => req'[worker[w].req].status = "succeeded",
         pc = "release" => req'[worker[w].req].status \in {"stopped", "failed"}
  PROVE  WorkersMove
<1> DEFINE s == worker[w]
           b == req'[s.req]
           t == [s EXCEPT !.pc = pc]
<1>1. /\ WorkerFine(s) /\ s \in WorkerState /\ s.req \in Sources /\ OnRow(s, b)
  BY AtWork, OnRowKept, Zenon
<1>2. /\ t \in WorkerState /\ t.pc = pc /\ t.req = s.req /\ t.token = s.token
      /\ t.seq = s.seq /\ t.phase = s.phase /\ t.whole = s.whole
  BY <1>1 DEF WorkerState, WorkerPCs
<1>3. worker' = [worker EXCEPT ![w] = t]
  BY DEF Goto
<1> HIDE DEF t
<1>4. WorkerFine(t)
  BY <1>1, <1>2, Zenon DEF WorkerFine, BeforeSending, Sending
<1>5. OnRow(t, b)
  BY <1>1, <1>2, Zenon DEF OnRow
<1>6. KeepsWorker(s, t)
  BY <1>1, <1>2 DEF KeepsWorker
<1> QED
  BY <1>2, <1>3, <1>4, <1>5, <1>6, OneWorker, Zenon

\* StopQueued, StopRunning and LeaseLapses.
LEMMA UserStep ==
  ASSUME ChatInv, NEW r \in Sources, StopQueued(r) \/ StopRunning(r) \/ LeaseLapses(r)
  PROVE  ChatInv'
<1>1. UNCHANGED <<resv, worker, posted, loop, todo>>
  BY DEF StopQueued, StopRunning, LeaseLapses, billingVars
<1>2. WorkersMove
  BY <1>1, WorkersRest
<1>3. RowsFine' /\ \A x \in Sources : KeepsRow(req[x], req'[x])
  <2>1. CASE StopQueued(r)
    <3>1. req[r].status \in Open /\ End(r, "stopped", "stopped")
      BY <2>1 DEF StopQueued, Open
    <3>2. "stopped" \in Terminal \ {"succeeded"} /\ "stopped" \in Log!TerminalEvents
      BY DEF Terminal, Ended, Log!TerminalEvents
    <3> QED
      BY <1>1, <3>1, <3>2, EndStep, Zenon
  <2>2. CASE StopRunning(r) \/ LeaseLapses(r)
    <3> DEFINE a == req[r]
               b == IF StopRunning(r) THEN [a EXCEPT !.status = "stop_requested"]
                                      ELSE [a EXCEPT !.live = FALSE]
    <3>0. a \in RequestRow /\ RowFine(a, log[r], resv[r])
      BY RowTypes
    <3>1. req' = [req EXCEPT ![r] = b] /\ log' = [log EXCEPT ![r] = log[r]]
      BY <2>2 DEF StopRunning, LeaseLapses, ChatInv, RowsFine
    <3>2. /\ b \in RequestRow /\ b.token = a.token /\ b.claims = a.claims /\ b.seq = a.seq
          /\ b.usage = a.usage /\ (b.live => a.live)
          /\ b.status = a.status \/ (a.status = "running" /\ b.status = "stop_requested")
      BY <2>2, <3>0, Zenon DEF StopRunning, RequestRow, Open, Executing
    <3> HIDE DEF b
    <3>3. KeepsRow(a, b)
      BY <3>0, <3>2 DEF KeepsRow, Steady, Terminal, Ended
    <3>4. RowFine(b, log[r], resv[r])
      BY <3>0, <3>2 DEF RowFine, Open, Executing
    <3> QED
      BY <1>1, <3>1, <3>3, <3>4, OneRow, Zenon
  <2> QED
    BY <2>1, <2>2
<1> QED
  BY <1>1, <1>2, <1>3, GoesOn

\* MarkStopped, MarkFailed and MarkUnknown.
LEMMA MarkStep ==
  ASSUME ChatInv, NEW w \in Workers, MarkStopped(w) \/ MarkFailed(w) \/ MarkUnknown(w)
  PROVE  ChatInv'
<1>1. /\ worker[w].pc # "idle" /\ UNCHANGED <<resv, posted, loop, todo>>
  BY Zenon DEF MarkStopped, MarkFailed, MarkUnknown, EndIf, billingVars
<1>2. CASE Leave(w) /\ UNCHANGED <<req, log>>
  BY <1>1, <1>2, Leaves
<1>3. ASSUME NEW status \in {"stopped", "failed", "submitted_unknown"},
             NEW event \in {"stopped", "failed"}, Writable(w, Executing),
             End(worker[w].req, status, event),
             Leave(w) \/ (Goto(w, "release") /\ status # "submitted_unknown")
      PROVE  ChatInv'
  <2> DEFINE r == worker[w].req
  <2>1. r \in Sources /\ req[r].status \in Open
    BY <1>1, <1>3, AtWork, Zenon DEF Writable, Row, Open
  <2>2. status \in Terminal \ {"succeeded"} /\ event \in Log!TerminalEvents
    BY <1>3 DEF Terminal, Ended, Log!TerminalEvents
  <2>3. /\ RowsFine' /\ \A x \in Sources : KeepsRow(req[x], req'[x])
        /\ req'[r].status = status
    BY <1>1, <1>3, <2>1, <2>2, EndStep, Zenon
  <2>4. WorkersMove
    <3>1. CASE Leave(w)
      BY <3>1, OneWorker, Zenon DEF Leave, KeepsWorker
    <3>2. CASE Goto(w, "release") /\ status # "submitted_unknown"
      BY <1>1, <2>3, <3>2, TurnsToHold
    <3> QED
      BY <1>3, <3>1, <3>2
  <2> QED
    BY <1>1, <2>3, <2>4, GoesOn
<1>4. Writable(w, {"running"}) => Writable(w, Executing)
  BY DEF Writable, Executing
<1>5. CASE MarkStopped(w) \/ MarkFailed(w)
  BY <1>2, <1>3, <1>5, Zenon DEF MarkStopped, MarkFailed, EndIf
<1>6. CASE MarkUnknown(w)
  BY <1>2, <1>3, <1>4, <1>6, Zenon DEF MarkUnknown, EndIf
<1> QED
  BY <1>5, <1>6

\* Complete: the usage row is written in the step that ends the request.
LEMMA CompleteStep ==
  ASSUME ChatInv, NEW w \in Workers, Complete(w)
  PROVE  ChatInv'
<1> DEFINE r == worker[w].req
           a == req[r]
<1>1. /\ worker[w].pc = "complete" /\ UNCHANGED <<resv, posted, loop, todo>>
  BY DEF Complete, billingVars
<1>2. CASE Leave(w) /\ UNCHANGED <<req, log>>
  BY <1>1, <1>2, Leaves
<1>3. ASSUME NEW c \in Charges, Writable(w, {"running"}),
             req' = [req EXCEPT ![r] = Closed(@, "succeeded", c)],
             log' = [log EXCEPT ![r] = Append(@, "completed")], Goto(w, "capture")
      PROVE  ChatInv'
  <2> DEFINE b == Closed(a, "succeeded", c)
             l == Append(log[r], "completed")
  <2>1. r \in Sources /\ a.status = "running" /\ a \in RequestRow /\ RowFine(a, log[r], resv[r])
    BY <1>1, <1>3, AtWork, RowTypes, Zenon DEF Writable, Row
  <2>2. /\ b \in RequestRow /\ b.status = "succeeded" /\ b.token = 0 /\ b.live = FALSE
        /\ b.seq = a.seq + 1 /\ b.claims = a.claims /\ b.usage = c
    BY <2>1, ChargesAssumption DEF Closed, RequestRow, Terminal, Ended
  <2>3. log[r] \in Seq(Log!EventTypes) /\ "completed" \in Log!EventTypes
    BY <2>1, Zenon DEF RowFine, Log!EventTypes, Log!TerminalEvents
  <2>4. l \in Seq(Log!EventTypes) /\ Len(l) = Len(log[r]) + 1 /\ l # <<>>
    BY <2>3
  <2>5. req' = [req EXCEPT ![r] = b] /\ log' = [log EXCEPT ![r] = l]
    BY <1>3
  <2> HIDE DEF b, l
  <2>6. KeepsRow(a, b)
    BY <2>1, <2>2, Zenon DEF KeepsRow, Steady, Terminal, Ended
  <2>7. RowFine(b, l, resv[r])
    <3>1. resv[r].status = "pending" /\ resv[r] \in Reservation
      BY <2>1, Zenon DEF RowFine, Open, Executing
    <3>2. b.seq = Len(l) - 1
      BY <2>1, <2>2, <2>3, <2>4 DEF RowFine
    <3>3. b.status \notin Open \cup {"submitted_unknown"}
      BY <2>2 DEF Open, Executing
    <3> QED
      BY <2>2, <2>4, <3>1, <3>2, <3>3 DEF RowFine
  <2>8. RowsFine' /\ (\A x \in Sources : KeepsRow(req[x], req'[x])) /\ req'[r] = b
    BY <1>1, <2>1, <2>5, <2>6, <2>7, OneRow, Zenon
  <2>9. WorkersMove
    BY <1>1, <1>3, <2>2, <2>8, TurnsToHold, Zenon
  <2> QED
    BY <1>1, <2>8, <2>9, GoesOn
<1> QED
  BY <1>2, <1>3, Zenon DEF Complete

-----------------------------------------------------------------------------
(* Steps that open a request, give its lease or write under it. *)

\* The workers when only row r and worker w change.
LEMMA WorkersAround ==
  ASSUME ChatInv, NEW r \in Sources, \A x \in Sources \ {r} : req'[x] = req[x],
         NEW w \in Workers, NEW t, worker' = [worker EXCEPT ![w] = t], WorkerFine(t),
         t.req \in Sources => OnRow(t, req'[t.req]),
         \A v \in Workers \ {w} : worker[v].req = r => OnRow(worker[v], req'[r]),
         \A v \in Workers \ {w} : Apart(t, worker[v])
  PROVE  WorkersFine'
<1> USE DEF ChatInv
<1>1. /\ worker'[w] = t /\ worker' = [v \in Workers |-> worker'[v]]
      /\ \A v \in Workers \ {w} : worker'[v] = worker[v]
  BY DEF WorkersFine
<1>2. \A v \in Workers : WorkerFine(worker'[v])
  BY <1>1 DEF WorkersFine
<1>3. ASSUME NEW v \in Workers, worker'[v].req \in Sources
      PROVE  OnRow(worker'[v], req'[worker'[v].req])
  BY <1>1, <1>3 DEF WorkersFine
<1>4. ASSUME NEW v \in Workers, NEW u \in Workers, v # u PROVE Apart(worker'[v], worker'[u])
  <2>1. Apart(worker[v], worker[u])
    BY <1>4 DEF WorkersFine
  <2> QED
    BY <1>1, <1>4, <2>1 DEF Apart
<1> QED
  BY <1>1, <1>2, <1>3, <1>4 DEF WorkersFine

\* What was sent when row r, which was not, and workers on it change.
LEMMA PostsAround ==
  ASSUME ChatInv, NEW r \in Sources, posted[r] = 0, posted' = posted,
         \A x \in Sources \ {r} : req'[x] = req[x],
         \A v \in Workers : worker'[v] = worker[v] \/ worker'[v].req \in {r, NoRequest}
  PROVE  PostsFine'
<1> USE DEF ChatInv
<1>1. ASSUME NEW x \in Sources, posted[x] = 1
      PROVE  /\ req'[x].status \notin {"none", "queued"}
             /\ \A v \in Workers : Past(worker'[v], x, req'[x])
  <2>1. x # r /\ req'[x] = req[x] /\ x # NoRequest
    BY <1>1, ChatConstants
  <2>2. /\ req[x].status \notin {"none", "queued"}
        /\ \A v \in Workers : Past(worker[v], x, req[x])
    BY <1>1 DEF PostsFine
  <2> QED
    BY <2>1, <2>2 DEF Past
<1> QED
  BY <1>1 DEF PostsFine

\* What was selected when row r, which had not ended, changes.
LEMMA LoopsAround ==
  ASSUME ChatInv, NEW r \in Sources, req[r].status \notin Ended, UNCHANGED <<loop, todo>>,
         \A x \in Sources \ {r} : req'[x] = req[x]
  PROVE  LoopsFine'
BY DEF ChatInv, LoopsFine, Ended

\* A worker on row a that is not its lease's.
LEMMA OnOtherLease ==
  ASSUME NEW s \in WorkerState, NEW a \in RequestRow, NEW b \in RequestRow, OnRow(s, a),
         b.claims >= a.claims, b.token # s.token,
         s.phase = "sent" => b.claims = a.claims /\ b.status \notin {"none", "queued"},
         a.status \notin {"succeeded", "stopped", "failed"}
  PROVE  OnRow(s, b)
BY DEF OnRow, RequestRow, WorkerState

\* In particular when no claim was added.
LEMMA OnOthersRow ==
  ASSUME NEW s \in WorkerState, NEW a \in RequestRow, NEW b \in RequestRow, OnRow(s, a),
         b.claims = a.claims, b.token # s.token,
         s.phase = "sent" => b.status \notin {"none", "queued"},
         a.status \notin {"succeeded", "stopped", "failed"}
  PROVE  OnRow(s, b)
<1>1. b.claims >= a.claims
  BY DEF RequestRow
<1> QED
  BY <1>1, OnOtherLease

\* AppendDelta: row, log and the worker's copy count the event together.
LEMMA AppendDeltaStep ==
  ASSUME ChatInv, NEW w \in Workers, AppendDelta(w)
  PROVE  ChatInv'
<1> DEFINE s == worker[w]
           r == s.req
           a == req[r]
<1>1. /\ s.pc = "delta" /\ UNCHANGED <<resv, posted, loop, todo>>
  BY DEF AppendDelta, billingVars
<1>2. /\ WorkerFine(s) /\ s \in WorkerState /\ r \in Sources /\ OnRow(s, a) /\ a \in RequestRow
      /\ RowFine(a, log[r], resv[r]) /\ s.phase = "sent"
  BY <1>1, AtWork, RowTypes, Zenon DEF WorkerFine, Sending
<1>3. CASE ~Writable(w, {"running"}) /\ Goto(w, "final") /\ UNCHANGED <<req, log>>
  <2>1. ~(Owns(w) /\ Row(w).status = "running" /\ Row(w).live)
    BY <1>2, <1>3, Zenon DEF Writable, Owns, Row, OnRow
  <2> QED
    BY <1>1, <1>2, <1>3, <2>1, Goes, Tasks, Zenon DEF BeforeSending
<1>4. CASE /\ Writable(w, {"running"})
           /\ req' = [req EXCEPT ![r].seq = @ + 1]
           /\ log' = [log EXCEPT ![r] = Append(@, "delta")]
           /\ worker' = [worker EXCEPT ![w] = [@ EXCEPT !.pc = "chunks", !.seq = Row(w).seq + 1]]
  <2> DEFINE b == [a EXCEPT !.seq = a.seq + 1]
             l == Append(log[r], "delta")
             t == [s EXCEPT !.pc = "chunks", !.seq = a.seq + 1]
  <2>1. a.token = s.token /\ a.status = "running"
    BY <1>4, Zenon DEF Writable, Owns, Row
  <2>2. /\ b \in RequestRow /\ b.status = a.status /\ b.token = a.token /\ b.live = a.live
        /\ b.seq = a.seq + 1 /\ b.claims = a.claims /\ b.usage = a.usage
    BY <1>2 DEF RequestRow
  <2>3. log[r] \in Seq(Log!EventTypes) /\ "delta" \in Log!EventTypes
    BY <1>2, Zenon DEF RowFine, Log!EventTypes
  <2>4. l \in Seq(Log!EventTypes) /\ Len(l) = Len(log[r]) + 1 /\ l # <<>>
    BY <2>3
  <2>5. /\ t \in WorkerState /\ t.pc = "chunks" /\ t.req = r /\ t.token = s.token
        /\ t.seq = a.seq + 1 /\ t.phase = "sent" /\ t.whole = s.whole
    <3>1. a.seq + 1 \in Int
      BY <1>2 DEF RequestRow
    <3> HIDE DEF a, s
    <3> QED
      BY <1>2, <3>1, Zenon DEF WorkerState, WorkerPCs
  <2>6. /\ req' = [req EXCEPT ![r] = b] /\ log' = [log EXCEPT ![r] = l]
        /\ worker' = [worker EXCEPT ![w] = t] /\ resv' = [resv EXCEPT ![r] = resv[r]]
    BY <1>1, <1>4 DEF Row, ChatInv, RowsFine
  <2> HIDE DEF b, l, t
  <2>7. RowFine(b, l, resv[r])
    <3>1. b.seq = Len(l) - 1
      <4>1. a.seq = Len(log[r]) - 1
        BY <1>2, Zenon DEF RowFine
      <4> HIDE DEF a
      <4> QED BY <2>2, <2>3, <2>4, <4>1
    <3> QED
      BY <1>2, <2>1, <2>2, <2>4, <3>1, Zenon DEF RowFine
  <2>8. RowsFine' /\ req'[r] = b /\ \A x \in Sources \ {r} : req'[x] = req[x]
    BY <1>2, <2>6, <2>7, OneRowFine, Zenon
  <2>9. \A x \in Sources : Steady(req[x], req'[x])
    <3>1. Steady(a, b)
      BY <2>2, Zenon DEF Steady
    <3> QED
      BY <2>8, <3>1, RowTypes, SameRow, Zenon DEF KeepsRow
  <2>10. WorkerFine(t) /\ OnRow(t, b)
    BY <1>2, <2>1, <2>2, <2>5, Zenon DEF WorkerFine, OnRow, BeforeSending, Sending
  <2>11. ASSUME NEW v \in Workers \ {w} PROVE Apart(t, worker[v])
    <3>1. Apart(s, worker[v])
      BY DEF ChatInv, WorkersFine
    <3> QED
      BY <2>5, <3>1, Zenon DEF Apart
  <2>12. ASSUME NEW v \in Workers \ {w}, worker[v].req = r PROVE OnRow(worker[v], b)
    <3>1. /\ worker[v] \in WorkerState /\ OnRow(worker[v], a) /\ worker[v].token # s.token
      BY <1>2, <2>5, <2>11, <2>12, Zenon DEF ChatInv, WorkersFine, WorkerFine, Apart
    <3>2. /\ b.claims = a.claims /\ b.token # worker[v].token
          /\ b.status \notin {"none", "queued"} /\ a.status \notin {"succeeded", "stopped", "failed"}
      BY <2>1, <2>2, <3>1, Zenon
    <3> QED
      BY <1>2, <2>2, <3>1, <3>2, OnOthersRow, Zenon
  <2>13. WorkersFine'
    <3>1. OnRow(t, req'[t.req])
      BY <2>5, <2>8, <2>10, Zenon
    <3>2. \A v \in Workers \ {w} : worker[v].req = r => OnRow(worker[v], req'[r])
      BY <2>8, <2>12, Zenon
    <3> QED
      BY <1>2, <2>6, <2>8, <2>10, <2>11, <3>1, <3>2, WorkersAround, Zenon
  <2>14. ASSUME NEW v \in Workers PROVE KeepsWorker(worker[v], worker'[v])
    <3>1. worker'[w] = t /\ (v # w => worker'[v] = worker[v])
      BY <2>6 DEF ChatInv, WorkersFine
    <3> QED
      BY <1>2, <2>5, <3>1, Zenon DEF KeepsWorker
  <2> QED
    BY <1>1, <2>8, <2>9, <2>13, <2>14, PostsKept, LoopsKept DEF ChatInv
<1> QED
  BY <1>3, <1>4 DEF AppendDelta

\* Requeue: the worker with the last claim has not sent the request.
LEMMA RequeueStep ==
  ASSUME ChatInv, NEW w \in Workers, Requeue(w)
  PROVE  ChatInv'
<1> DEFINE s == worker[w]
           r == s.req
           a == req[r]
<1>1. /\ s.pc = "requeue" /\ Leave(w) /\ UNCHANGED <<log, resv, posted, loop, todo>>
  BY DEF Requeue, billingVars
<1>2. CASE UNCHANGED req
  BY <1>1, <1>2, Leaves
<1>3. CASE /\ Owns(w) /\ Row(w).status = "running"
           /\ req' = [req EXCEPT ![r] = [@ EXCEPT !.status = "queued", !.token = 0, !.live = FALSE]]
  <2> DEFINE b == [a EXCEPT !.status = "queued", !.token = 0, !.live = FALSE]
  <2>1. /\ WorkerFine(s) /\ s \in WorkerState /\ r \in Sources /\ OnRow(s, a) /\ a \in RequestRow
        /\ RowFine(a, log[r], resv[r]) /\ s.phase = "before"
    BY <1>1, AtWork, RowTypes, Zenon DEF WorkerFine, BeforeSending
  <2>2. a.token = s.token /\ a.status = "running" /\ s.token = a.claims
    BY <1>3, <2>1 DEF Owns, Row, OnRow, RowFine
  <2>3. /\ b \in RequestRow /\ b.status = "queued" /\ b.token = 0 /\ b.live = FALSE
        /\ b.seq = a.seq /\ b.claims = a.claims /\ b.usage = a.usage
    BY <2>1, Zenon DEF RequestRow, Open
  <2>4. /\ req' = [req EXCEPT ![r] = b] /\ log' = [log EXCEPT ![r] = log[r]]
        /\ resv' = [resv EXCEPT ![r] = resv[r]]
    BY <1>1, <1>3, Zenon DEF ChatInv, RowsFine
  <2> HIDE DEF b
  <2>5. RowFine(b, log[r], resv[r])
    BY <2>1, <2>2, <2>3, Zenon DEF RowFine, Open, Executing
  <2>6. RowsFine' /\ req'[r] = b /\ \A x \in Sources \ {r} : req'[x] = req[x]
    BY <2>1, <2>4, <2>5, OneRowFine, Zenon
  <2>7. posted[r] = 0
    BY <2>1, <2>2, Zenon DEF ChatInv, PostsFine, Past
  <2>8. worker' = [worker EXCEPT ![w] = Idle]
    BY <1>1 DEF Leave
  <2>9. ASSUME NEW v \in Workers \ {w}, worker[v].req = r PROVE OnRow(worker[v], req'[r])
    <3>1. /\ worker[v] \in WorkerState /\ OnRow(worker[v], a) /\ worker[v].token # s.token
      BY <2>1, <2>9, Zenon DEF ChatInv, WorkersFine, WorkerFine, Apart
    <3>2. worker[v].phase # "sent" /\ worker[v].token # 0
      BY <2>2, <3>1 DEF OnRow
    <3>3. /\ b.claims = a.claims /\ b.token # worker[v].token
          /\ a.status \notin {"succeeded", "stopped", "failed"}
      BY <2>2, <2>3, <3>2, Zenon
    <3> QED
      BY <2>1, <2>3, <2>6, <3>1, <3>2, <3>3, OnOthersRow, Zenon
  <2>10. WorkersFine'
    <3>1. \A v \in Workers \ {w} : Apart(Idle, worker[v])
      BY IdleFine DEF Apart
    <3> QED
      BY <2>1, <2>6, <2>8, <2>9, <3>1, IdleFine, WorkersAround, Zenon
  <2>11. \A v \in Workers : worker'[v] = worker[v] \/ worker'[v].req \in {r, NoRequest}
    BY <2>8 DEF ChatInv, WorkersFine, Idle
  <2>12. a.status \notin Ended
    BY <2>2 DEF Ended
  <2> QED
    BY <1>1, <2>1, <2>6, <2>7, <2>10, <2>11, <2>12, PostsAround, LoopsAround, Zenon DEF ChatInv
<1> QED
  BY <1>2, <1>3 DEF Requeue

\* Claim: the new lease is nobody else's, and the request was not sent.
LEMMA ClaimStep ==
  ASSUME ChatInv, NEW w \in Workers, NEW r \in Sources, Claim(w, r)
  PROVE  ChatInv'
<1> DEFINE a == req[r]
           n == a.claims + 1
           b == [a EXCEPT !.status = "running", !.live = TRUE, !.claims = n, !.token = n]
           t == [pc |-> "check", req |-> r, token |-> n, seq |-> a.seq, phase |-> "before",
                 whole |-> FALSE]
<1>1. /\ a.status = "queued" /\ UNCHANGED <<log, resv, posted, loop, todo>>
      /\ req' = [req EXCEPT ![r] = b] /\ worker' = [worker EXCEPT ![w] = t]
  BY DEF Claim, billingVars
<1>2. a \in RequestRow /\ RowFine(a, log[r], resv[r]) /\ n \in Nat /\ n = a.claims + 1
      /\ a.claims \in Nat /\ n # 0
  BY RowTypes DEF RequestRow
<1> HIDE DEF n
<1>3. /\ b \in RequestRow /\ b.status = "running" /\ b.token = n /\ b.live
      /\ b.seq = a.seq /\ b.claims = n /\ b.usage = a.usage
  BY <1>2, Zenon DEF RequestRow, Open, Executing
<1>4. /\ t \in WorkerState /\ t.pc = "check" /\ t.req = r /\ t.token = n /\ t.seq = a.seq
      /\ t.phase = "before" /\ t.whole = FALSE
  BY <1>2, Zenon DEF WorkerState, WorkerPCs, Phases, RequestRow
<1>5. /\ log' = [log EXCEPT ![r] = log[r]] /\ resv' = [resv EXCEPT ![r] = resv[r]]
  BY <1>1, Zenon DEF ChatInv, RowsFine
<1> HIDE DEF b, t
<1>6. RowFine(b, log[r], resv[r])
  BY <1>1, <1>2, <1>3, Zenon DEF RowFine, Open, Executing
<1>7. RowsFine' /\ req'[r] = b /\ \A x \in Sources \ {r} : req'[x] = req[x]
  BY <1>1, <1>5, <1>6, OneRowFine, Zenon
<1>8. posted[r] = 0
  BY <1>1 DEF ChatInv, PostsFine
<1>9. WorkerFine(t) /\ OnRow(t, req'[t.req])
  BY <1>2, <1>3, <1>4, <1>7 DEF WorkerFine, OnRow, BeforeSending, Sending
<1>10. ASSUME NEW v \in Workers \ {w}, worker[v].req = r
       PROVE  OnRow(worker[v], req'[r]) /\ worker[v].token # n
  <2>1. /\ worker[v] \in WorkerState /\ OnRow(worker[v], a)
    BY <1>10, Zenon DEF ChatInv, WorkersFine, WorkerFine
  <2>2. worker[v].phase # "sent" /\ worker[v].token \in 1 .. a.claims
    BY <1>1, <2>1, Zenon DEF OnRow
  <2>3. worker[v].token # n /\ n >= a.claims
    BY <1>2, <2>2
  <2> QED
    BY <1>1, <1>2, <1>3, <1>7, <2>1, <2>2, <2>3, OnOtherLease, Zenon
<1>11. WorkersFine'
  <2>1. \A v \in Workers \ {w} : Apart(t, worker[v])
    BY <1>4, <1>10, Zenon DEF Apart
  <2> QED
    BY <1>1, <1>7, <1>9, <1>10, <2>1, WorkersAround, Zenon
<1>12. \A v \in Workers : worker'[v] = worker[v] \/ worker'[v].req \in {r, NoRequest}
  BY <1>1, <1>4 DEF ChatInv, WorkersFine
<1>13. a.status \notin Ended
  BY <1>1 DEF Ended
<1> QED
  BY <1>1, <1>7, <1>8, <1>11, <1>12, <1>13, PostsAround, LoopsAround, Zenon DEF ChatInv

-----------------------------------------------------------------------------
(* Requests begin, and the loops. *)

\* Submit: no worker knows the request yet.
LEMMA SubmitStep ==
  ASSUME ChatInv, NEW r \in Sources, NEW amount \in Amounts, Submit(r, amount)
  PROVE  ChatInv'
<1> DEFINE a == req[r]
           b == [a EXCEPT !.status = "queued", !.seq = 0]
           h == [status |-> "pending", amount |-> amount, lapsed |-> FALSE, captured |-> NoAmount]
<1>1. /\ a.status = "none" /\ UNCHANGED <<worker, posted, loop, todo>>
      /\ req' = [req EXCEPT ![r] = b] /\ log' = [log EXCEPT ![r] = <<"started">>]
      /\ resv' = [resv EXCEPT ![r] = h]
  BY Zenon DEF Submit, Hold
<1>2. a \in RequestRow /\ RowFine(a, log[r], resv[r])
  BY RowTypes
<1>3. /\ b \in RequestRow /\ b.status = "queued" /\ b.token = a.token /\ b.seq = 0
      /\ b.claims = a.claims /\ b.usage = a.usage
  <2> HIDE DEF a, h
  <2>1. a \in RequestRow /\ 0 \in Int /\ "queued" \in {"none"} \cup Open \cup Terminal
    BY <1>2 DEF Open
  <2>2. b \in RequestRow
    BY <2>1, Zenon DEF RequestRow
  <2>3. /\ b.status = "queued" /\ b.token = a.token /\ b.seq = 0
        /\ b.claims = a.claims /\ b.usage = a.usage
    BY <2>1, Zenon DEF RequestRow
  <2> QED
    BY <2>2, <2>3
<1>4. h \in Reservation /\ h.status = "pending"
  BY AmountsAssumption DEF Reservation, ReservationStatus, NoAmount
<1>5. <<"started">> \in Seq(Log!EventTypes) /\ Len(<<"started">>) = 1 /\ <<"started">> # <<>>
  BY DEF Log!EventTypes
<1> HIDE DEF b, h
<1>6. RowFine(b, <<"started">>, h)
  BY <1>2, <1>3, <1>4, <1>5 DEF RowFine, Open, Executing
<1>7. RowsFine' /\ req'[r] = b /\ \A x \in Sources \ {r} : req'[x] = req[x]
  BY <1>1, <1>6, OneRowFine, Zenon
<1>8. posted[r] = 0
  BY <1>1 DEF ChatInv, PostsFine
<1>9. ASSUME NEW v \in Workers PROVE worker[v].req # r
  <2> SUFFICES ASSUME worker[v].req = r PROVE FALSE
    OBVIOUS
  <2>1. worker[v].token \in 1 .. a.claims
    BY DEF ChatInv, WorkersFine, OnRow
  <2> QED
    BY <1>1, <1>2, <2>1 DEF RowFine
<1>10. WorkersFine'
  BY <1>1, <1>7, <1>9 DEF ChatInv, WorkersFine
<1>11. a.status \notin Ended
  BY <1>1 DEF Ended
<1> QED
  BY <1>1, <1>7, <1>8, <1>10, <1>11, PostsAround, LoopsAround DEF ChatInv

-----------------------------------------------------------------------------
(* Holds and reconcilers. *)

\* One reconciler moves.
LEMMA OneLoop ==
  ASSUME ChatInv, \A r \in Sources : KeepsRow(req[r], req'[r]), NEW p \in Reconcilers,
         NEW todos, todo' = [todo EXCEPT ![p] = todos],
         NEW l, loop' = [loop EXCEPT ![p] = l],
         todos \subseteq {r \in Sources : req'[r].status \in Ended},
         l.pc = "releaseExpired" => l.req \in Sources /\ req'[l.req].status = "succeeded"
  PROVE  LoopsFine'
<1> USE DEF ChatInv
<1>1. \A r \in Sources : req[r].status \in Ended => req'[r].status = req[r].status
  BY DEF KeepsRow, Steady, Terminal
<1>2. "succeeded" \in Ended
  BY DEF Ended
<1>3. /\ todo'[p] = todos /\ loop'[p] = l
      /\ \A u \in Reconcilers \ {p} : todo'[u] = todo[u] /\ loop'[u] = loop[u]
      /\ todo' = [u \in Reconcilers |-> todo'[u]] /\ loop' = [u \in Reconcilers |-> loop'[u]]
  BY Zenon DEF LoopsFine
<1>4. \A u \in Reconcilers : todo'[u] \subseteq {r \in Sources : req'[r].status \in Ended}
  BY <1>1, <1>3 DEF LoopsFine
<1>5. \A u \in Reconcilers : loop'[u].pc = "releaseExpired" =>
        loop'[u].req \in Sources /\ req'[loop'[u].req].status = "succeeded"
  BY <1>1, <1>2, <1>3 DEF LoopsFine
<1> QED
  BY <1>3, <1>4, <1>5 DEF LoopsFine

\* Rows that go on, workers that stay or leave, and loops that were checked.
LEMMA GoesOnWithLoops ==
  ASSUME ChatInv, RowsFine', \A r \in Sources : KeepsRow(req[r], req'[r]), WorkersMove,
         posted' = posted, LoopsFine'
  PROVE  ChatInv'
BY WorkersKept, PostsKept, Zenon DEF WorkersMove, ChatInv, KeepsRow

\* A hold is settled: captured at the usage of a completed request, or released
\* for a request that has ended.
Settling(r) ==
  \/ req[r].status = "succeeded" /\ Capture(r, req[r].usage)
  \/ req[r].status \in Ended /\ Release(r)

\* A settled hold goes with its row.
LEMMA SettlingRows ==
  ASSUME ChatInv, NEW r \in Sources, Settling(r) \/ resv' = resv, UNCHANGED <<req, log>>
  PROVE  RowsFine' /\ \A x \in Sources : KeepsRow(req[x], req'[x])
<1>1. CASE resv' = resv
  BY <1>1, RowsRest
<1>2. CASE Settling(r)
  <2> DEFINE a == req[r]
             k == resv[r]
  <2>1. /\ RowFine(a, log[r], k) /\ a \in RequestRow /\ k \in Reservation
    BY RowTypes, Zenon DEF RowFine
  <2>2. a.status \in Ended /\ a.status \notin Open \cup {"submitted_unknown"} /\ a.status # "none"
    BY <1>2 DEF Settling, Ended, Open, Executing
  <2>3. PICK h : resv' = [resv EXCEPT ![r] = h] /\ RowFine(a, log[r], h)
    <3>1. CASE a.status = "succeeded" /\ Capture(r, a.usage)
      <4> DEFINE h == [k EXCEPT !.status = "committed", !.captured = a.usage]
      <4>1. resv' = [resv EXCEPT ![r] = h]
        BY <3>1 DEF Capture
      <4>2. a.usage \in Nat \cup {NoAmount}
        BY <2>1 DEF RequestRow
      <4>3. h \in Reservation /\ h.status = "committed" /\ h.captured = a.usage
        <5> HIDE DEF a, k
        <5>1. k \in Reservation
          BY <2>1
        <5> QED
          BY <4>2, <5>1, Zenon DEF Reservation, ReservationStatus
      <4> HIDE DEF h
      <4>4. RowFine(a, log[r], h)
        BY <2>1, <2>2, <3>1, <4>3 DEF RowFine
      <4> QED
        BY <4>1, <4>4, Zenon
    <3>2. CASE Release(r)
      <4> DEFINE h == [k EXCEPT !.status = "released"]
      <4>1. resv' = [resv EXCEPT ![r] = h]
        BY <3>2 DEF Release
      <4>2. h \in Reservation /\ h.status = "released"
        BY <2>1 DEF Reservation, ReservationStatus
      <4> HIDE DEF h
      <4>3. RowFine(a, log[r], h)
        BY <2>1, <2>2, <4>2 DEF RowFine
      <4> QED
        BY <4>1, <4>3, Zenon
    <3> QED
      BY <1>2, <3>1, <3>2 DEF Settling
  <2>4. req' = [req EXCEPT ![r] = a] /\ log' = [log EXCEPT ![r] = log[r]]
    BY Zenon DEF ChatInv, RowsFine
  <2>5. RowsFine' /\ req' = req
    BY <2>3, <2>4, OneRowFine, Zenon
  <2> QED
    BY <2>5, RowTypes, SameRow
<1> QED
  BY <1>1, <1>2

\* CaptureHold and ReleaseHold of a worker.
LEMMA WorkerSettles ==
  ASSUME ChatInv, NEW w \in Workers, CaptureHold(w) \/ ReleaseHold(w)
  PROVE  ChatInv'
<1> DEFINE r == worker[w].req
<1>1. /\ worker[w].pc \in {"capture", "release"} /\ Leave(w)
      /\ UNCHANGED <<req, log, posted, loop, todo>>
  BY DEF CaptureHold, ReleaseHold
<1>2. r \in Sources /\ OnRow(worker[w], req[r])
  BY <1>1, AtWork
<1>3. Settling(r) \/ resv' = resv
  <2>1. CASE CaptureHold(w)
    BY <1>2, <2>1, Zenon DEF CaptureHold, OnRow, Settling, billingVars
  <2>2. CASE ReleaseHold(w)
    BY <1>2, <2>2, Zenon DEF ReleaseHold, OnRow, Settling, Ended, billingVars
  <2> QED
    BY <2>1, <2>2
<1>4. RowsFine' /\ \A x \in Sources : KeepsRow(req[x], req'[x])
  BY <1>1, <1>2, <1>3, SettlingRows, Zenon
<1>5. WorkersMove
  BY <1>1, OneWorker, Zenon DEF Leave, KeepsWorker
<1> QED
  BY <1>1, <1>4, <1>5, GoesOn

\* ReconcileExpired ends the active request if its lease lapsed.
LEMMA ReconcileExpiredStep ==
  ASSUME ChatInv, NEW p \in Reconcilers, ReconcileExpired(p)
  PROVE  ChatInv'
<1>1. /\ At(p, "select") /\ UNCHANGED <<worker, todo, posted, resv>>
  BY Zenon DEF ReconcileExpired, billingVars
<1>2. RowsFine' /\ \A x \in Sources : KeepsRow(req[x], req'[x])
  <2>1. CASE UNCHANGED <<req, log>>
    BY <1>1, <2>1, RowsRest
  <2>2. CASE /\ active \in Sources /\ Lapsed(active)
             /\ \/ End(active, "submitted_unknown", "failed")
                \/ End(active, "stopped", "stopped")
    <3>1. req[active].status \in Open
      BY <2>2 DEF Lapsed, Open
    <3>2. /\ {"submitted_unknown", "stopped"} \subseteq Terminal \ {"succeeded"}
          /\ {"failed", "stopped"} \subseteq Log!TerminalEvents
      BY DEF Terminal, Ended, Log!TerminalEvents
    <3>3. ASSUME NEW r \in Sources, r = active PROVE RowsFine' /\ \A x \in Sources : KeepsRow(req[x], req'[x])
      <4>1. \/ End(r, "submitted_unknown", "failed") \/ End(r, "stopped", "stopped")
        BY <2>2, <3>3, Zenon
      <4> QED
        BY <1>1, <3>1, <3>2, <3>3, <4>1, EndStep
    <3> QED
      BY <2>2, <3>3
  <2> QED
    BY <2>1, <2>2, Zenon DEF ReconcileExpired
<1>3. WorkersMove
  BY <1>1, WorkersRest
<1>4. LoopsFine'
  <2> DEFINE l == [pc |-> "select", req |-> NoRequest]
  <2>1. loop' = [loop EXCEPT ![p] = l] /\ l.pc # "releaseExpired"
    BY <1>1, Zenon DEF At
  <2>2. todo' = [todo EXCEPT ![p] = todo[p]]
    BY <1>1 DEF ChatInv, LoopsFine
  <2>3. todo[p] \subseteq {r \in Sources : req'[r].status \in Ended}
    BY <1>2 DEF ChatInv, LoopsFine, KeepsRow, Steady, Terminal
  <2> HIDE DEF l
  <2> QED
    BY <1>2, <2>1, <2>2, <2>3, OneLoop, Zenon
<1> QED
  BY <1>1, <1>2, <1>3, <1>4, GoesOnWithLoops, Zenon

\* Select, SelectionDone, SettleSucceeded, SettleUnsuccessful, ReleaseExpired.
LEMMA ReconcileStep ==
  ASSUME ChatInv, NEW p \in Reconcilers,
         \/ Select(p) \/ SelectionDone(p) \/ ReleaseExpired(p)
         \/ \E r \in Sources : SettleSucceeded(p, r) \/ SettleUnsuccessful(p, r)
  PROVE  ChatInv'
<1>1. UNCHANGED <<req, log, worker, posted>>
  BY Zenon DEF Select, SelectionDone, ReleaseExpired, ReleaseOrRestart, SettleSucceeded, SettleUnsuccessful
<1>2. WorkersMove
  BY <1>1, WorkersRest
<1>3. todo[p] \subseteq {r \in Sources : req[r].status \in Ended}
  BY DEF ChatInv, LoopsFine
<1>4. ASSUME NEW r \in Sources, Settling(r) \/ resv' = resv,
             NEW todos \in SUBSET {x \in Sources : req[x].status \in Ended},
             todo' = [todo EXCEPT ![p] = todos], NEW l, loop' = [loop EXCEPT ![p] = l],
             l.pc = "releaseExpired" => l.req \in Sources /\ req[l.req].status = "succeeded"
      PROVE  ChatInv'
  <2>1. RowsFine' /\ \A x \in Sources : KeepsRow(req[x], req'[x])
    BY <1>1, <1>4, SettlingRows, Zenon
  <2>2. todos \subseteq {x \in Sources : req'[x].status \in Ended}
    BY <1>1
  <2>3. l.pc = "releaseExpired" => l.req \in Sources /\ req'[l.req].status = "succeeded"
    BY <1>1, <1>4, Zenon
  <2>4. LoopsFine'
    BY <1>4, <2>1, <2>2, <2>3, OneLoop, Zenon
  <2> QED
    BY <1>1, <1>2, <2>1, <2>4, GoesOnWithLoops
<1>5. ASSUME NEW r \in Sources, Settling(r) \/ resv' = resv, Done1(p, r) \/ Restart(p)
      PROVE  ChatInv'
  <2>1. PICK todos \in SUBSET {x \in Sources : req[x].status \in Ended} :
          todo' = [todo EXCEPT ![p] = todos]
    BY <1>3, <1>5, Zenon DEF Done1, Restart
  <2>2. PICK pc \in {"settle", "expired"} : loop' = [loop EXCEPT ![p] = [pc |-> pc, req |-> NoRequest]]
    BY <1>5 DEF Done1, Restart, At
  <2> DEFINE l == [pc |-> pc, req |-> NoRequest]
  <2>3. loop' = [loop EXCEPT ![p] = l] /\ l.pc # "releaseExpired"
    BY <2>2
  <2> HIDE DEF l
  <2> QED
    BY <1>4, <1>5, <2>1, <2>3, Zenon
<1>6. CASE Select(p) \/ SelectionDone(p)
  <2>1. resv' = resv
    BY <1>6, Zenon DEF Select, SelectionDone, billingVars
  <2>2. PICK todos \in SUBSET {x \in Sources : req[x].status \in Ended} :
          todo' = [todo EXCEPT ![p] = todos]
    <3>1. CASE Select(p)
      BY <3>1, Zenon DEF Select
    <3>2. CASE SelectionDone(p)
      <4>1. todo' = [todo EXCEPT ![p] = todo[p]]
        BY <3>2 DEF SelectionDone, ChatInv, LoopsFine
      <4> QED
        BY <1>3, <4>1, Zenon
    <3> QED
      BY <1>6, <3>1, <3>2
  <2>3. PICK pc \in {"settle", "expired"} : loop' = [loop EXCEPT ![p] = [pc |-> pc, req |-> NoRequest]]
    BY <1>6, Zenon DEF Select, SelectionDone, At
  <2> DEFINE l == [pc |-> pc, req |-> NoRequest]
  <2>4. loop' = [loop EXCEPT ![p] = l] /\ l.pc # "releaseExpired"
    BY <2>3
  <2> HIDE DEF l
  <2>5. RowsFine' /\ \A x \in Sources : KeepsRow(req[x], req'[x])
    BY <1>1, <2>1, RowsRest
  <2>6. todos \subseteq {x \in Sources : req'[x].status \in Ended}
    BY <1>1
  <2>7. LoopsFine'
    BY <2>2, <2>4, <2>5, <2>6, OneLoop, Zenon
  <2> QED
    BY <1>1, <1>2, <2>5, <2>7, GoesOnWithLoops
<1>7. ASSUME NEW r \in Sources, req[r].status \in Ended, ReleaseOrRestart(p, r) PROVE ChatInv'
  <2>1. (Settling(r) \/ resv' = resv) /\ (Done1(p, r) \/ Restart(p))
    BY <1>7, Zenon DEF ReleaseOrRestart, Settling, billingVars
  <2> QED
    BY <1>5, <2>1, Zenon
<1>8. ASSUME NEW r \in Sources, SettleUnsuccessful(p, r) PROVE ChatInv'
  BY <1>3, <1>7, <1>8, Zenon DEF SettleUnsuccessful
<1>9. CASE ReleaseExpired(p)
  <2>1. loop[p].req \in Sources /\ req[loop[p].req].status \in Ended
    BY <1>9 DEF ReleaseExpired, ChatInv, LoopsFine, Ended
  <2>2. ASSUME NEW r \in Sources, r = loop[p].req PROVE ChatInv'
    BY <1>7, <1>9, <2>1, <2>2 DEF ReleaseExpired
  <2> QED
    BY <2>1, <2>2, Zenon
<1>10. ASSUME NEW r \in Sources, SettleSucceeded(p, r) PROVE ChatInv'
  <2>1. r \in todo[p] /\ req[r].status = "succeeded"
    BY <1>10, Zenon DEF SettleSucceeded
  <2>2. CASE (Capture(r, req[r].usage) \/ UNCHANGED billingVars) /\ (Done1(p, r) \/ Restart(p))
    BY <1>5, <2>1, <2>2, Zenon DEF Settling, billingVars
  <2>3. CASE /\ loop' = [loop EXCEPT ![p] = [pc |-> "releaseExpired", req |-> r]]
             /\ UNCHANGED <<todo, billingVars>>
    <3> DEFINE l == [pc |-> "releaseExpired", req |-> r]
    <3>1. l.req = r /\ loop' = [loop EXCEPT ![p] = l] /\ resv' = resv
      BY <2>3, Zenon DEF billingVars
    <3>2. todo' = [todo EXCEPT ![p] = todo[p]]
      BY <2>3 DEF ChatInv, LoopsFine
    <3> HIDE DEF l
    <3> QED
      BY <1>3, <1>4, <2>1, <3>1, <3>2, Zenon
  <2> QED
    BY <1>10, <2>2, <2>3, Zenon DEF SettleSucceeded
<1> QED
  BY <1>6, <1>8, <1>9, <1>10

\* HoldExpires and Credit: a hold that lapses stays pending.
LEMMA WalletStep ==
  ASSUME ChatInv, (\E r \in Sources : HoldExpires(r)) \/ (\E g \in Grants : Credit(g))
  PROVE  ChatInv'
<1>1. UNCHANGED <<req, log, worker, posted, loop, todo>>
  BY DEF HoldExpires, Credit, chatVars
<1>2. WorkersMove
  BY <1>1, WorkersRest
<1>3. RowsFine' /\ \A x \in Sources : KeepsRow(req[x], req'[x])
  <2>1. CASE \E g \in Grants : Credit(g)
    <3>1. resv' = resv
      BY <2>1 DEF Credit, Grant
    <3> QED
      BY <1>1, <3>1, RowsRest
  <2>2. ASSUME NEW r \in Sources, HoldExpires(r)
        PROVE  RowsFine' /\ \A x \in Sources : KeepsRow(req[x], req'[x])
    <3> DEFINE k == resv[r]
               h == [k EXCEPT !.lapsed = TRUE]
    <3>1. RowFine(req[r], log[r], k) /\ k \in Reservation
      BY RowTypes, Zenon DEF RowFine
    <3>2. /\ req' = [req EXCEPT ![r] = req[r]] /\ log' = [log EXCEPT ![r] = log[r]]
          /\ resv' = [resv EXCEPT ![r] = h]
      BY <1>1, <2>2, Zenon DEF HoldExpires, HoldLapses, ChatInv, RowsFine
    <3>3. h \in Reservation /\ h.status = k.status /\ h.captured = k.captured
      BY <3>1, Zenon DEF Reservation
    <3> HIDE DEF h
    <3>4. RowFine(req[r], log[r], h)
      BY <3>1, <3>3, Zenon DEF RowFine
    <3> QED
      BY <1>1, <3>2, <3>4, OneRowFine, RowTypes, SameRow, Zenon
  <2> QED
    BY <2>1, <2>2
<1> QED
  BY <1>1, <1>2, <1>3, GoesOn

-----------------------------------------------------------------------------
(* Theorems. *)

\* The first state satisfies the invariant.
LEMMA ChatInitially ==
  ASSUME Init
  PROVE  ChatInv
<1>1. RowFine([status |-> "none", token |-> 0, claims |-> 0, live |-> FALSE, seq |-> -1,
               usage |-> NoAmount], <<>>, NoReservation)
  BY DEF RowFine, RequestRow, NoReservation, Reservation, ReservationStatus, NoAmount, Open,
         Executing
<1>2. RowsFine
  BY <1>1 DEF Init, BillingInit, RowsFine, NoRow
<1>3. WorkersFine
  BY IdleFine DEF Init, WorkersFine, Apart
<1>4. PostsFine
  BY DEF Init, PostsFine
<1>5. LoopsFine
  BY DEF Init, LoopsFine
<1> QED
  BY <1>2, <1>3, <1>4, <1>5 DEF ChatInv

\* Every step keeps it.
LEMMA ChatStep ==
  ASSUME ChatInv, [Next]_vars
  PROVE  ChatInv'
<1>1. CASE UNCHANGED vars
  <2>1. UNCHANGED <<req, log, resv, worker, posted, loop, todo>>
    BY <1>1 DEF vars, chatVars, billingVars
  <2> QED
    BY <2>1, RowsRest, WorkersRest, GoesOn, Zenon
<1>2. ASSUME NEW w \in Workers, WorkerStep(w) PROVE ChatInv'
  BY <1>2, CheckStopStep, AdmissionStep, RequeueStep, PostStep, StreamStep, AppendDeltaStep,
     CompleteStep, MarkStep, WorkerSettles DEF WorkerStep
<1>3. ASSUME NEW p \in Reconcilers, ReconcilerStep(p) PROVE ChatInv'
  BY <1>3, ReconcileExpiredStep, ReconcileStep, Zenon DEF ReconcilerStep
<1> QED
  BY <1>1, <1>2, <1>3, SubmitStep, UserStep, WalletStep, ClaimStep, FaultStep DEF Next

\* Requests, logs, holds, workers and loops agree in every reachable state.
THEOREM ChatInvariant == Spec => []ChatInv
<1>1. Init => ChatInv
  BY ChatInitially
<1>2. ChatInv /\ [Next]_vars => ChatInv'
  BY ChatStep
<1> QED
  BY <1>1, <1>2, PTL DEF Spec

\* No request is sent to the provider twice, whatever leases lapse, workers
\* crash and messages are delivered again.
THEOREM AtMostOnePostAlways == Spec => []AtMostOnePost
<1>1. ChatInv => AtMostOnePost
  BY DEF ChatInv, PostsFine, AtMostOnePost
<1> QED
  BY <1>1, ChatInvariant, PTL

\* A request of unknown outcome keeps its hold.
THEOREM UnknownKeepsHoldAlways == Spec => []UnknownKeepsHold
<1>1. ChatInv => UnknownKeepsHold
  BY Zenon DEF ChatInv, RowsFine, RowFine, UnknownKeepsHold
<1> QED
  BY <1>1, ChatInvariant, PTL

\* Only completed requests are charged, at their recorded usage.
THEOREM ChargedOnlyIfCompletedAlways == Spec => []ChargedOnlyIfCompleted
<1>1. ChatInv => ChargedOnlyIfCompleted
  BY Zenon DEF ChatInv, RowsFine, RowFine, ChargedOnlyIfCompleted
<1> QED
  BY <1>1, ChatInvariant, PTL

-----------------------------------------------------------------------------
(* The log. *)

\* Nothing is written, and no request ends.
LEMMA LogRests ==
  ASSUME log' = log, \A r \in Sources : req'[r].status \in Terminal <=> req[r].status \in Terminal
  PROVE  UNCHANGED Log!logVars
<1>1. [r \in Sources |-> req'[r].status \in Terminal] = [r \in Sources |-> req[r].status \in Terminal]
  OBVIOUS
<1> QED
  BY <1>1 DEF Log!logVars

\* The first event.
LEMMA LogStarts ==
  ASSUME NEW r \in Sources, log[r] = <<>>, log' = [log EXCEPT ![r] = <<"started">>],
         \A x \in Sources : req'[x].status \in Terminal <=> req[x].status \in Terminal
  PROVE  Log!LogNext
<1>1. [x \in Sources |-> req'[x].status \in Terminal] = [x \in Sources |-> req[x].status \in Terminal]
  OBVIOUS
<1>2. Log!Start(r)
  BY <1>1 DEF Log!Start
<1> QED
  BY <1>2 DEF Log!LogNext

\* A delta.
LEMMA LogGrows ==
  ASSUME NEW r \in Sources, log[r] # <<>>, Len(log[r]) <= MaxDeltas,
         log' = [log EXCEPT ![r] = Append(@, "delta")], req[r].status \notin Terminal,
         \A x \in Sources : req'[x].status \in Terminal <=> req[x].status \in Terminal
  PROVE  Log!LogNext
<1>1. [x \in Sources |-> req'[x].status \in Terminal] = [x \in Sources |-> req[x].status \in Terminal]
  OBVIOUS
<1>2. ~[x \in Sources |-> req[x].status \in Terminal][r]
  BY Zenon
<1>3. Log!Delta(r)
  BY <1>1, <1>2, Zenon DEF Log!Delta
<1> QED
  BY <1>3, Zenon DEF Log!LogNext

\* One request ends.
LEMMA OneEnds ==
  ASSUME NEW R, NEW Q, NEW r \in Sources, \A x \in Sources \ {r} : R[x] = Q[x],
         R[r].status \in Terminal
  PROVE  [x \in Sources |-> R[x].status \in Terminal]
           = [[x \in Sources |-> Q[x].status \in Terminal] EXCEPT ![r] = TRUE]
BY Zenon

\* The terminal event.
LEMMA LogEnds ==
  ASSUME NEW r \in Sources, log[r] # <<>>, NEW e \in Log!TerminalEvents,
         log' = [log EXCEPT ![r] = Append(@, e)], req[r].status \notin Terminal,
         req'[r].status \in Terminal, \A x \in Sources \ {r} : req'[x] = req[x]
  PROVE  Log!LogNext
<1>1. [x \in Sources |-> req'[x].status \in Terminal]
        = [[x \in Sources |-> req[x].status \in Terminal] EXCEPT ![r] = TRUE]
  BY OneEnds
<1>2. ~[x \in Sources |-> req[x].status \in Terminal][r]
  BY Zenon
<1>3. Log!Finish(r, e)
  BY <1>1, <1>2 DEF Log!Finish
<1> QED
  BY <1>3 DEF Log!LogNext

\* A request that is claimed, renewed, stopped or requeued has neither ended
\* nor ends.
LEMMA StillOpen ==
  ASSUME ChatInv, NEW r \in Sources, NEW b, req' = [req EXCEPT ![r] = b], log' = log,
         b.status \in Terminal <=> req[r].status \in Terminal
  PROVE  UNCHANGED Log!logVars
<1>1. \A x \in Sources : req'[x] = IF x = r THEN b ELSE req[x]
  BY DEF ChatInv, RowsFine
<1>2. \A x \in Sources : req'[x].status \in Terminal <=> req[x].status \in Terminal
  BY <1>1
<1> QED
  BY <1>2, LogRests

\* An open request has a log, to which End or Complete appends.
LEMMA CloseLogs ==
  ASSUME ChatInv, NEW r \in Sources, req[r].status \in Open, NEW status \in Terminal,
         NEW event \in Log!TerminalEvents, NEW usage,
         req' = [req EXCEPT ![r] = Closed(@, status, usage)],
         log' = [log EXCEPT ![r] = Append(@, event)]
  PROVE  Log!LogNext
<1>1. log[r] # <<>> /\ req[r].status \notin Terminal
  BY RowTypes, Zenon DEF RowFine, Open, Executing, Terminal, Ended
<1> DEFINE b == Closed(req[r], status, usage)
<1>2. b.status = status /\ req' = [req EXCEPT ![r] = b]
  BY DEF Closed
<1> HIDE DEF b
<1>3. req'[r] = b /\ \A x \in Sources \ {r} : req'[x] = req[x]
  BY <1>2 DEF ChatInv, RowsFine
<1> QED
  BY <1>1, <1>2, <1>3, LogEnds, Zenon

\* End closes a request.
LEMMA EndLogs ==
  ASSUME ChatInv, NEW r \in Sources, req[r].status \in Open, NEW status \in Terminal,
         NEW event \in Log!TerminalEvents, End(r, status, event)
  PROVE  Log!LogNext
<1> DEFINE usage == req[r].usage
<1>1. req' = [req EXCEPT ![r] = Closed(@, status, usage)] /\ log' = [log EXCEPT ![r] = Append(@, event)]
  BY DEF End
<1> HIDE DEF usage
<1> QED
  BY <1>1, CloseLogs, Zenon

\* A worker's step writes one event or none.
LEMMA WorkerLogs ==
  ASSUME ChatInv, NEW w \in Workers, WorkerStep(w)
  PROVE  Log!LogNext \/ UNCHANGED Log!logVars
<1> DEFINE r == worker[w].req
<1>1. CASE UNCHANGED <<req, log>>
  BY <1>1, LogRests, Zenon
<1>2. worker[w].pc # "idle" => r \in Sources /\ RowFine(req[r], log[r], resv[r])
  BY AtWork, RowTypes, Zenon
<1>3. CASE Requeue(w)
  <2>1. CASE /\ Row(w).status = "running" /\ log' = log
             /\ req' = [req EXCEPT ![r] = [@ EXCEPT !.status = "queued", !.token = 0, !.live = FALSE]]
    <3> DEFINE b == [req[r] EXCEPT !.status = "queued", !.token = 0, !.live = FALSE]
    <3>1. req' = [req EXCEPT ![r] = b] /\ req[r].status = "running" /\ r \in Sources
          /\ req[r] \in RequestRow
      BY <1>2, <1>3, <2>1, Zenon DEF Requeue, Row, RowFine
    <3>2. b.status = "queued"
      BY <3>1, Zenon DEF RequestRow
    <3>3. b.status \notin Terminal /\ req[r].status \notin Terminal
      BY <3>1, <3>2 DEF Terminal, Ended
    <3> HIDE DEF b
    <3> QED
      BY <2>1, <3>1, <3>3, StillOpen, Zenon
  <2> QED
    BY <1>1, <1>3, <2>1 DEF Requeue
<1>4. CASE AppendDelta(w)
  <2>1. CASE /\ Writable(w, {"running"})
             /\ req' = [req EXCEPT ![r].seq = @ + 1]
             /\ log' = [log EXCEPT ![r] = Append(@, "delta")]
    <3> DEFINE b == [req[r] EXCEPT !.seq = req[r].seq + 1]
    <3>1. req' = [req EXCEPT ![r] = b] /\ r \in Sources /\ req[r] \in RequestRow
      BY <1>2, <1>4, <2>1, Zenon DEF AppendDelta, RowFine
    <3>2. b.status = req[r].status
      BY <3>1, Zenon DEF RequestRow
    <3> HIDE DEF b
    <3>3. \A x \in Sources : req'[x].status \in Terminal <=> req[x].status \in Terminal
      BY <3>1, <3>2 DEF ChatInv, RowsFine
    <3>4. req[r].status = "running" /\ req[r].seq = worker[w].seq /\ worker[w].seq < MaxDeltas
      BY <1>4, <2>1, AtWork, Zenon DEF AppendDelta, Writable, Row, WorkerFine
    <3>5. log[r] # <<>> /\ req[r].status \notin Terminal /\ Len(log[r]) <= MaxDeltas
      BY <1>2, <1>4, <3>4, ChatConstants DEF AppendDelta, RowFine, Terminal, Ended
    <3> QED
      BY <2>1, <3>1, <3>3, <3>5, LogGrows, Zenon
  <2> QED
    BY <1>1, <1>4, <2>1, Zenon DEF AppendDelta
<1>5. CASE Complete(w)
  <2>1. ASSUME NEW c \in Charges, Writable(w, {"running"}),
               req' = [req EXCEPT ![r] = Closed(@, "succeeded", c)],
               log' = [log EXCEPT ![r] = Append(@, "completed")]
        PROVE  Log!LogNext
    <3>1. r \in Sources /\ req[r].status \in Open
      BY <1>2, <1>5, <2>1, Zenon DEF Complete, Writable, Row, Open, Executing
    <3>2. "succeeded" \in Terminal /\ "completed" \in Log!TerminalEvents
      BY Zenon DEF Terminal, Ended, Log!TerminalEvents
    <3> QED
      BY <2>1, <3>1, <3>2, CloseLogs, Zenon
  <2> QED
    BY <1>1, <1>5, <2>1, Zenon DEF Complete
<1>6. CASE MarkStopped(w) \/ MarkFailed(w) \/ MarkUnknown(w)
  <2>1. ASSUME NEW status \in {"stopped", "failed", "submitted_unknown"},
               NEW event \in {"stopped", "failed"}, Writable(w, Executing),
               End(r, status, event)
        PROVE  Log!LogNext
    <3>1. r \in Sources /\ req[r].status \in Open
      BY <1>2, <1>6, <2>1, Zenon DEF MarkStopped, MarkFailed, MarkUnknown, Writable, Row, Open
    <3>2. status \in Terminal /\ event \in Log!TerminalEvents
      BY DEF Terminal, Ended, Log!TerminalEvents
    <3> QED
      BY <2>1, <3>1, <3>2, EndLogs, Zenon
  <2>2. Writable(w, {"running"}) => Writable(w, Executing)
    BY DEF Writable, Executing
  <2> QED
    BY <1>1, <1>6, <2>1, <2>2, Zenon DEF MarkStopped, MarkFailed, MarkUnknown, EndIf
<1> QED
  BY <1>1, <1>3, <1>4, <1>5, <1>6
  DEF WorkerStep, CheckStop, RejectHistory, Admit, Saturate, Post, NextChunk, StreamEnds,
      CheckChunk, FinalCheck, CaptureHold, ReleaseHold

\* Every step writes one event or none.
LEMMA StepLogs ==
  ASSUME ChatInv, [Next]_vars
  PROVE  Log!LogNext \/ UNCHANGED Log!logVars
<1>1. CASE UNCHANGED <<req, log>>
  BY <1>1, LogRests, Zenon
<1>2. ASSUME NEW r \in Sources, NEW amount \in Amounts, Submit(r, amount) PROVE Log!LogNext
  <2> DEFINE b == [req[r] EXCEPT !.status = "queued", !.seq = 0]
  <2>1. /\ req[r].status = "none" /\ req' = [req EXCEPT ![r] = b]
        /\ log' = [log EXCEPT ![r] = <<"started">>] /\ req[r] \in RequestRow
    BY <1>2, RowTypes DEF Submit
  <2>2. b.status = "queued"
    BY <2>1, Zenon DEF RequestRow
  <2> HIDE DEF b
  <2>3. log[r] = <<>> /\ {b.status, req[r].status} \cap Terminal = {}
    BY <2>1, <2>2, RowTypes, Zenon DEF RowFine, Terminal, Ended
  <2>4. \A x \in Sources : req'[x].status \in Terminal <=> req[x].status \in Terminal
    BY <2>1, <2>3, Zenon DEF ChatInv, RowsFine
  <2> QED
    BY <2>1, <2>3, <2>4, LogStarts, Zenon
<1>3. ASSUME NEW r \in Sources, StopQueued(r) PROVE Log!LogNext
  <2>1. req[r].status \in Open /\ "stopped" \in Terminal /\ "stopped" \in Log!TerminalEvents
    BY <1>3, Zenon DEF StopQueued, Open, Terminal, Ended, Log!TerminalEvents
  <2> QED
    BY <1>3, <2>1, EndLogs, Zenon DEF StopQueued
<1>4. ASSUME NEW r \in Sources, StopRunning(r) \/ LeaseLapses(r) PROVE UNCHANGED Log!logVars
  <2> DEFINE a == req[r]
             b == IF StopRunning(r) THEN [a EXCEPT !.status = "stop_requested"]
                                    ELSE [a EXCEPT !.live = FALSE]
  <2>1. req' = [req EXCEPT ![r] = b] /\ log' = log /\ a \in RequestRow
    BY <1>4, RowTypes DEF StopRunning, LeaseLapses
  <2>2. b.status = a.status \/ (a.status = "running" /\ b.status = "stop_requested")
    BY <1>4, <2>1 DEF StopRunning, RequestRow
  <2> HIDE DEF b
  <2>3. b.status \in Terminal <=> a.status \in Terminal
    BY <2>2 DEF Terminal, Ended
  <2> QED
    BY <2>1, <2>3, StillOpen, Zenon
<1>5. ASSUME NEW w \in Workers, NEW r \in Sources, Claim(w, r) PROVE UNCHANGED Log!logVars
  <2> DEFINE a == req[r]
             n == a.claims + 1
             b == [a EXCEPT !.status = "running", !.live = TRUE, !.claims = n, !.token = n]
  <2>1. a.status = "queued" /\ req' = [req EXCEPT ![r] = b] /\ log' = log /\ a \in RequestRow
    BY <1>5, RowTypes DEF Claim
  <2> HIDE DEF n
  <2>2. b.status = "running"
    BY <2>1 DEF RequestRow
  <2> HIDE DEF b
  <2>3. b.status \in Terminal <=> a.status \in Terminal
    BY <2>1, <2>2 DEF Terminal, Ended
  <2> QED
    BY <2>1, <2>3, StillOpen, Zenon
<1>6. ASSUME NEW p \in Reconcilers, ReconcileExpired(p) PROVE Log!LogNext \/ UNCHANGED Log!logVars
  <2>1. ASSUME NEW r \in Sources, Lapsed(r),
               \/ End(r, "submitted_unknown", "failed")
               \/ End(r, "stopped", "stopped")
        PROVE  Log!LogNext
    <3>1. /\ req[r].status \in Open /\ {"submitted_unknown", "stopped"} \subseteq Terminal
          /\ {"failed", "stopped"} \subseteq Log!TerminalEvents
      BY <2>1 DEF Lapsed, Open, Terminal, Ended, Log!TerminalEvents
    <3> QED
      BY <2>1, <3>1, EndLogs
  <2>2. CASE /\ active \in Sources /\ Lapsed(active)
             /\ \/ End(active, "submitted_unknown", "failed")
                \/ End(active, "stopped", "stopped")
    <3>1. ASSUME NEW r \in Sources, r = active PROVE Log!LogNext
      BY <2>1, <2>2, <3>1
    <3> QED
      BY <2>2, <3>1
  <2> QED
    BY <1>1, <1>6, <2>2, Zenon DEF ReconcileExpired
<1>7. ASSUME NEW p \in Reconcilers, ReconcilerStep(p) PROVE Log!LogNext \/ UNCHANGED Log!logVars
  BY <1>1, <1>6, <1>7, Zenon
  DEF ReconcilerStep, Select, SelectionDone, ReleaseExpired, ReleaseOrRestart,
      SettleSucceeded, SettleUnsuccessful
<1>8. CASE UNCHANGED vars
  BY <1>1, <1>8, Zenon DEF vars, chatVars
<1>9. ASSUME NEW w \in Workers, WorkerError(w) \/ Crash(w) PROVE Log!LogNext \/ UNCHANGED Log!logVars
  BY <1>1, <1>9, Zenon DEF WorkerError, Crash
<1>10. CASE (\E r \in Sources : HoldExpires(r)) \/ (\E g \in Grants : Credit(g))
  BY <1>1, <1>10 DEF HoldExpires, Credit, chatVars
<1> QED
  BY <1>2, <1>3, <1>4, <1>5, <1>7, <1>8, <1>9, <1>10, WorkerLogs DEF Next

\* Before the first request nothing has ended.
LEMMA NoneEnded ==
  ASSUME NEW R, \A r \in Sources : R[r].status \notin Terminal
  PROVE  [r \in Sources |-> R[r].status \in Terminal] = [r \in Sources |-> FALSE]
<1>1. \A r \in Sources : (R[r].status \in Terminal) = FALSE
  OBVIOUS
<1> QED
  BY <1>1, Zenon

\* What API, workers and reconcilers write together is the log that ChatLog
\* specifies, whoever ends a request and however they race.
THEOREM ChatImplementsLog == Spec => ImplementsLog
<1>1. Init => Log!LogInit
  <2> SUFFICES ASSUME Init PROVE Log!LogInit
    OBVIOUS
  <2>1. "none" \notin Terminal
    BY DEF Terminal, Ended
  <2>2. \A r \in Sources : req[r].status = "none"
    BY DEF Init, NoRow
  <2>3. [r \in Sources |-> req[r].status \in Terminal] = [r \in Sources |-> FALSE]
    BY <2>1, <2>2, NoneEnded, Zenon
  <2>4. log = [r \in Sources |-> <<>>]
    BY Zenon DEF Init
  <2> QED
    BY <2>3, <2>4, Zenon DEF Log!LogInit
<1>2. ChatInv /\ [Next]_vars => [Log!LogNext]_(Log!logVars)
  BY StepLogs
<1> QED
  BY <1>1, <1>2, ChatInvariant, PTL DEF Spec, ImplementsLog, Log!LogSpec

\* Only a worker that saw the whole stream completes a request.
THEOREM WholeAnswerAlways == Spec => WholeAnswer
<1>1. ASSUME ChatInv, [Next]_vars PROVE [WholeStep]_vars
  <2> SUFFICES ASSUME Next, NEW r \in Sources, req[r].status # "succeeded",
                      req'[r].status = "succeeded"
               PROVE  \E w \in Workers : worker[w].req = r /\ worker[w].whole
                                         /\ req[r].status = "running"
    BY <1>1, Zenon DEF WholeStep
  <2>1. ASSUME NEW w \in Workers, Complete(w)
        PROVE  worker[w].req = r /\ worker[w].whole /\ req[r].status = "running"
    <3>1. WorkerFine(worker[w]) /\ worker[w].pc = "complete" /\ worker[w].req \in Sources
      BY <1>1, <2>1, AtWork, Zenon DEF Complete
    <3>2. Writable(w, {"running"})
      BY <2>1, Zenon DEF Complete
    <3>3. worker[w].req = r
      <4> SUFFICES ASSUME worker[w].req # r PROVE FALSE
        OBVIOUS
      <4>1. req'[r] = req[r]
        BY <1>1, <2>1, Zenon DEF Complete, ChatInv, RowsFine
      <4> QED
        BY <4>1, Zenon
    <3> QED
      BY <3>1, <3>2, <3>3, Zenon DEF WorkerFine, Writable, Row
  <2>2. ASSUME NEW x \in Sources, NEW b, req' = [req EXCEPT ![x] = b], b.status # "succeeded"
        PROVE  FALSE
    BY <1>1, <2>2 DEF ChatInv, RowsFine
  <2>3. ASSUME NEW x \in Sources, NEW status \in {"stopped", "failed", "submitted_unknown"},
               NEW event, End(x, status, event)
        PROVE  FALSE
    <3> DEFINE b == Closed(req[x], status, req[x].usage)
    <3>1. req' = [req EXCEPT ![x] = b] /\ b.status # "succeeded"
      BY <2>3, Zenon DEF End, Closed
    <3> HIDE DEF b
    <3> QED
      BY <2>2, <3>1
  <2>4. req' # req
    OBVIOUS
  <2>5. ASSUME NEW x \in Sources, NEW amount \in Amounts, Submit(x, amount) PROVE FALSE
    <3> DEFINE b == [req[x] EXCEPT !.status = "queued", !.seq = 0]
    <3>1. req' = [req EXCEPT ![x] = b] /\ req[x] \in RequestRow
      BY <1>1, <2>5, RowTypes DEF Submit
    <3>2. b.status = "queued"
      BY <3>1, Zenon DEF RequestRow
    <3> HIDE DEF b
    <3> QED
      BY <2>2, <3>1, <3>2
  <2>6. ASSUME NEW x \in Sources, StopRunning(x) PROVE FALSE
    <3> DEFINE b == [req[x] EXCEPT !.status = "stop_requested"]
    <3>1. req' = [req EXCEPT ![x] = b] /\ b.status = "stop_requested"
      BY <1>1, <2>6, RowTypes DEF StopRunning, RequestRow
    <3> HIDE DEF b
    <3> QED
      BY <2>2, <3>1
  <2>7. ASSUME NEW x \in Sources, NEW b, req' = [req EXCEPT ![x] = b], b.status = req[x].status
        PROVE  FALSE
    BY <1>1, <2>7 DEF ChatInv, RowsFine
  <2>8. ASSUME NEW x \in Sources, LeaseLapses(x) PROVE FALSE
    <3> DEFINE b == [req[x] EXCEPT !.live = FALSE]
    <3>1. req' = [req EXCEPT ![x] = b] /\ b.status = req[x].status
      BY <1>1, <2>8, RowTypes DEF LeaseLapses, RequestRow
    <3> HIDE DEF b
    <3> QED
      BY <2>7, <3>1
  <2>9. ASSUME NEW w \in Workers, NEW x \in Sources, Claim(w, x) PROVE FALSE
    <3> DEFINE n == req[x].claims + 1
               b == [req[x] EXCEPT !.status = "running", !.live = TRUE, !.claims = n, !.token = n]
    <3>1. req' = [req EXCEPT ![x] = b] /\ req[x] \in RequestRow
      BY <1>1, <2>9, RowTypes DEF Claim
    <3> HIDE DEF n
    <3>2. b.status = "running"
      BY <3>1 DEF RequestRow
    <3> HIDE DEF b
    <3> QED
      BY <2>2, <3>1, <3>2
  <2>10. ASSUME NEW w \in Workers, WorkerStep(w), ~Complete(w) PROVE FALSE
    <3> DEFINE x == worker[w].req
    <3>1. worker[w].pc # "idle" => x \in Sources /\ req[x] \in RequestRow
      BY <1>1, AtWork, RowTypes, Zenon
    <3>2. CASE Requeue(w)
      <4> DEFINE b == [req[x] EXCEPT !.status = "queued", !.token = 0, !.live = FALSE]
      <4>1. x \in Sources /\ req[x] \in RequestRow /\ req' = [req EXCEPT ![x] = b]
        BY <2>4, <3>1, <3>2 DEF Requeue
      <4>2. b.status = "queued"
        BY <4>1 DEF RequestRow
      <4> HIDE DEF b
      <4> QED
        BY <2>2, <4>1, <4>2, Zenon
    <3>3. CASE AppendDelta(w)
      <4> DEFINE b == [req[x] EXCEPT !.seq = req[x].seq + 1]
      <4>1. x \in Sources /\ req[x] \in RequestRow /\ req' = [req EXCEPT ![x] = b]
        BY <2>4, <3>1, <3>3, Zenon DEF AppendDelta
      <4>2. b.status = req[x].status
        BY <4>1, Zenon DEF RequestRow
      <4> HIDE DEF b
      <4> QED
        BY <2>7, <4>1, <4>2
    <3>4. CASE MarkStopped(w) \/ MarkFailed(w) \/ MarkUnknown(w)
      <4>1. x \in Sources
        BY <3>1, <3>4, Zenon DEF MarkStopped, MarkFailed, MarkUnknown
      <4>2. \E status \in {"stopped", "failed", "submitted_unknown"} :
              \E event \in {"stopped", "failed"} : End(x, status, event)
        BY <2>4, <3>4, Zenon DEF MarkStopped, MarkFailed, MarkUnknown, EndIf
      <4> QED
        BY <2>3, <4>1, <4>2
    <3> QED
      BY <2>4, <2>10, <3>2, <3>3, <3>4, Zenon
      DEF WorkerStep, CheckStop, RejectHistory, Admit, Saturate, Post, NextChunk, StreamEnds,
          CheckChunk, FinalCheck, CaptureHold, ReleaseHold
  <2>11. ASSUME NEW p \in Reconcilers, ReconcilerStep(p) PROVE FALSE
    <3>1. CASE ReconcileExpired(p)
      <4>1. active \in Sources /\ (\/ End(active, "submitted_unknown", "failed")
                                   \/ End(active, "stopped", "stopped"))
        BY <2>4, <3>1, Zenon DEF ReconcileExpired
      <4>2. ASSUME NEW x \in Sources, x = active PROVE FALSE
        BY <2>3, <4>1, <4>2, Zenon
      <4> QED
        BY <4>1, <4>2, Zenon
    <3> QED
      BY <2>4, <2>11, <3>1, Zenon DEF ReconcilerStep, Select, SelectionDone, ReleaseExpired,
                               ReleaseOrRestart, SettleSucceeded, SettleUnsuccessful
  <2>12. ASSUME NEW x \in Sources, StopQueued(x) PROVE FALSE
    BY <2>3, <2>12, Zenon DEF StopQueued
  <2>13. ASSUME NEW w \in Workers, WorkerError(w) \/ Crash(w) PROVE FALSE
    BY <2>4, <2>13, Zenon DEF WorkerError, Crash
  <2>14. CASE (\E x \in Sources : HoldExpires(x)) \/ (\E g \in Grants : Credit(g))
    BY <2>4, <2>14, Zenon DEF HoldExpires, Credit, chatVars
  <2> QED
    BY <2>1, <2>5, <2>6, <2>8, <2>9, <2>10, <2>11, <2>12, <2>13, <2>14, Zenon DEF Next
<1> QED
  BY <1>1, ChatInvariant, PTL DEF Spec, WholeAnswer

=============================================================================
