---------------------------- MODULE TurnsProofs -----------------------------
(***************************************************************************)
(* Proofs about the turns of a conversation, for any number of database    *)
(* sessions, requests, keys and messages: a key is honoured once, the      *)
(* conversation names its open request, locks keep what was checked, and   *)
(* only stop and an ending can deadlock.                                   *)
(***************************************************************************)
EXTENDS Turns, FiniteSetTheorems, SequenceTheorems, TLAPS

-----------------------------------------------------------------------------
(* The inductive invariant. *)

Txn == [op : Operations, key : Keys \cup {"none"}, body : Bodies,
        request : Requests \cup {NoRequest}, at : Nat]

RequestRow == [status : Statuses \cup {"none"}, message : Nat, key : Keys \cup {"none"}]

Accepting == {"create", "send", "regenerate"}
Ending == {"finish", "reconcile"}
OnRequest == {"stop", "finish", "reconcile", "settle"}

\* Requests write messages that exist, and the open one, which the conversation
\* names, writes the last; messages alternate, and only the last one streams.
OrderOK ==
  /\ conv \in [exists : BOOLEAN, active : Requests \cup {NoRequest}]
  /\ msgs \in Seq(Message)
  /\ reqs \in [Requests -> RequestRow]
  /\ Len(msgs) % 2 = 0
  /\ \A r \in Requests : reqs[r].status # "none" => reqs[r].message \in 1 .. Len(msgs)
  /\ \A r \in Requests : reqs[r].status \in Open <=> conv.active = r
  /\ \A r \in Requests : conv.active = r => reqs[r].message = Len(msgs)
  /\ \A i \in 1 .. Len(msgs) : msgs[i].role = IF i % 2 = 1 THEN "user" ELSE "assistant"
  /\ \A i \in 1 .. Len(msgs) :
       msgs[i].status = "streaming" <=> conv.active # NoRequest /\ i = Len(msgs)

\* A transaction names what its operation is about, and is within its plan.
TxnOK(p) ==
  /\ txn[p].at <= Len(Plan(p))
  /\ txn[p].op \in Accepting => txn[p].key \in Keys
  /\ txn[p].op = "regenerate" => txn[p].body \in Nat \ {0}
  /\ txn[p].op \in OnRequest => txn[p].request \in Requests /\ reqs[txn[p].request].status # "none"

\* What was answered to a key is what its row says, and a request is the
\* resource of the row of its key.
KeysOK ==
  /\ idem \in [Keys -> [body : Bodies, resource : Resources]]
  /\ answers \in [Keys -> SUBSET (Bodies \X Resources)]
  /\ \A k \in Keys : answers[k] \subseteq {<<idem[k].body, idem[k].resource>>}
  /\ \A k \in Keys : answers[k] # {} => Taken(k)
  /\ \A r \in Requests : reqs[r].status # "none" =>
       reqs[r].key \in Keys /\ idem[reqs[r].key].resource = r
  /\ \A r \in Requests : reqs[r].status = "none" => reqs[r].key = "none"

TxnsOK == txn \in [Procs -> Txn] /\ \A p \in Procs : TxnOK(p)

TurnsInv == OrderOK /\ KeysOK /\ TxnsOK /\ LocksExclusive

-----------------------------------------------------------------------------
(* Plans and locks. *)

\* The rows each operation locks, in order.
LEMMA Plans ==
  ASSUME NEW p \in Procs
  PROVE  /\ txn[p].op = "create" => Plan(p) = << <<"idem", txn[p].key>>, Model>>
         /\ txn[p].op = "send" => Plan(p) = << <<"idem", txn[p].key>>, Conv, Model, Wallet>>
         /\ txn[p].op = "regenerate" =>
              Plan(p) = << <<"idem", txn[p].key>>, Conv, Model, <<"message", txn[p].body>>, Wallet>>
         /\ txn[p].op = "stop" /\ reqs[txn[p].request].status = "queued" =>
              Plan(p) = <<Conv, Model, <<"request", txn[p].request>>,
                          <<"message", reqs[txn[p].request].message>> >>
         /\ txn[p].op = "stop" /\ reqs[txn[p].request].status # "queued" =>
              Plan(p) = <<Conv, Model, <<"request", txn[p].request>> >>
         /\ txn[p].op \in Ending =>
              Plan(p) = << <<"request", txn[p].request>>,
                           <<"message", reqs[txn[p].request].message>>, Conv>>
         /\ txn[p].op = "settle" =>
              Plan(p) = <<Wallet, <<"hold", txn[p].request>>, <<"usage", txn[p].request>> >>
         /\ txn[p].op = "none" => Plan(p) = <<>>
BY Zenon DEF Plan, Ending

\* p is not part of a step, and nobody changes the status of a request it has
\* locked or the message of any.
Spared(p) ==
  /\ txn'[p] = txn[p]
  /\ \A r \in Requests : reqs[r].status # "none" =>
       reqs'[r].message = reqs[r].message /\ reqs'[r].status # "none"
  /\ \A r \in Requests : <<"request", r>> \in Held(p) => reqs'[r].status = reqs[r].status

\* A transaction that is spared keeps its locks and its plan as far as it got.
LEMMA SparedKeeps ==
  ASSUME NEW p \in Procs, TxnsOK, Spared(p)
  PROVE  Held(p)' = Held(p) /\ TxnOK(p)'
<1> DEFINE t == txn[p]
           r == t.request
<1>1. t \in Txn /\ txn'[p] = t
  BY DEF TxnsOK, Spared
<1>0. TxnOK(p)
  BY DEF TxnsOK
<1>2. t.at \in Nat /\ t.at <= Len(Plan(p)) /\ t.op \in Operations
  BY <1>1, <1>0 DEF Txn, TxnOK
<1>3. t.op \in OnRequest => /\ r \in Requests /\ reqs[r].status # "none"
                            /\ reqs'[r].status # "none" /\ reqs'[r].message = reqs[r].message
  BY <1>0 DEF TxnOK, Spared
<1>4. \A i \in 1 .. t.at : Plan(p)[i] \in Held(p)
  BY DEF Held
<1>5. t.op = "stop" /\ t.at >= 3 => reqs'[r].status = reqs[r].status
  <2>1. t.op = "stop" => Plan(p)[3] = <<"request", r>>
    BY Plans
  <2>2. t.at >= 3 => 3 \in 1 .. t.at
    BY <1>2
  <2> QED
    BY <1>3, <1>4, <2>1, <2>2, Zenon DEF Spared, OnRequest
<1>6. /\ Len(Plan(p)') \in Nat /\ t.at <= Len(Plan(p)')
      /\ \A i \in 1 .. t.at : Plan(p)'[i] = Plan(p)[i]
  <2>1. CASE t.op = "stop"
    <3>1. /\ reqs[r].status = "queued" =>
               Plan(p) = <<Conv, Model, <<"request", r>>, <<"message", reqs[r].message>> >>
          /\ reqs[r].status # "queued" => Plan(p) = <<Conv, Model, <<"request", r>> >>
          /\ reqs'[r].status = "queued" =>
               Plan(p)' = <<Conv, Model, <<"request", r>>, <<"message", reqs[r].message>> >>
          /\ reqs'[r].status # "queued" => Plan(p)' = <<Conv, Model, <<"request", r>> >>
      BY <1>1, <1>3, <2>1, Zenon DEF Plan, OnRequest, Conv, Model
    <3>2. CASE t.at >= 3
      <4>1. Plan(p)' = Plan(p)
        BY <1>5, <2>1, <3>1, <3>2, Zenon
      <4>2. Len(Plan(p)) \in Nat
        BY <3>1
      <4> QED
        BY <1>2, <4>1, <4>2
    <3>3. CASE ~(t.at >= 3)
      <4>1. Len(Plan(p)') \in {3, 4} /\ Plan(p)'[1] = Conv /\ Plan(p)'[2] = Model
        BY <3>1
      <4>2. Plan(p)[1] = Conv /\ Plan(p)[2] = Model
        BY <3>1
      <4>3. \A i \in 1 .. t.at : i = 1 \/ i = 2
        BY <1>2, <3>3
      <4>4. \A i \in 1 .. t.at : Plan(p)'[i] = Plan(p)[i]
        BY <4>1, <4>2, <4>3, Zenon
      <4> QED
        BY <1>2, <3>3, <4>1, <4>4
    <3> QED
      BY <3>2, <3>3
  <2>2. CASE t.op # "stop"
    <3>1. Plan(p)' = Plan(p)
      <4>1. CASE t.op \in Ending
        BY <1>1, <1>3, <4>1, Zenon DEF Plan, Ending, OnRequest, Conv
      <4>2. CASE t.op \notin Ending
        BY <1>1, <1>2, <2>2, <4>2, Zenon DEF Plan, Ending, Operations, Conv, Model, Wallet
      <4> QED
        BY <4>1, <4>2
    <3>2. Len(Plan(p)) \in Nat
      BY <1>2, <2>2, Plans DEF Operations, Ending
    <3> QED
      BY <1>2, <3>1, <3>2
  <2> QED
    BY <2>1, <2>2
<1>7. Held(p)' = Held(p)
  BY <1>1, <1>6 DEF Held
<1> QED
  BY <1>1, <1>0, <1>3, <1>6, <1>7 DEF TxnOK, Accepting, OnRequest

\* Locks and transactions after a step of q that spares the others.
LEMMA LocksKept ==
  ASSUME TurnsInv, NEW q \in Procs, TxnOK(q)',
         \A p \in Procs \ {q} : Spared(p) /\ Held(q)' \cap Held(p) = {}
  PROVE  LocksExclusive' /\ \A p \in Procs : TxnOK(p)'
<1>1. ASSUME NEW p \in Procs \ {q} PROVE Held(p)' = Held(p) /\ TxnOK(p)'
  BY <1>1, SparedKeeps, Zenon DEF TurnsInv
<1>2. \A p \in Procs : TxnOK(p)'
  BY <1>1, Zenon
<1>3. ASSUME NEW p1 \in Procs, NEW p2 \in Procs, p1 # p2 PROVE Held(p1)' \cap Held(p2)' = {}
  <2>1. CASE p1 = q
    BY <1>1, <1>3, <2>1
  <2>2. CASE p2 = q
    BY <1>1, <1>3, <2>2
  <2>3. CASE p1 # q /\ p2 # q
    <3>1. Held(p1) \cap Held(p2) = {}
      BY <1>3, Zenon DEF TurnsInv, LocksExclusive
    <3>2. Held(p1)' = Held(p1)
      BY <1>1, <2>3
    <3>3. Held(p2)' = Held(p2)
      BY <1>1, <2>3
    <3> QED
      BY <3>1, <3>2, <3>3
  <2> QED
    BY <2>1, <2>2, <2>3
<1>4. LocksExclusive'
  BY <1>3, Zenon DEF LocksExclusive
<1> QED
  BY <1>2, <1>4

\* A transaction that ended holds nothing.
LEMMA EndedHoldsNothing ==
  ASSUME NEW q \in Procs, txn'[q] = NoTxn
  PROVE  Held(q)' = {} /\ TxnOK(q)'
<1>1. txn'[q].at = 0 /\ txn'[q].op = "none"
  BY DEF NoTxn
<1>2. Plan(q)' = <<>>
  BY <1>1, Zenon DEF Plan
<1> QED
  BY <1>1, <1>2 DEF Held, TxnOK, Accepting, OnRequest

\* A message changes its status only.
LEMMA MessageUpdate ==
  ASSUME msgs \in Seq(Message), NEW i \in 1 .. Len(msgs), NEW s, [msgs[i] EXCEPT !.status = s] \in Message,
         msgs' = [msgs EXCEPT ![i].status = s]
  PROVE  /\ msgs' \in Seq(Message) /\ Len(msgs') = Len(msgs)
         /\ \A j \in 1 .. Len(msgs) : msgs'[j].role = msgs[j].role
         /\ \A j \in 1 .. Len(msgs) : j # i => msgs'[j] = msgs[j]
         /\ msgs'[i].status = s
<1>1. msgs' = [msgs EXCEPT ![i] = [msgs[i] EXCEPT !.status = s]]
  OBVIOUS
<1>2. msgs' \in Seq(Message) /\ Len(msgs') = Len(msgs)
  BY <1>1, ExceptSeq
<1>3. \A j \in 1 .. Len(msgs) : msgs'[j] = IF j = i THEN [msgs[i] EXCEPT !.status = s] ELSE msgs[j]
  BY <1>1
<1>4. msgs[i] \in Message
  BY ElementOfSeq
<1>5. [msgs[i] EXCEPT !.status = s].role = msgs[i].role /\ [msgs[i] EXCEPT !.status = s].status = s
  BY <1>4 DEF Message
<1> QED
  BY <1>2, <1>3, <1>5

-----------------------------------------------------------------------------
(* What the writes of a transaction do to rows and messages. *)

\* The rows a step leaves alone.
DataSame == UNCHANGED <<conv, msgs, reqs, idem, answers>>

\* The facts that a step of one open request leaves as they are.
RowsKept(r) ==
  /\ \A x \in Requests : reqs'[x].message = reqs[x].message /\ reqs'[x].key = reqs[x].key
  /\ \A x \in Requests : x # r => reqs'[x] = reqs[x]

\* Close, on the open request: its message ends and the conversation is free.
LEMMA CloseInOrder ==
  ASSUME OrderOK, NEW r \in Requests, reqs[r].status \in Open,
         NEW status \in Statuses \ Open, NEW message \in {"completed", "failed", "stopped"},
         Close(r, status, message)
  PROVE  OrderOK' /\ RowsKept(r) /\ reqs'[r].status = status
<1>1. /\ conv \in [exists : BOOLEAN, active : Requests \cup {NoRequest}]
      /\ msgs \in Seq(Message) /\ reqs \in [Requests -> RequestRow]
      /\ conv.active = r /\ reqs[r].message = Len(msgs) /\ reqs[r].message \in 1 .. Len(msgs)
  BY DEF OrderOK, Open
<1>2. msgs[Len(msgs)] \in Message
  BY <1>1, ElementOfSeq
<1>3. /\ msgs' \in Seq(Message) /\ Len(msgs') = Len(msgs)
      /\ \A j \in 1 .. Len(msgs) : msgs'[j].role = msgs[j].role
      /\ \A j \in 1 .. Len(msgs) : j # Len(msgs) => msgs'[j] = msgs[j]
      /\ msgs'[Len(msgs)].status = message
  <2>1. [msgs[Len(msgs)] EXCEPT !.status = message] \in Message
    BY <1>2 DEF Message
  <2>2. msgs' = [msgs EXCEPT ![Len(msgs)].status = message]
    BY <1>1 DEF Close
  <2> QED
    BY <1>1, <2>1, <2>2, MessageUpdate
<1>4. /\ conv' \in [exists : BOOLEAN, active : Requests \cup {NoRequest}]
      /\ conv'.active = NoRequest
  BY <1>1 DEF Close, ClearActive
<1>5. reqs' \in [Requests -> RequestRow] /\ RowsKept(r) /\ reqs'[r].status = status
  BY <1>1 DEF Close, RequestRow, RowsKept
<1>6. \A x \in Requests : reqs'[x].status \notin Open
  BY <1>1, <1>5 DEF OrderOK, RowsKept
<1>7. \A x \in Requests : reqs'[x].status # "none" => reqs'[x].message \in 1 .. Len(msgs')
  BY <1>1, <1>3, <1>5 DEF OrderOK, RowsKept
<1>8. \A i \in 1 .. Len(msgs') : msgs'[i].role = IF i % 2 = 1 THEN "user" ELSE "assistant"
  <2>1. \A i \in 1 .. Len(msgs) : msgs[i].role = IF i % 2 = 1 THEN "user" ELSE "assistant"
    BY Zenon DEF OrderOK
  <2> QED
    BY <1>3, <2>1, Zenon
<1>9. \A i \in 1 .. Len(msgs') : msgs'[i].status # "streaming"
  BY <1>3 DEF OrderOK
<1>10. Len(msgs') % 2 = 0
  BY <1>3, Zenon DEF OrderOK
<1>11. \A x \in Requests : conv'.active # x
  BY <1>4, TurnsConstants
<1>12. OrderOK'
  BY <1>3, <1>4, <1>5, <1>6, <1>7, <1>8, <1>9, <1>10, <1>11, Zenon DEF OrderOK
<1> QED
  BY <1>5, <1>12

\* An open request stays open, as when it is claimed or asked to stop.
LEMMA StaysOpenInOrder ==
  ASSUME OrderOK, NEW r \in Requests, reqs[r].status \in Open, NEW status \in Open,
         reqs' = [reqs EXCEPT ![r].status = status], UNCHANGED <<conv, msgs>>
  PROVE  OrderOK' /\ RowsKept(r) /\ reqs'[r].status = status
<1>1. reqs \in [Requests -> RequestRow]
  BY DEF OrderOK
<1>2. reqs' \in [Requests -> RequestRow] /\ RowsKept(r) /\ reqs'[r].status = status
  BY <1>1 DEF RequestRow, RowsKept, Statuses, Open
<1>3. \A x \in Requests : /\ reqs'[x].message = reqs[x].message
                          /\ reqs'[x].status # "none" => reqs[x].status # "none"
                          /\ reqs'[x].status \in Open <=> reqs[x].status \in Open
  BY <1>2 DEF RowsKept, Open
<1>4. OrderOK'
  BY <1>2, <1>3, Zenon DEF OrderOK
<1> QED
  BY <1>2, <1>4, Zenon

\* AppendRequest, when no request is open: r writes the last message.
LEMMA AppendInOrder ==
  ASSUME OrderOK, NEW r \in Requests, reqs[r].status = "none", conv.active = NoRequest,
         NEW k \in Keys,
         msgs' \in Seq(Message), Len(msgs') >= Len(msgs), Len(msgs') > 0, Len(msgs') % 2 = 0,
         \A i \in 1 .. Len(msgs') : msgs'[i].role = IF i % 2 = 1 THEN "user" ELSE "assistant",
         \A i \in 1 .. Len(msgs') : msgs'[i].status = "streaming" <=> i = Len(msgs'),
         reqs' = [reqs EXCEPT ![r] = [status |-> "queued", message |-> Len(msgs'), key |-> k]],
         conv' = [conv EXCEPT !.active = r]
  PROVE  /\ OrderOK'
         /\ reqs'[r].key = k /\ reqs'[r].status = "queued"
         /\ \A x \in Requests : x # r => reqs'[x] = reqs[x]
<1>0. /\ reqs \in [Requests -> RequestRow] /\ msgs \in Seq(Message)
      /\ conv \in [exists : BOOLEAN, active : Requests \cup {NoRequest}]
      /\ \A x \in Requests : reqs[x].status # "none" => reqs[x].message \in 1 .. Len(msgs)
  BY Zenon DEF OrderOK
<1>1. Len(msgs) \in Nat /\ Len(msgs') \in Nat
  BY <1>0, LenProperties
<1>2. /\ reqs' \in [Requests -> RequestRow]
      /\ reqs'[r] = [status |-> "queued", message |-> Len(msgs'), key |-> k]
      /\ \A x \in Requests : x # r => reqs'[x] = reqs[x]
  BY <1>0, <1>1 DEF RequestRow, Statuses
<1>3. /\ conv' \in [exists : BOOLEAN, active : Requests \cup {NoRequest}]
      /\ conv'.active = r
  BY <1>0
<1>4. \A x \in Requests : reqs[x].status \notin Open
  BY TurnsConstants DEF OrderOK
<1>5. \A x \in Requests : reqs'[x].status \in Open <=> conv'.active = x
  BY <1>2, <1>3, <1>4 DEF Open
<1>6. \A x \in Requests : conv'.active = x => reqs'[x].message = Len(msgs')
  BY <1>2, <1>3
<1>7. \A x \in Requests : reqs'[x].status # "none" => reqs'[x].message \in 1 .. Len(msgs')
<2>1. \A x \in Requests : x # r /\ reqs'[x].status # "none" => reqs'[x].message \in 1 .. Len(msgs)
  BY <1>0, <1>2
<2>2. \A n \in 1 .. Len(msgs) : n \in 1 .. Len(msgs')
  BY <1>1
<2>3. reqs'[r].message \in 1 .. Len(msgs')
  BY <1>1, <1>2
<2> QED
  BY <2>1, <2>2, <2>3
<1>8. \A i \in 1 .. Len(msgs') :
        msgs'[i].status = "streaming" <=> conv'.active # NoRequest /\ i = Len(msgs')
  BY <1>3, TurnsConstants
<1>9. OrderOK'
  BY <1>2, <1>3, <1>5, <1>6, <1>7, <1>8, Zenon DEF OrderOK
<1> QED
  BY <1>2, <1>9

-----------------------------------------------------------------------------
(* Locks through a step. *)

\* The kinds of the rows of a plan.
LEMMA PlanKinds ==
  ASSUME NEW p \in Procs
  PROVE  LET P == Plan(p) IN
         /\ txn[p].op = "create" => Len(P) = 2 /\ P[1][1] = "idem" /\ P[2][1] = "product_model"
         /\ txn[p].op = "send" => /\ Len(P) = 4 /\ P[1][1] = "idem" /\ P[2][1] = "conversation"
                                  /\ P[3][1] = "product_model" /\ P[4][1] = "wallet"
         /\ txn[p].op = "regenerate" =>
              /\ Len(P) = 5 /\ P[1][1] = "idem" /\ P[2][1] = "conversation"
              /\ P[3][1] = "product_model" /\ P[4][1] = "message" /\ P[5][1] = "wallet"
         /\ txn[p].op = "stop" =>
              /\ Len(P) \in {3, 4} /\ P[1][1] = "conversation" /\ P[2][1] = "product_model"
              /\ P[3] = <<"request", txn[p].request>> /\ P[3][1] = "request"
              /\ Len(P) = 4 => P[4][1] = "message"
         /\ txn[p].op \in Ending =>
              /\ Len(P) = 3 /\ P[1] = <<"request", txn[p].request>> /\ P[1][1] = "request"
              /\ P[2][1] = "message" /\ P[3] = Conv /\ P[3][1] = "conversation"
         /\ txn[p].op = "settle" => /\ Len(P) = 3 /\ P[1][1] = "wallet"
                                    /\ P[2][1] = "hold" /\ P[3][1] = "usage"
         /\ txn[p].op = "none" => Len(P) = 0
<1> DEFINE P == Plan(p)
<1>1. txn[p].op = "create" => Len(P) = 2 /\ P[1][1] = "idem" /\ P[2][1] = "product_model"
  BY Plans DEF Model
<1>2. txn[p].op = "send" => /\ Len(P) = 4 /\ P[1][1] = "idem" /\ P[2][1] = "conversation"
                            /\ P[3][1] = "product_model" /\ P[4][1] = "wallet"
  BY Plans DEF Model, Conv, Wallet
<1>3. txn[p].op = "regenerate" =>
        /\ Len(P) = 5 /\ P[1][1] = "idem" /\ P[2][1] = "conversation"
        /\ P[3][1] = "product_model" /\ P[4][1] = "message" /\ P[5][1] = "wallet"
  BY Plans DEF Model, Conv, Wallet
<1>4. txn[p].op = "stop" =>
        /\ Len(P) \in {3, 4} /\ P[1][1] = "conversation" /\ P[2][1] = "product_model"
        /\ P[3] = <<"request", txn[p].request>> /\ P[3][1] = "request"
        /\ Len(P) = 4 => P[4][1] = "message"
  BY Plans DEF Model, Conv
<1>5. txn[p].op \in Ending =>
        /\ Len(P) = 3 /\ P[1] = <<"request", txn[p].request>> /\ P[1][1] = "request"
        /\ P[2][1] = "message" /\ P[3] = Conv /\ P[3][1] = "conversation"
  BY Plans DEF Conv
<1>6. txn[p].op = "settle" => /\ Len(P) = 3 /\ P[1][1] = "wallet"
                              /\ P[2][1] = "hold" /\ P[3][1] = "usage"
  BY Plans DEF Wallet
<1>7. txn[p].op = "none" => Len(P) = 0
  BY Plans
<1> HIDE DEF P
<1> QED
  BY <1>1, <1>2, <1>3, <1>4, <1>5, <1>6, <1>7, Zenon DEF P

\* Who holds the row of a request is about that request.
LEMMA HeldRequest ==
  ASSUME TxnsOK, NEW p \in Procs, NEW r, <<"request", r>> \in Held(p)
  PROVE  txn[p].op \in OnRequest /\ txn[p].request = r /\ reqs[r].status # "none"
<1>1. PICK i \in 1 .. txn[p].at : Plan(p)[i] = <<"request", r>>
  BY Zenon DEF Held
<1>2. txn[p] \in Txn /\ TxnOK(p)
  BY Zenon DEF TxnsOK
<1>3. txn[p].at \in Nat /\ txn[p].at <= Len(Plan(p)) /\ txn[p].op \in Operations
  BY <1>2 DEF Txn, TxnOK
<1>4. Plan(p)[i][1] = "request" /\ Plan(p)[i][2] = r
  BY <1>1
<1>5. txn[p].op \notin {"create", "send", "regenerate", "settle", "none"}
  <2>1. txn[p].op # "create"
    BY <1>3, <1>4, PlanKinds
  <2>2. ASSUME txn[p].op = "send" PROVE FALSE
    <3>1. Len(Plan(p)) = 4
      BY <2>2, PlanKinds, Zenon
    <3>2. i = 1 \/ i = 2 \/ i = 3 \/ i = 4
      BY <1>3, <3>1
    <3> QED
      BY <1>4, <2>2, <3>2, PlanKinds
  <2>3. ASSUME txn[p].op = "regenerate" PROVE FALSE
    <3>1. Len(Plan(p)) = 5
      BY <2>3, PlanKinds, Zenon
    <3>2. i = 1 \/ i = 2 \/ i = 3 \/ i = 4 \/ i = 5
      BY <1>3, <3>1
    <3> QED
      BY <1>4, <2>3, <3>2, PlanKinds
  <2>4. txn[p].op # "settle"
    BY <1>3, <1>4, PlanKinds
  <2>5. txn[p].op # "none"
    BY <1>3, <1>4, PlanKinds
  <2> QED
    BY <2>1, <2>2, <2>3, <2>4, <2>5
<1>6. txn[p].op = "stop" \/ txn[p].op \in Ending
  BY <1>3, <1>5 DEF Operations, Ending
<1>7. Plan(p)[i] = <<"request", txn[p].request>>
  BY <1>3, <1>4, <1>6, PlanKinds
<1>8. txn[p].request = r
  BY <1>4, <1>7
<1> QED
  BY <1>2, <1>6, <1>8 DEF TxnOK, OnRequest, Ending

\* A transaction that ends, having changed only requests it had locked or made.
LEMMA EndKeepsLocks ==
  ASSUME TurnsInv, NEW p \in Procs, End(p),
         \A r \in Requests : reqs[r].status # "none" =>
           reqs'[r].message = reqs[r].message /\ reqs'[r].status # "none",
         \A r \in Requests : reqs'[r].status # reqs[r].status =>
           reqs[r].status = "none" \/ <<"request", r>> \in Held(p)
  PROVE  TxnsOK' /\ LocksExclusive'
<1>1. txn \in [Procs -> Txn] /\ TxnsOK /\ LocksExclusive
  BY Zenon DEF TurnsInv, TxnsOK
<1>2. NoTxn \in Txn
  BY DEF Txn, NoTxn, Operations, Bodies
<1>3. txn' \in [Procs -> Txn] /\ txn'[p] = NoTxn /\ \A q \in Procs \ {p} : txn'[q] = txn[q]
  BY <1>1, <1>2 DEF End
<1>4. Held(p)' = {} /\ TxnOK(p)'
  BY <1>3, EndedHoldsNothing
<1>5. ASSUME NEW q \in Procs \ {p} PROVE Spared(q)
  <2>1. ASSUME NEW r \in Requests, <<"request", r>> \in Held(q)
        PROVE reqs'[r].status = reqs[r].status
    <3>1. reqs[r].status # "none"
      BY <1>1, <1>5, <2>1, HeldRequest, Zenon
    <3>2. <<"request", r>> \notin Held(p)
      BY <1>1, <1>5, <2>1, Zenon DEF LocksExclusive
    <3> QED
      BY <3>1, <3>2, Zenon
  <2> QED
    BY <1>3, <1>5, <2>1, Zenon DEF Spared
<1>6. LocksExclusive' /\ \A q \in Procs : TxnOK(q)'
  <2>1. \A q \in Procs \ {p} : Spared(q) /\ Held(p)' \cap Held(q) = {}
    BY <1>4, <1>5
  <2> QED
    BY <1>4, <2>1, LocksKept, Zenon
<1> QED
  BY <1>3, <1>6, Zenon DEF TxnsOK

\* A step without a transaction, which changes only requests nobody has locked.
LEMMA OutsideKeepsLocks ==
  ASSUME TurnsInv, UNCHANGED txn, \A p \in Procs : Spared(p)
  PROVE  TxnsOK' /\ LocksExclusive'
<1>1. ASSUME NEW p \in Procs PROVE Held(p)' = Held(p) /\ TxnOK(p)'
  BY <1>1, SparedKeeps, Zenon DEF TurnsInv
<1>2. \A p, q \in Procs : p # q => Held(p)' \cap Held(q)' = {}
  <2> SUFFICES ASSUME NEW p \in Procs, NEW q \in Procs, p # q PROVE Held(p)' \cap Held(q)' = {}
    OBVIOUS
  <2>1. Held(p)' = Held(p)
    BY <1>1
  <2>2. Held(q)' = Held(q)
    BY <1>1
  <2> QED
    BY <2>1, <2>2 DEF TurnsInv, LocksExclusive
<1>3. txn' \in [Procs -> Txn]
  BY DEF TurnsInv, TxnsOK
<1> QED
  BY <1>1, <1>2, <1>3, Zenon DEF TxnsOK, LocksExclusive

\* A transaction that begins, with no lock or with one nobody has.
LEMMA BeginKeepsLocks ==
  ASSUME TurnsInv, NEW p \in Procs, NEW t \in Txn, Begin(p, t), TxnOK(p)',
         \A q \in Procs \ {p} : Held(p)' \cap Held(q) = {}
  PROVE  TxnsOK' /\ LocksExclusive'
<1>1. txn \in [Procs -> Txn]
  BY DEF TurnsInv, TxnsOK
<1>2. txn' \in [Procs -> Txn] /\ \A q \in Procs \ {p} : txn'[q] = txn[q]
  BY <1>1 DEF Begin
<1>3. \A q \in Procs \ {p} : Spared(q)
  BY <1>2 DEF Begin, Spared
<1>4. LocksExclusive' /\ \A q \in Procs : TxnOK(q)'
  BY <1>3, LocksKept
<1> QED
  BY <1>2, <1>4, Zenon DEF TxnsOK

\* A transaction that takes its next lock, which nobody has.
LEMMA AcquireKeepsLocks ==
  ASSUME TurnsInv, NEW p \in Procs, Acquire(p)
  PROVE  TxnsOK' /\ LocksExclusive'
<1> DEFINE t == txn[p]
<1>1. txn \in [Procs -> Txn] /\ t \in Txn /\ TxnOK(p)
  BY DEF TurnsInv, TxnsOK
<1>2. t.at \in Nat
  BY <1>1 DEF Txn
<1>3. /\ txn' \in [Procs -> Txn] /\ \A q \in Procs \ {p} : txn'[q] = txn[q]
      /\ txn'[p].at = t.at + 1 /\ txn'[p].op = t.op /\ txn'[p].key = t.key
      /\ txn'[p].body = t.body /\ txn'[p].request = t.request
  BY <1>1, <1>2 DEF Acquire, Txn
<1>4. \A q \in Procs \ {p} : Spared(q)
  BY <1>3 DEF Acquire, Spared
<1>5. Plan(p)' = Plan(p)
  <2>1. reqs' = reqs
    BY DEF Acquire
  <2>2. CASE t.op = "stop"
    BY <1>3, <2>1, <2>2, Zenon DEF Plan, Conv, Model
  <2>3. CASE t.op \in Ending
    BY <1>3, <2>1, <2>3, Zenon DEF Plan, Ending, Conv
  <2>4. CASE t.op \notin Ending \cup {"stop"}
    BY <1>3, <2>1, <2>4, Zenon DEF Plan, Ending, Conv, Model, Wallet
  <2> QED
    BY <2>2, <2>3, <2>4
<1>6. Len(Plan(p)) \in Nat
  <2>1. t.op \in Operations
    BY <1>1 DEF Txn
  <2> QED
    BY <2>1, PlanKinds DEF Operations, Ending
<1>7. TxnOK(p)'
  <2>1. txn'[p].at <= Len(Plan(p))
    BY <1>2, <1>3, <1>6 DEF Acquire, Wants
  <2>2. UNCHANGED reqs
    BY DEF Acquire
  <2> QED
    BY <1>1, <1>3, <1>5, <2>1, <2>2, Zenon DEF TxnOK
<1>8. ASSUME NEW q \in Procs \ {p} PROVE Held(p)' \cap Held(q) = {}
  <2>1. Plan(p)[t.at + 1] \notin Held(q)
    BY <1>8, Zenon DEF Acquire, Waits
  <2>2. Held(p) \cap Held(q) = {}
    BY <1>8 DEF TurnsInv, LocksExclusive
  <2>3. \A i \in 1 .. t.at + 1 : i \in 1 .. t.at \/ i = t.at + 1
    BY <1>2
  <2>4. \A i \in 1 .. t.at : Plan(p)[i] \notin Held(q)
    BY <2>2, Zenon DEF Held
  <2>5. Held(p)' = {Plan(p)[i] : i \in 1 .. t.at + 1}
    BY <1>3, <1>5, Zenon DEF Held
  <2>6. \A x \in Held(p)' : x \notin Held(q)
    BY <2>1, <2>3, <2>4, <2>5, Zenon
  <2> QED
    BY <2>6, Zenon
<1>9. LocksExclusive' /\ \A q \in Procs : TxnOK(q)'
  BY <1>4, <1>7, <1>8, LocksKept, Zenon
<1> QED
  BY <1>3, <1>9, Zenon DEF TxnsOK

-----------------------------------------------------------------------------
(* Keys through a step. *)

\* No key is used, and requests keep theirs.
LEMMA KeysKept ==
  ASSUME KeysOK, UNCHANGED <<idem, answers>>,
         \A r \in Requests : /\ reqs'[r].key = reqs[r].key
                             /\ reqs'[r].status # "none" <=> reqs[r].status # "none"
  PROVE  KeysOK'
<1>1. idem' = idem /\ answers' = answers
  OBVIOUS
<1> QED
  BY <1>1, Zenon DEF KeysOK, Taken

\* A new key is honoured: its row and its only answer are the new resource.
LEMMA AcceptKey ==
  ASSUME TurnsInv, NEW p \in Procs, txn[p].op \in Accepting, ~Taken(txn[p].key),
         NEW resource \in Resources \ {"none"}, Accept(p, resource),
         \A r \in Requests : \/ reqs'[r] = reqs[r]
                             \/ /\ reqs'[r].key = txn[p].key /\ reqs'[r].status # "none"
                                /\ resource = r
  PROVE  KeysOK'
<1> DEFINE k == txn[p].key
           b == txn[p].body
<1>1. k \in Keys /\ b \in Bodies
  BY Zenon DEF TurnsInv, TxnsOK, TxnOK, Txn
<1>2. /\ idem \in [Keys -> [body : Bodies, resource : Resources]]
      /\ answers \in [Keys -> SUBSET (Bodies \X Resources)]
      /\ answers[k] = {}
  BY <1>1 DEF TurnsInv, KeysOK
<1>3. /\ idem' \in [Keys -> [body : Bodies, resource : Resources]]
      /\ idem'[k].body = b /\ idem'[k].resource = resource
      /\ \A x \in Keys \ {k} : idem'[x] = idem[x]
  BY <1>1, <1>2, Zenon DEF Accept
<1>4. /\ answers' \in [Keys -> SUBSET (Bodies \X Resources)]
      /\ answers'[k] = {<<b, resource>>}
      /\ \A x \in Keys \ {k} : answers'[x] = answers[x]
  <2>1. answers' = [answers EXCEPT ![k] = {<<b, resource>>}]
    BY <1>1, <1>2, Zenon DEF Accept
  <2>2. {<<b, resource>>} \in SUBSET (Bodies \X Resources)
    BY <1>1
  <2> HIDE DEF b
  <2> QED
    BY <1>1, <1>2, <2>1, <2>2
<1>5. ASSUME NEW x \in Keys
      PROVE  /\ answers'[x] \subseteq {<<idem'[x].body, idem'[x].resource>>}
             /\ answers'[x] # {} => Taken(x)'
  <2>1. CASE x = k
    BY <1>3, <1>4, <2>1, Zenon DEF Taken, NoRow
  <2>2. CASE x # k
    <3>1. /\ answers[x] \subseteq {<<idem[x].body, idem[x].resource>>}
          /\ answers[x] # {} => Taken(x)
      BY <1>5, Zenon DEF TurnsInv, KeysOK
    <3>2. answers'[x] = answers[x] /\ idem'[x] = idem[x]
      BY <1>3, <1>4, <1>5, <2>2, Zenon
    <3> QED
      BY <3>1, <3>2, Zenon DEF Taken
  <2> QED
    BY <2>1, <2>2
<1>6. ASSUME NEW r \in Requests, reqs'[r].status # "none"
      PROVE  reqs'[r].key \in Keys /\ idem'[reqs'[r].key].resource = r
  <2>1. CASE reqs'[r].key = k /\ resource = r
    BY <1>1, <1>3, <2>1, Zenon
  <2>2. CASE reqs'[r] = reqs[r]
    <3>1. reqs[r].key \in Keys /\ idem[reqs[r].key].resource = r
      BY <1>6, <2>2, Zenon DEF TurnsInv, KeysOK
    <3>2. reqs[r].key # k
      BY <3>1, TurnsConstants, Zenon DEF Taken, NoRow
    <3> QED
      BY <1>3, <2>2, <3>1, <3>2, Zenon
  <2> QED
    BY <1>6, <2>1, <2>2, Zenon
<1>7. \A r \in Requests : reqs'[r].status = "none" => reqs'[r].key = "none"
  BY Zenon DEF TurnsInv, KeysOK
<1> QED
  BY <1>3, <1>4, <1>5, <1>6, <1>7, Zenon DEF KeysOK

\* A replay answers what was answered before.
LEMMA ReplayKey ==
  ASSUME TurnsInv, NEW p \in Procs, Replay(p)
  PROVE  KeysOK'
<1> DEFINE k == txn[p].key
           answer == <<idem[k].body, idem[k].resource>>
<1>1. k \in Keys
  BY Zenon DEF TurnsInv, TxnsOK, TxnOK, Txn, Replay, Accepting
<1>2. /\ idem \in [Keys -> [body : Bodies, resource : Resources]]
      /\ answers \in [Keys -> SUBSET (Bodies \X Resources)]
      /\ answers[k] \subseteq {answer}
  BY <1>1, Zenon DEF TurnsInv, KeysOK
<1>3. answer \in Bodies \X Resources
  BY <1>1, <1>2
<1>4. answers' = [answers EXCEPT ![k] = @ \cup {answer}] /\ UNCHANGED <<idem, reqs>> /\ Taken(k)
  BY Zenon DEF Replay
<1> HIDE DEF answer
<1>5. /\ answers' \in [Keys -> SUBSET (Bodies \X Resources)]
      /\ answers'[k] \subseteq {answer}
      /\ \A x \in Keys \ {k} : answers'[x] = answers[x]
  BY <1>1, <1>2, <1>3, <1>4
<1>6. \A x \in Keys : /\ answers'[x] \subseteq {<<idem[x].body, idem[x].resource>>}
                      /\ answers'[x] # {} => Taken(x)
  BY <1>4, <1>5, Zenon DEF answer, TurnsInv, KeysOK
<1>7. idem' = idem /\ reqs' = reqs
  BY <1>4
<1> QED
  BY <1>5, <1>6, <1>7, Zenon DEF TurnsInv, KeysOK, Taken

-----------------------------------------------------------------------------
(* One step at a time. *)

\* Every plan has a length, before and after a step.
LEMMA PlanLength == \A p \in Procs : Len(Plan(p)) \in Nat
<1> SUFFICES ASSUME NEW p \in Procs PROVE Len(Plan(p)) \in Nat
  OBVIOUS
<1>1. txn[p].op \notin Operations => Plan(p) = <<>>
  BY Zenon DEF Plan, Operations
<1>2. txn[p].op \in Operations => Len(Plan(p)) \in Nat
  BY PlanKinds DEF Operations, Ending
<1> QED
  BY <1>1, <1>2

\* The same after a step.
LEMMA PlanLengthAfter == (\A p \in Procs : Len(Plan(p)) \in Nat)'
BY PlanLength, PTL

\* A step that writes no row.
LEMMA DataKept ==
  ASSUME TurnsInv, DataSame
  PROVE  OrderOK' /\ KeysOK'
<1>1. conv' = conv /\ msgs' = msgs /\ reqs' = reqs /\ idem' = idem /\ answers' = answers
  BY DEF DataSame
<1> QED
  BY <1>1, Zenon DEF TurnsInv, OrderOK, KeysOK, Taken

\* A transaction that begins without a lock.
LEMMA BeginUnlocked ==
  ASSUME TurnsInv, NEW p \in Procs, NEW t \in Txn, Begin(p, t), t.at = 0,
         t.op \in Accepting => t.key \in Keys,
         t.op = "regenerate" => t.body \in Nat \ {0},
         t.op \in OnRequest => t.request \in Requests /\ reqs[t.request].status # "none"
  PROVE  TurnsInv'
<1>1. txn'[p] = t /\ DataSame
  BY Zenon DEF Begin, DataSame, TurnsInv, TxnsOK
<1>2. TxnOK(p)'
  <2>1. Len(Plan(p)') \in Nat
    BY PlanLengthAfter, Zenon
  <2>2. 0 <= Len(Plan(p)')
    BY <2>1
  <2>3. reqs' = reqs
    BY <1>1 DEF DataSame
  <2> QED
    BY <1>1, <2>2, <2>3, Zenon DEF TxnOK
<1>3. Held(p)' = {}
  BY <1>1 DEF Held
<1>4. TxnsOK' /\ LocksExclusive'
  BY <1>2, <1>3, BeginKeepsLocks
<1> QED
  BY <1>1, <1>4, DataKept, Zenon DEF TurnsInv

\* A client's request begins.
LEMMA CallKeeps ==
  ASSUME TurnsInv, NEW p \in Procs, Call(p) \/ CallStop(p)
  PROVE  TurnsInv'
<1>1. ASSUME NEW k \in CreateKeys,
             Begin(p, Keyed("create", k, "model"))
      PROVE  TurnsInv'
  <2> DEFINE t == Keyed("create", k, "model")
  <2>1. t \in Txn /\ t.op = "create" /\ t.key = k /\ t.body = "model" /\ t.request = NoRequest /\ t.at = 0
    BY Zenon DEF Keyed, Txn, Operations, Bodies, Keys
  <2> HIDE DEF t
  <2>2. t \in Txn /\ t.op \notin OnRequest /\ t.op # "regenerate" /\ t.key \in Keys /\ t.at = 0
    BY <2>1 DEF Txn, Operations, Bodies, OnRequest, Keys
  <2>3. Begin(p, t)
    BY <1>1, Zenon DEF t
  <2> QED
    BY <2>2, <2>3, BeginUnlocked, Zenon
<1>2. ASSUME NEW k \in SendKeys, NEW c \in Contents,
             Begin(p, Keyed("send", k, c))
      PROVE  TurnsInv'
  <2> DEFINE t == Keyed("send", k, c)
  <2>1. t \in Txn /\ t.op = "send" /\ t.key = k /\ t.body = c /\ t.request = NoRequest /\ t.at = 0
    BY Zenon DEF Keyed, Txn, Operations, Bodies, Keys
  <2> HIDE DEF t
  <2>2. t \in Txn /\ t.op \notin OnRequest /\ t.op # "regenerate" /\ t.key \in Keys /\ t.at = 0
    BY <2>1 DEF Txn, Operations, Bodies, OnRequest, Keys
  <2>3. Begin(p, t)
    BY <1>2, Zenon DEF t
  <2> QED
    BY <2>2, <2>3, BeginUnlocked
<1>3. ASSUME NEW k \in RegenerateKeys, NEW i \in DOMAIN msgs,
             Begin(p, Keyed("regenerate", k, i))
      PROVE  TurnsInv'
  <2>2. i \in Nat \ {0}
    <3>1. msgs \in Seq(Message)
      BY Zenon DEF TurnsInv, OrderOK
    <3> QED
      BY <1>3, <3>1
  <2> DEFINE t == Keyed("regenerate", k, i)
  <2>1. t \in Txn /\ t.op = "regenerate" /\ t.key = k /\ t.body = i /\ t.request = NoRequest /\ t.at = 0
    BY <2>2 DEF Keyed, Txn, Operations, Bodies, Keys
  <2> HIDE DEF t
  <2>3. t \in Txn /\ t.op \notin OnRequest /\ t.key \in Keys /\ t.at = 0 /\ t.body \in Nat \ {0}
    BY <2>1, <2>2 DEF Txn, Operations, Bodies, OnRequest, Keys
  <2>4. Begin(p, t)
    BY <1>3, Zenon DEF t
  <2> QED
    BY <2>3, <2>4, BeginUnlocked, Zenon
<1>4. ASSUME NEW r \in Requests, reqs[r].status # "none",
             Begin(p, About("stop", r, 0))
      PROVE  TurnsInv'
  <2> DEFINE t == About("stop", r, 0)
  <2>1. t \in Txn /\ t.op = "stop" /\ t.key = "none" /\ t.body = "none" /\ t.request = r /\ t.at = 0
    BY Zenon DEF About, Txn, Operations, Bodies
  <2> HIDE DEF t
  <2>2. t \in Txn /\ t.op \notin Accepting /\ t.op # "regenerate" /\ t.request = r /\ t.at = 0
    BY <2>1 DEF Txn, Operations, Bodies, Accepting
  <2>3. Begin(p, t)
    BY <1>4, Zenon DEF t
  <2> QED
    BY <1>4, <2>2, <2>3, BeginUnlocked
<1> QED
  BY <1>1, <1>2, <1>3, <1>4, Zenon DEF Call, CallStop

\* An ending or a settlement begins; the reconciler with the request locked.
LEMMA WorkKeeps ==
  ASSUME TurnsInv, NEW p \in Procs, Work(p)
  PROVE  TurnsInv'
<1>1. ASSUME NEW r \in Requests, NEW op \in {"finish", "settle"}, reqs[r].status # "none",
             Begin(p, About(op, r, 0))
      PROVE  TurnsInv'
  <2> DEFINE t == About(op, r, 0)
  <2>1. t \in Txn /\ t.op = op /\ t.key = "none" /\ t.body = "none" /\ t.request = r /\ t.at = 0
    BY Zenon DEF About, Txn, Operations, Bodies
  <2> HIDE DEF t
  <2>2. t \in Txn /\ t.op \notin Accepting /\ t.op # "regenerate" /\ t.request = r /\ t.at = 0
    BY <2>1 DEF Txn, Operations, Bodies, Accepting
  <2>3. Begin(p, t)
    BY <1>1, Zenon DEF t
  <2> QED
    BY <1>1, <2>2, <2>3, BeginUnlocked, Zenon
<1>2. ASSUME NEW r \in Requests, reqs[r].status # "none",
             \A q \in Procs : <<"request", r>> \notin Held(q),
             Begin(p, About("reconcile", r, 1))
      PROVE  TurnsInv'
  <2> DEFINE t == About("reconcile", r, 1)
  <2>0. t \in Txn /\ t.op = "reconcile" /\ t.request = r /\ t.at = 1
    BY Zenon DEF About, Txn, Operations, Bodies
  <2> HIDE DEF t
  <2>1. Begin(p, t)
    BY <1>2, Zenon DEF t
  <2>2. /\ t \in Txn /\ t.op \notin Accepting /\ t.op = "reconcile" /\ t.request = r /\ t.at = 1
        /\ t.op \in Ending
    BY <2>0 DEF Txn, Operations, Bodies, Accepting, Ending
  <2>3. txn'[p] = t /\ DataSame /\ reqs' = reqs
    BY <2>1 DEF Begin, DataSame, TurnsInv, TxnsOK
  <2>4. Plan(p)' = << <<"request", r>>, <<"message", reqs[r].message>>, Conv>>
    BY <2>2, <2>3, Zenon DEF Plan, Ending, Conv
  <2>5. Len(Plan(p)') = 3 /\ Plan(p)'[1] = <<"request", r>>
    BY <2>4
  <2>6. TxnOK(p)'
    BY <1>2, <2>2, <2>3, <2>5 DEF TxnOK
  <2>7. \A x \in Held(p)' : x = <<"request", r>>
    BY <2>2, <2>3, <2>5 DEF Held
  <2>8. \A q \in Procs \ {p} : Held(p)' \cap Held(q) = {}
    BY <1>2, <2>7, Zenon
  <2>9. TxnsOK' /\ LocksExclusive'
    BY <2>1, <2>2, <2>6, <2>8, BeginKeepsLocks, Zenon
  <2> QED
    BY <2>3, <2>9, DataKept, Zenon DEF TurnsInv
<1>3. PICK r \in Requests :
        \/ /\ reqs[r].status \in {"running", "stop_requested"}
           /\ Begin(p, About("finish", r, 0))
        \/ /\ reqs[r].status \in {"running", "stop_requested"}
           /\ \A q \in Procs : <<"request", r>> \notin Held(q)
           /\ Begin(p, About("reconcile", r, 1))
        \/ /\ reqs[r].status \in Terminal
           /\ Begin(p, About("settle", r, 0))
  BY Zenon DEF Work
<1>4. reqs[r].status # "none"
  BY <1>3 DEF Terminal
<1> QED
  BY <1>1, <1>2, <1>3, <1>4, Zenon

\* Transactions that end without changing a request: rolled back, replayed, settled.
LEMMA EndingsWithoutWrites ==
  ASSUME TurnsInv, NEW p \in Procs, Rollback(p) \/ Replay(p) \/ Settle(p)
  PROVE  TurnsInv'
<1>1. End(p) /\ UNCHANGED <<conv, msgs, reqs>>
  BY Zenon DEF Rollback, Replay, Settle
<1>2. TxnsOK' /\ LocksExclusive'
  <2>1. reqs' = reqs
    BY <1>1
  <2> QED
    BY <1>1, <2>1, EndKeepsLocks
<1>3. OrderOK'
  BY <1>1, Zenon DEF TurnsInv, OrderOK
<1>4. KeysOK'
  <2>1. CASE Replay(p)
    BY <2>1, ReplayKey
  <2>2. CASE Rollback(p) \/ Settle(p)
    <3>1. DataSame
      BY <2>2 DEF Rollback, Settle, DataSame
    <3> QED
      BY <3>1, DataKept
  <2> QED
    BY <2>1, <2>2
<1> QED
  BY <1>2, <1>3, <1>4, Zenon DEF TurnsInv

\* Create writes the conversation and the row of its key.
LEMMA CreateKeeps ==
  ASSUME TurnsInv, NEW p \in Procs, Create(p)
  PROVE  TurnsInv'
<1>1. /\ End(p) /\ UNCHANGED <<msgs, reqs>> /\ Accept(p, "conversation") /\ txn[p].op = "create"
      /\ conv' = [conv EXCEPT !.exists = TRUE] /\ Ready(p, "create")
  BY Zenon DEF Create, Accept, Ready
<1>2. reqs' = reqs /\ msgs' = msgs
  BY <1>1
<1>3. TxnsOK' /\ LocksExclusive'
  BY <1>1, <1>2, EndKeepsLocks
<1>4. OrderOK'
  <2>1. conv \in [exists : BOOLEAN, active : Requests \cup {NoRequest}]
    BY Zenon DEF TurnsInv, OrderOK
  <2>2. /\ conv' \in [exists : BOOLEAN, active : Requests \cup {NoRequest}]
        /\ conv'.active = conv.active
    <3>1. ASSUME NEW b \in BOOLEAN, conv' = [conv EXCEPT !.exists = b]
          PROVE  /\ conv' \in [exists : BOOLEAN, active : Requests \cup {NoRequest}]
                 /\ conv'.active = conv.active
      BY <2>1, <3>1
    <3> QED
      BY <1>1, <3>1, Zenon
  <2> QED
    BY <1>2, <2>2, Zenon DEF TurnsInv, OrderOK
<1>5. KeysOK'
  <2>1. txn[p].at \in Nat /\ txn[p].at >= 2
    BY <1>1, PlanKinds DEF Ready, Wants, TurnsInv, TxnsOK, Txn
  <2>2. KeyIsNew(txn[p])
    BY <1>1, Zenon DEF Ready, Passed
  <2>3. ~Taken(txn[p].key)
    BY <2>1, <2>2 DEF KeyIsNew
  <2>4. "conversation" \in Resources \ {"none"} /\ txn[p].op \in Accepting
    BY <1>1 DEF Resources, Accepting
  <2> QED
    BY <1>1, <1>2, <2>3, <2>4, AcceptKey
<1> QED
  BY <1>3, <1>4, <1>5, Zenon DEF TurnsInv

\* A turn is accepted: what the checks of send and regenerate have found.
LEMMA TurnReady ==
  ASSUME TurnsInv, NEW p \in Procs, Ready(p, "send") \/ Ready(p, "regenerate")
  PROVE  /\ txn[p].op \in Accepting /\ txn[p].key \in Keys
         /\ ~Taken(txn[p].key) /\ conv.active = NoRequest
         /\ Ready(p, "regenerate") =>
              txn[p].body = Len(msgs) /\ Len(msgs) \in Nat /\ Len(msgs) > 0
<1>1. txn[p] \in Txn /\ TxnOK(p) /\ txn[p].op \in {"send", "regenerate"}
  BY Zenon DEF Ready, TurnsInv, TxnsOK
<1>2. txn[p].at \in Nat /\ txn[p].at >= 4
  <2>1. Ready(p, "send") => txn[p].at >= 4
    BY <1>1, PlanKinds DEF Ready, Wants, Txn
  <2>2. Ready(p, "regenerate") => txn[p].at >= 4
    BY <1>1, PlanKinds DEF Ready, Wants, Txn
  <2> QED
    BY <1>1, <2>1, <2>2 DEF Txn
<1>3. KeyIsNew(txn[p]) /\ ConversationIdle(txn[p])
  BY Zenon DEF Ready, Passed, MayRegenerate
<1>4. Ready(p, "regenerate") => MayRegenerate(txn[p])
  BY Zenon DEF Ready, Passed
<1>5. Ready(p, "regenerate") => txn[p].body = Len(msgs) /\ txn[p].body \in Nat \ {0}
  <2>1. Ready(p, "regenerate") => txn[p].op = "regenerate"
    BY Zenon DEF Ready
  <2> QED
    BY <1>1, <1>2, <1>4, <2>1 DEF MayRegenerate, TxnOK
<1> QED
  BY <1>1, <1>2, <1>3, <1>5 DEF KeyIsNew, ConversationIdle, TxnOK, Accepting

\* Send and regenerate add the request that writes the last message.
LEMMA AppendKeeps ==
  ASSUME TurnsInv, NEW p \in Procs, NEW r \in Requests, Send(p, r) \/ Regenerate(p, r)
  PROVE  TurnsInv'
<1>1. AppendRequest(p, r) /\ (Ready(p, "send") \/ Ready(p, "regenerate"))
  BY Zenon DEF Send, Regenerate
<1>2. /\ txn[p].op \in Accepting /\ txn[p].key \in Keys
      /\ ~Taken(txn[p].key) /\ conv.active = NoRequest
  BY <1>1, TurnReady
<1>3. /\ reqs[r].status = "none" /\ Accept(p, r) /\ End(p)
      /\ reqs' = [reqs EXCEPT ![r] = [status |-> "queued", message |-> Len(msgs'), key |-> txn[p].key]]
      /\ conv' = [conv EXCEPT !.active = r]
  BY <1>1, Zenon DEF AppendRequest, Accept
<1>4. /\ msgs \in Seq(Message) /\ Len(msgs) \in Nat /\ Len(msgs) % 2 = 0
      /\ \A i \in 1 .. Len(msgs) : /\ msgs[i].role = IF i % 2 = 1 THEN "user" ELSE "assistant"
                                   /\ msgs[i].status # "streaming"
  <2>1. /\ msgs \in Seq(Message) /\ Len(msgs) % 2 = 0
        /\ \A i \in 1 .. Len(msgs) : /\ msgs[i].role = IF i % 2 = 1 THEN "user" ELSE "assistant"
                                     /\ msgs[i].status # "streaming"
    BY <1>2, Zenon DEF TurnsInv, OrderOK
  <2> QED
    BY <2>1, LenProperties
<1>5. /\ msgs' \in Seq(Message) /\ Len(msgs') >= Len(msgs) /\ Len(msgs') > 0 /\ Len(msgs') % 2 = 0
      /\ \A i \in 1 .. Len(msgs') : msgs'[i].role = IF i % 2 = 1 THEN "user" ELSE "assistant"
      /\ \A i \in 1 .. Len(msgs') : msgs'[i].status = "streaming" <=> i = Len(msgs')
  <2>1. CASE Send(p, r)
    <3> DEFINE n == Len(msgs)
               u == [role |-> "user", status |-> "accepted"]
               a == [role |-> "assistant", status |-> "streaming"]
    <3>1. u \in Message /\ a \in Message /\ msgs' = msgs \o <<u, a>>
      BY <2>1, Zenon DEF Send, Message
    <3>2. <<u, a>> \in Seq(Message)
      BY <3>1
    <3>3. /\ u.role = "user" /\ u.status = "accepted" /\ a.role = "assistant" /\ a.status = "streaming"
      OBVIOUS
    <3> HIDE DEF u, a
    <3>4. /\ msgs' \in Seq(Message) /\ Len(msgs') = n + 2
          /\ \A i \in 1 .. n : msgs'[i] = msgs[i]
          /\ msgs'[n + 1] = u /\ msgs'[n + 2] = a
      BY <1>4, <3>1, <3>2, ConcatProperties
    <3>5. \A i \in 1 .. n + 2 : i \in 1 .. n \/ i = n + 1 \/ i = n + 2
      BY <1>4
    <3>6. (n + 2) % 2 = 0 /\ (n + 1) % 2 = 1
      BY <1>4
    <3>7. \A i \in 1 .. n + 2 : msgs'[i].role = IF i % 2 = 1 THEN "user" ELSE "assistant"
      BY <1>4, <3>3, <3>4, <3>5, <3>6, Zenon
    <3>8. \A i \in 1 .. n + 2 : msgs'[i].status = "streaming" <=> i = n + 2
      BY <1>4, <3>3, <3>4, <3>5, Zenon
    <3> QED
      BY <1>4, <3>4, <3>6, <3>7, <3>8
  <2>2. CASE Regenerate(p, r)
    <3>1. txn[p].body = Len(msgs) /\ Len(msgs) > 0
      BY <2>2, TurnReady, Zenon DEF Regenerate
    <3>2. Len(msgs) \in 1 .. Len(msgs)
      BY <1>4, <3>1
    <3>3. msgs[Len(msgs)] \in Message
      BY <1>4, <3>2, ElementOfSeq
    <3>4. [msgs[Len(msgs)] EXCEPT !.status = "streaming"] \in Message
      BY <3>3 DEF Message
    <3>5. msgs' = [msgs EXCEPT ![Len(msgs)].status = "streaming"]
      BY <2>2, <3>1 DEF Regenerate
    <3>6. /\ msgs' \in Seq(Message) /\ Len(msgs') = Len(msgs)
          /\ \A j \in 1 .. Len(msgs) : msgs'[j].role = msgs[j].role
          /\ \A j \in 1 .. Len(msgs) : j # Len(msgs) => msgs'[j] = msgs[j]
          /\ msgs'[Len(msgs)].status = "streaming"
      BY <1>4, <3>2, <3>4, <3>5, MessageUpdate
    <3>7. \A i \in 1 .. Len(msgs) : msgs'[i].status = "streaming" <=> i = Len(msgs)
      BY <1>4, <3>6, Zenon
    <3>8. \A i \in 1 .. Len(msgs) : msgs'[i].role = IF i % 2 = 1 THEN "user" ELSE "assistant"
      BY <1>4, <3>6, Zenon
    <3> QED
      BY <1>4, <3>1, <3>6, <3>7, <3>8
  <2> QED
    BY <2>1, <2>2
<1>6. /\ OrderOK' /\ reqs'[r].key = txn[p].key /\ reqs'[r].status = "queued"
      /\ \A x \in Requests : x # r => reqs'[x] = reqs[x]
  <2>1. OrderOK
    BY Zenon DEF TurnsInv
  <2> QED
    BY <1>2, <1>3, <1>5, <2>1, AppendInOrder, Zenon
<1>7. TxnsOK' /\ LocksExclusive'
  <2>1. \A x \in Requests : reqs[x].status # "none" => reqs'[x] = reqs[x]
    BY <1>3, <1>6, Zenon
  <2>2. \A x \in Requests : reqs'[x].status # reqs[x].status => reqs[x].status = "none"
    BY <2>1, Zenon
  <2> QED
    BY <1>3, <2>1, <2>2, EndKeepsLocks
<1>8. KeysOK'
  <2>1. r \in Resources \ {"none"}
    BY TurnsConstants, Zenon DEF Resources
  <2>2. reqs'[r].status # "none"
    BY <1>6
  <2> QED
    BY <1>2, <1>3, <1>6, <2>1, <2>2, AcceptKey, Zenon
<1> QED
  BY <1>6, <1>7, <1>8, Zenon DEF TurnsInv

\* What stop and an ending hold and have found when they write.
LEMMA OnRequestReady ==
  ASSUME TurnsInv, NEW p \in Procs, NEW op \in {"stop", "finish", "reconcile"}, Ready(p, op)
  PROVE  LET r == txn[p].request IN
         /\ r \in Requests /\ reqs[r].status # "none" /\ <<"request", r>> \in Held(p)
         /\ op = "stop" => reqs[r].status \in Terminal \/ conv.active = r
         /\ op # "stop" => reqs[r].status \in {"running", "stop_requested"}
<1> DEFINE r == txn[p].request
<1>1. txn[p] \in Txn /\ TxnOK(p) /\ txn[p].op = op /\ ~Wants(p) /\ Passed(p)
  BY Zenon DEF Ready, TurnsInv, TxnsOK
<1>2. r \in Requests /\ reqs[r].status # "none"
  BY <1>1 DEF TxnOK, OnRequest
<1>3. txn[p].at \in Nat /\ txn[p].at >= 3
  BY <1>1, PlanKinds DEF Wants, Txn, Ending
<1>4. Plan(p)[IF op = "stop" THEN 3 ELSE 1] = <<"request", r>>
  BY <1>1, PlanKinds, Zenon DEF Ending
<1>5. (IF op = "stop" THEN 3 ELSE 1) \in 1 .. txn[p].at
  BY <1>3
<1>6. <<"request", r>> \in Held(p)
  BY <1>4, <1>5, Zenon DEF Held
<1>7. op = "stop" => MayStop(txn[p])
  BY <1>1, Zenon DEF Passed
<1>8. op # "stop" => MayEnd(txn[p])
  <2>1. op \in {"finish", "reconcile"} => MayEnd(txn[p])
    BY <1>1, Zenon DEF Passed
  <2> QED
    BY <2>1
<1>9. /\ op = "stop" => reqs[r].status \in Terminal \/ conv.active = r
      /\ op # "stop" => reqs[r].status \in {"running", "stop_requested"}
  BY <1>3, <1>7, <1>8 DEF MayStop, MayEnd
<1> QED
  BY <1>2, <1>6, <1>9, Zenon

\* A transaction ends after writes to a request it holds.
LEMMA RequestWritten ==
  ASSUME TurnsInv, NEW p \in Procs, NEW r \in Requests, <<"request", r>> \in Held(p), End(p),
         UNCHANGED <<idem, answers>>, OrderOK', RowsKept(r),
         reqs[r].status # "none", reqs'[r].status # "none"
  PROVE  TurnsInv'
<1>1. \A x \in Requests : /\ reqs[x].status # "none" => /\ reqs'[x].message = reqs[x].message
                                                        /\ reqs'[x].status # "none"
                          /\ reqs'[x].status # reqs[x].status =>
                               reqs[x].status = "none" \/ <<"request", x>> \in Held(p)
                          /\ reqs'[x].key = reqs[x].key
                          /\ reqs'[x].status # "none" <=> reqs[x].status # "none"
  BY Zenon DEF RowsKept
<1>2. TxnsOK' /\ LocksExclusive'
  BY <1>1, EndKeepsLocks, Zenon
<1>3. KeysOK'
  BY <1>1, KeysKept, Zenon DEF TurnsInv
<1> QED
  BY <1>2, <1>3, Zenon DEF TurnsInv

\* Finish and reconcile close the request they hold.
LEMMA EndingKeeps ==
  ASSUME TurnsInv, NEW p \in Procs, Finish(p) \/ Reconcile(p)
  PROVE  TurnsInv'
<1> DEFINE r == txn[p].request
<1>1. (Ready(p, "finish") \/ Ready(p, "reconcile")) /\ End(p) /\ UNCHANGED <<idem, answers>>
  BY Zenon DEF Finish, Reconcile
<1>2. \E s \in Statuses \ Open, m \in {"completed", "failed", "stopped"} : Close(r, s, m)
  <2>1. Finish(p) => \/ Close(r, "succeeded", "completed") \/ Close(r, "submitted_unknown", "failed")
                     \/ Close(r, "failed", "failed") \/ Close(r, "stopped", "stopped")
    BY Zenon DEF Finish
  <2>2. Reconcile(p) => Close(r, "submitted_unknown", "failed") \/ Close(r, "stopped", "stopped")
    BY Zenon DEF Reconcile
  <2>3. {"succeeded", "submitted_unknown", "failed", "stopped"} \subseteq Statuses \ Open
    BY DEF Statuses, Open
  <2> QED
    BY <2>1, <2>2, <2>3, Zenon
<1>3. r \in Requests /\ <<"request", r>> \in Held(p) /\ reqs[r].status \in Open
  BY <1>1, OnRequestReady DEF Open
<1>4. PICK s \in Statuses \ Open, m \in {"completed", "failed", "stopped"} : Close(r, s, m)
  BY <1>2
<1>5. OrderOK' /\ RowsKept(r) /\ reqs'[r].status = s
  BY <1>3, <1>4, CloseInOrder, Zenon DEF TurnsInv
<1>6. reqs[r].status # "none" /\ reqs'[r].status # "none"
  BY <1>3, <1>5, Zenon DEF Open, Statuses
<1> QED
  BY <1>1, <1>3, <1>5, <1>6, RequestWritten, Zenon

\* Stop closes a queued request, marks a running one, leaves an ended one.
LEMMA StopKeeps ==
  ASSUME TurnsInv, NEW p \in Procs, Stop(p)
  PROVE  /\ TurnsInv'
         /\ reqs[txn[p].request].status \in Open \/ reqs' = reqs
<1> DEFINE r == txn[p].request
<1>1. Ready(p, "stop") /\ End(p) /\ UNCHANGED <<idem, answers>>
  BY Zenon DEF Stop
<1>2. /\ r \in Requests /\ <<"request", r>> \in Held(p) /\ reqs[r].status # "none"
      /\ reqs[r].status \in Terminal \/ conv.active = r
  BY <1>1, OnRequestReady, Zenon
<1>3. /\ reqs[r].status \in Terminal \/ reqs[r].status \in Open
      /\ reqs[r].status \in Terminal => conv.active # r
  <2>1. reqs[r].status \in Open <=> conv.active = r
    BY <1>2, Zenon DEF TurnsInv, OrderOK
  <2> QED
    BY <1>2, <2>1, Zenon DEF Terminal, Open
<1>4. CASE /\ reqs[r].status \in Terminal /\ ClearActive(r) /\ UNCHANGED <<msgs, reqs>>
  <2>1. conv \in [exists : BOOLEAN, active : Requests \cup {NoRequest}]
    BY Zenon DEF TurnsInv, OrderOK
  <2>2. conv' = conv
    BY <1>3, <1>4, <2>1 DEF ClearActive
  <2>3. OrderOK'
    BY <1>4, <2>2, Zenon DEF TurnsInv, OrderOK
  <2>4. RowsKept(r) /\ reqs'[r].status # "none" /\ reqs' = reqs
    BY <1>2, <1>4, Zenon DEF RowsKept
  <2> QED
    BY <1>1, <1>2, <2>3, <2>4, RequestWritten, Zenon
<1>5. CASE reqs[r].status = "queued" /\ Close(r, "stopped", "stopped")
  <2>1. reqs[r].status \in Open /\ "stopped" \in Statuses \ Open
    BY <1>5, Zenon DEF Open, Statuses
  <2>2. OrderOK' /\ RowsKept(r) /\ reqs'[r].status = "stopped"
    BY <1>2, <1>5, <2>1, CloseInOrder, Zenon DEF TurnsInv
  <2>3. reqs'[r].status # "none"
    BY <2>2, Zenon
  <2> QED
    BY <1>1, <1>2, <2>1, <2>2, <2>3, RequestWritten, Zenon
<1>6. CASE /\ reqs[r].status \in {"running", "submitted_unknown", "stop_requested"}
           /\ reqs' = [reqs EXCEPT ![r].status = "stop_requested"] /\ UNCHANGED <<conv, msgs>>
  <2>1. reqs[r].status \in Open /\ "stop_requested" \in Open
    BY <1>3, <1>6, Zenon DEF Open, Terminal
  <2>2. OrderOK' /\ RowsKept(r) /\ reqs'[r].status = "stop_requested"
    BY <1>2, <1>6, <2>1, StaysOpenInOrder, Zenon DEF TurnsInv
  <2>3. reqs'[r].status # "none"
    BY <2>2, Zenon
  <2> QED
    BY <1>1, <1>2, <2>1, <2>2, <2>3, RequestWritten, Zenon
<1> QED
  BY <1>4, <1>5, <1>6, Zenon DEF Stop

\* A queued request is claimed, or a claimed one is queued again, which nobody has
\* locked.
LEMMA LeaseStates ==
  ASSUME NEW r \in Requests, Claim(r) \/ Requeue(r)
  PROVE  \E from, to \in Open : Lease(r, from, to)
BY DEF Claim, Requeue, Open

LEMMA ClaimKeeps ==
  ASSUME TurnsInv, NEW r \in Requests, Claim(r) \/ Requeue(r)
  PROVE  TurnsInv'
<1>0. PICK from, to \in Open : Lease(r, from, to)
  BY LeaseStates, Zenon
<1>1. reqs[r].status \in Open /\ to \in Open
  BY <1>0, Zenon DEF Lease
<1>2. OrderOK' /\ RowsKept(r) /\ reqs'[r].status = to
  BY <1>0, <1>1, StaysOpenInOrder, Zenon DEF TurnsInv, Lease
<1>3. reqs[r].status # "none" /\ reqs'[r].status # "none"
  BY <1>1, <1>2 DEF Open
<1>4. UNCHANGED <<txn, idem, answers>>
  BY <1>0, Zenon DEF Lease
<1>5. \A p \in Procs : Spared(p)
  BY <1>0, <1>2, <1>3, <1>4, Zenon DEF Spared, RowsKept, Lease
<1>6. TxnsOK' /\ LocksExclusive'
  BY <1>4, <1>5, OutsideKeepsLocks, Zenon
<1>7. KeysOK'
  <2>1. \A x \in Requests : /\ reqs'[x].key = reqs[x].key
                            /\ reqs'[x].status # "none" <=> reqs[x].status # "none"
    BY <1>2, <1>3, Zenon DEF RowsKept
  <2> QED
    BY <1>4, <2>1, KeysKept, Zenon DEF TurnsInv
<1> QED
  BY <1>2, <1>6, <1>7, Zenon DEF TurnsInv

-----------------------------------------------------------------------------
(* The invariant and what it gives. *)

\* Nothing has happened yet.
LEMMA TurnsStart == Init => TurnsInv
<1> SUFFICES ASSUME Init PROVE TurnsInv
  BY Zenon
<1>1. OrderOK
  <2>1. /\ conv \in [exists : BOOLEAN, active : Requests \cup {NoRequest}]
        /\ conv.active = NoRequest
    BY Zenon DEF Init, NoConversation
  <2>2. msgs \in Seq(Message) /\ Len(msgs) = 0
    BY DEF Init
  <2>3. reqs \in [Requests -> RequestRow] /\ \A r \in Requests : reqs[r].status = "none"
    BY DEF Init, Unused, RequestRow
  <2>4. \A r \in Requests : reqs[r].status \notin Open /\ conv.active # r
    BY <2>1, <2>3, TurnsConstants DEF Open
  <2>5. \A i \in 1 .. Len(msgs) : FALSE
    BY <2>2
  <2>6. Len(msgs) % 2 = 0
    BY <2>2
  <2> QED
    BY <2>1, <2>2, <2>3, <2>4, <2>5, <2>6, Zenon DEF OrderOK
<1>2. KeysOK
  <2>1. NoRow \in [body : Bodies, resource : Resources]
    BY DEF NoRow, Bodies, Resources
  <2>2. idem \in [Keys -> [body : Bodies, resource : Resources]]
    BY <2>1 DEF Init
  <2>3. answers \in [Keys -> SUBSET (Bodies \X Resources)] /\ \A k \in Keys : answers[k] = {}
    BY DEF Init
  <2>4. \A r \in Requests : reqs[r].status = "none" /\ reqs[r].key = "none"
    BY DEF Init, Unused
  <2> QED
    BY <2>2, <2>3, <2>4, Zenon DEF KeysOK
<1>3. txn \in [Procs -> Txn] /\ \A p \in Procs : txn[p] = NoTxn
  BY DEF Init, NoTxn, Txn, Operations, Bodies
<1>4. \A p \in Procs : txn[p].op = "none" /\ txn[p].at = 0
  BY <1>3 DEF NoTxn
<1>5. \A p \in Procs : Held(p) = {}
  BY <1>4 DEF Held
<1>6. \A p \in Procs : TxnOK(p)
  BY <1>4, PlanLength DEF TxnOK, Accepting, OnRequest
<1> QED
  BY <1>1, <1>2, <1>3, <1>5, <1>6, Zenon DEF TurnsInv, TxnsOK, LocksExclusive

\* Every step of the turns keeps the invariant.
LEMMA TurnsStep == TurnsInv /\ [Next]_vars => TurnsInv'
<1> SUFFICES ASSUME TurnsInv, [Next]_vars PROVE TurnsInv'
  OBVIOUS
<1>1. ASSUME NEW p \in Procs, Step(p) PROVE TurnsInv'
  <2>1. CASE Call(p) \/ CallStop(p)
    BY <2>1, CallKeeps, Zenon
  <2>2. CASE Work(p)
    BY <2>2, WorkKeeps
  <2>3. CASE Acquire(p)
    <3>1. DataSame
      BY <2>3, Zenon DEF Acquire, DataSame
    <3> QED
      BY <2>3, <3>1, AcquireKeepsLocks, DataKept, Zenon DEF TurnsInv
  <2>4. CASE Rollback(p) \/ Replay(p) \/ Settle(p)
    BY <2>4, EndingsWithoutWrites
  <2>5. CASE Create(p)
    BY <2>5, CreateKeeps
  <2>6. CASE \E r \in Requests : Send(p, r) \/ Regenerate(p, r)
    BY <2>6, AppendKeeps
  <2>7. CASE Stop(p)
    BY <2>7, StopKeeps
  <2>8. CASE Finish(p) \/ Reconcile(p)
    BY <2>8, EndingKeeps
  <2> QED
    BY <1>1, <2>1, <2>2, <2>3, <2>4, <2>5, <2>6, <2>7, <2>8, Zenon DEF Step
<1>2. ASSUME NEW r \in Requests, Claim(r) \/ Requeue(r) PROVE TurnsInv'
  BY <1>2, ClaimKeeps, Zenon
<1>3. CASE UNCHANGED vars
  <2>1. DataSame /\ txn' = txn /\ reqs' = reqs
    BY <1>3, Zenon DEF vars, DataSame
  <2>2. \A p \in Procs : Spared(p)
    BY <2>1 DEF Spared
  <2> QED
    BY <2>1, <2>2, OutsideKeepsLocks, DataKept, Zenon DEF TurnsInv
<1> QED
  BY <1>1, <1>2, <1>3, Zenon DEF Next

\* The inductive invariant of the turns.
THEOREM TurnsInvariant == Spec => []TurnsInv
BY TurnsStart, TurnsStep, PTL DEF Spec

\* Rows, messages and transactions have their types.
THEOREM TurnsTyped == Spec => []TurnsTypeOK
<1>1. TurnsInv => TurnsTypeOK
  BY Zenon DEF TurnsInv, OrderOK, KeysOK, TxnsOK, TxnOK, Txn, RequestRow, TurnsTypeOK
<1> QED
  BY <1>1, TurnsInvariant, PTL

\* However many sessions repeat a key, it is honoured once.
THEOREM KeyAcceptedOnceHolds == Spec => []KeyAcceptedOnce
<1>1. TurnsInv => KeyAcceptedOnce
  <2> SUFFICES ASSUME TurnsInv PROVE KeyAcceptedOnce
    OBVIOUS
  <2>1. ASSUME NEW k \in Keys PROVE Cardinality(answers[k]) <= 1
    <3>1. answers[k] \subseteq {<<idem[k].body, idem[k].resource>>}
      BY Zenon DEF TurnsInv, KeysOK
    <3>2. answers[k] = {} \/ answers[k] = {<<idem[k].body, idem[k].resource>>}
      BY <3>1, Zenon
    <3>3. Cardinality({}) = 0 /\ \A x : Cardinality({x}) = 1
      BY FS_EmptySet, FS_Singleton, Zenon
    <3>4. Cardinality(answers[k]) = 0 \/ Cardinality(answers[k]) = 1
      BY <3>2, <3>3, Zenon
    <3> QED
      BY <3>4
  <2>2. ASSUME NEW r \in Requests, NEW s \in Requests, reqs[r].status # "none",
               reqs[r].key = reqs[s].key
        PROVE  r = s
    <3>1. reqs[r].key \in Keys /\ idem[reqs[r].key].resource = r
      BY <2>2, Zenon DEF TurnsInv, KeysOK
    <3>2. reqs[s].status # "none"
      <4>1. reqs[s].key # "none"
        BY <2>2, <3>1, TurnsConstants, Zenon DEF Keys
      <4> QED
        BY <4>1, Zenon DEF TurnsInv, KeysOK
    <3>3. idem[reqs[s].key].resource = s
      BY <3>2, Zenon DEF TurnsInv, KeysOK
    <3> QED
      BY <2>2, <3>1, <3>3, Zenon
  <2> QED
    BY <2>1, <2>2, Zenon DEF KeyAcceptedOnce
<1> QED
  BY <1>1, TurnsInvariant, PTL

\* The conversation names the open request, which writes the last message.
THEOREM TurnsInOrderHolds == Spec => []TurnsInOrder
<1>1. TurnsInv => TurnsInOrder
  <2> SUFFICES ASSUME TurnsInv PROVE TurnsInOrder
    OBVIOUS
  <2>1. msgs \in Seq(Message) /\ conv.active \in Requests \cup {NoRequest}
    BY DEF TurnsInv, OrderOK
  <2>2. DOMAIN msgs = 1 .. Len(msgs)
    BY <2>1
  <2>3. conv.active # NoRequest => reqs[conv.active].message = Len(msgs)
    BY <2>1, Zenon DEF TurnsInv, OrderOK
  <2> QED
    BY <2>2, <2>3, Zenon DEF TurnsInv, OrderOK, TurnsInOrder
<1> QED
  BY <1>1, TurnsInvariant, PTL

\* No row is locked twice.
THEOREM LocksAreExclusive == Spec => []LocksExclusive
<1>1. TurnsInv => LocksExclusive
  BY DEF TurnsInv
<1> QED
  BY <1>1, TurnsInvariant, PTL

-----------------------------------------------------------------------------
(* What a transaction has checked, and what has ended, stays. *)

\* q writes only rows it has locked; a new row, and the existence of the
\* conversation, are nobody's to lock.
WritesLocked(q) ==
  /\ Conv \in Held(q) \/ (conv'.active = conv.active /\ msgs' = msgs)
  /\ conv.exists => conv'.exists
  /\ \A k \in Keys : <<"idem", k>> \in Held(q) \/ idem'[k] = idem[k]
  /\ \A r \in Requests : \/ reqs'[r].status = reqs[r].status
                         \/ <<"request", r>> \in Held(q) /\ reqs[r].status \in Open
                         \/ reqs[r].status = "none"
  /\ \A r \in Requests : reqs[r].status \notin Open \cup {"none"} => reqs'[r] = reqs[r]

\* A row that p has checked is as it was.
CheckedSame(p) ==
  /\ Conv \in Held(p) => conv'.active = conv.active /\ msgs' = msgs
  /\ conv.exists => conv'.exists
  /\ \A k \in Keys : <<"idem", k>> \in Held(p) => idem'[k] = idem[k]
  /\ \A r \in Requests : <<"request", r>> \in Held(p) => reqs'[r].status = reqs[r].status

\* The checks of a transaction only look at rows it holds.
LEMMA ChecksAreLocked ==
  ASSUME TurnsInv, NEW p \in Procs, Passed(p), txn'[p] = txn[p], CheckedSame(p)
  PROVE  Passed(p)'
<1> DEFINE t == txn[p]
<1>1. t \in Txn /\ TxnOK(p) /\ t.at \in Nat /\ t.op \in Operations
  BY Zenon DEF TurnsInv, TxnsOK, Txn
<1>2. \A i \in 1 .. t.at : Plan(p)[i] \in Held(p)
  BY Zenon DEF Held
<1>3. CASE t.op \in Accepting
  <2>1. t.key \in Keys /\ Plan(p)[1] = <<"idem", t.key>>
    BY <1>1, <1>3, Plans DEF TxnOK, Accepting
  <2>2. t.at >= 1 => <<"idem", t.key>> \in Held(p)
    <3>1. t.at >= 1 => 1 \in 1 .. t.at
      BY <1>1
    <3> QED
      BY <1>2, <2>1, <3>1, Zenon
  <2>3. KeyIsNew(t) => (t.at >= 1 => ~Taken(t.key)')
    BY <2>1, <2>2, Zenon DEF KeyIsNew, Taken, CheckedSame
  <2>4. t.op # "create" /\ t.at >= 3 => Conv \in Held(p)
    <3>1. t.op # "create" => Plan(p)[2] = Conv
      BY <1>3, Plans DEF Accepting
    <3>2. t.at >= 3 => 2 \in 1 .. t.at
      BY <1>1
    <3> QED
      BY <1>2, <3>1, <3>2, Zenon
  <2>5. t.op = "create" => KeyIsNew(t)
    BY Zenon DEF Passed
  <2>6. t.op = "send" => KeyIsNew(t) /\ ConversationIdle(t)
    BY Zenon DEF Passed
  <2>7. t.op = "regenerate" => MayRegenerate(t)
    BY Zenon DEF Passed
  <2>8. CASE t.op = "create"
    BY <2>3, <2>5, <2>8, Zenon DEF Passed, KeyIsNew
  <2>9. CASE t.op = "send"
    <3>1. t.at >= 3 => conv'.exists /\ conv'.active = NoRequest
      BY <2>4, <2>6, <2>9, Zenon DEF ConversationIdle, CheckedSame
    <3> QED
      BY <2>3, <2>6, <2>9, <3>1, Zenon DEF Passed, KeyIsNew, ConversationIdle
  <2>10. CASE t.op = "regenerate"
    <3>1. KeyIsNew(t) /\ ConversationIdle(t)
      BY <2>7, <2>10, Zenon DEF MayRegenerate
    <3>2. t.at >= 3 => conv'.exists /\ conv'.active = NoRequest /\ msgs' = msgs
      BY <2>4, <2>10, <3>1, Zenon DEF ConversationIdle, CheckedSame
    <3>3. t.at >= 4 => t.body = Len(msgs') /\ msgs'[t.body].role = "assistant"
      <4>1. t.at >= 4 => t.at >= 3
        BY <1>1
      <4> QED
        BY <2>7, <2>10, <3>2, <4>1, Zenon DEF MayRegenerate
    <3> QED
      BY <2>3, <2>10, <3>1, <3>2, <3>3, Zenon DEF Passed, MayRegenerate, KeyIsNew, ConversationIdle
  <2> QED
    BY <1>3, <2>8, <2>9, <2>10 DEF Accepting
<1>4. CASE t.op = "stop"
  <2>1. /\ t.at >= 1 => 1 \in 1 .. t.at
        /\ t.at >= 3 => 3 \in 1 .. t.at
        /\ t.at >= 2 => t.at >= 1
        /\ t.at >= 3 => t.at >= 1
    BY <1>1
  <2>2. /\ t.at >= 1 => Conv \in Held(p)
        /\ t.at >= 3 => <<"request", t.request>> \in Held(p)
    <3>1. Plan(p)[1] = Conv /\ Plan(p)[3] = <<"request", t.request>>
      BY <1>4, Plans
    <3> QED
      BY <1>2, <2>1, <3>1, Zenon
  <2>3. MayStop(t)
    BY <1>4, Zenon DEF Passed
  <2>4. t.request \in Requests
    BY <1>1, <1>4, Zenon DEF TxnOK, OnRequest
  <2>5. /\ t.at >= 2 => conv'.exists
        /\ t.at >= 3 => reqs'[t.request].status \in Terminal \/ conv'.active = t.request
    BY <2>1, <2>2, <2>3, <2>4, Zenon DEF MayStop, CheckedSame
  <2> QED
    BY <1>4, <2>5, Zenon DEF Passed, MayStop
<1>5. CASE t.op \in Ending
  <2>1. /\ t.at >= 1 => 1 \in 1 .. t.at
        /\ t.at >= 3 => 3 \in 1 .. t.at
    BY <1>1
  <2>2. /\ t.at >= 1 => <<"request", t.request>> \in Held(p)
        /\ t.at >= 3 => Conv \in Held(p)
    <3>1. Plan(p)[1] = <<"request", t.request>> /\ Plan(p)[3] = Conv
      BY <1>5, PlanKinds, Zenon
    <3> QED
      BY <1>2, <2>1, <3>1, Zenon
  <2>3. MayEnd(t)
    BY <1>5, Zenon DEF Passed, Ending
  <2>4. t.request \in Requests
    BY <1>1, <1>5, Zenon DEF TxnOK, OnRequest, Ending
  <2>5. /\ t.at >= 1 => reqs'[t.request].status \in {"running", "stop_requested"}
        /\ t.at >= 3 => conv'.active = t.request
    BY <2>2, <2>3, <2>4, Zenon DEF MayEnd, CheckedSame
  <2> QED
    BY <1>5, <2>5, Zenon DEF Passed, MayEnd, Ending
<1>6. CASE t.op \in {"none", "settle"}
  BY <1>6, Zenon DEF Passed
<1> QED
  BY <1>1, <1>3, <1>4, <1>5, <1>6 DEF Operations, Accepting, Ending

\* A step of q is seen in its own transaction only.
LEMMA StepMoves ==
  ASSUME TurnsInv, NEW q \in Procs, Step(q)
  PROVE  txn'[q] # txn[q] /\ \A p \in Procs \ {q} : txn'[p] = txn[p]
<1>1. txn \in [Procs -> Txn] /\ txn[q] \in Txn
  BY Zenon DEF TurnsInv, TxnsOK
<1>2. ASSUME NEW t, Begin(q, t), t.op # "none"
      PROVE  txn'[q] # txn[q] /\ \A p \in Procs \ {q} : txn'[p] = txn[p]
  <2>1. txn[q].op = "none" /\ txn'[q] = t /\ \A p \in Procs \ {q} : txn'[p] = txn[p]
    BY <1>1, <1>2 DEF Begin, NoTxn
  <2> QED
    BY <1>2, <2>1, Zenon
<1>3. CASE Call(q) \/ CallStop(q) \/ Work(q)
  <2>1. \A k, b : Keyed("create", k, b).op # "none" /\ Keyed("send", k, b).op # "none"
                  /\ Keyed("regenerate", k, b).op # "none"
    BY Zenon DEF Keyed
  <2>2. \A r, n : /\ About("stop", r, n).op # "none" /\ About("finish", r, n).op # "none"
                  /\ About("reconcile", r, n).op # "none" /\ About("settle", r, n).op # "none"
    BY DEF About
  <2>3. \E t : Begin(q, t) /\ t.op # "none"
    BY <1>3, <2>1, <2>2, Zenon DEF Call, CallStop, Work
  <2> QED
    BY <1>2, <2>3, Zenon
<1>4. CASE Acquire(q)
  <2>1. txn[q].at \in Nat
    BY <1>1, Zenon DEF Txn
  <2>2. txn'[q].at = txn[q].at + 1 /\ \A p \in Procs \ {q} : txn'[p] = txn[p]
    BY <1>1, <1>4 DEF Acquire, Txn
  <2> QED
    BY <2>1, <2>2
<1>5. CASE End(q) /\ txn[q].op # "none"
  BY <1>1, <1>5 DEF End, NoTxn
<1>6. Step(q) => (Call(q) \/ CallStop(q) \/ Work(q)) \/ Acquire(q) \/ (End(q) /\ txn[q].op # "none")
  <2>1. Rollback(q) \/ Replay(q) \/ Create(q) \/ Stop(q) \/ Finish(q) \/ Reconcile(q) \/ Settle(q) => End(q)
    BY Zenon DEF Rollback, Replay, Create, Accept, Stop, Finish, Reconcile, Settle
  <2>2. (\E r \in Requests : Send(q, r) \/ Regenerate(q, r)) => End(q)
    BY Zenon DEF Send, Regenerate, AppendRequest, Accept
  <2>3. Replay(q) => txn[q].op \in Accepting
    BY Zenon DEF Replay, Accepting
  <2>4. Create(q) => txn[q].op = "create"
    BY Zenon DEF Create, Ready
  <2>5. (\E r \in Requests : Send(q, r) \/ Regenerate(q, r)) => txn[q].op \in Accepting
    <3>1. (\E r \in Requests : Send(q, r) \/ Regenerate(q, r)) =>
            Ready(q, "send") \/ Ready(q, "regenerate")
      BY Zenon DEF Send, Regenerate
    <3> QED
      BY <3>1, Zenon DEF Ready, Accepting
  <2>6. Stop(q) \/ Finish(q) \/ Reconcile(q) \/ Settle(q) => txn[q].op \in OnRequest
    <3>1. Stop(q) \/ Finish(q) \/ Reconcile(q) \/ Settle(q) =>
            Ready(q, "stop") \/ Ready(q, "finish") \/ Ready(q, "reconcile") \/ Ready(q, "settle")
      BY Zenon DEF Stop, Finish, Reconcile, Settle
    <3> QED
      BY <3>1, Zenon DEF Ready, OnRequest
  <2>7. "none" \notin Accepting /\ "none" \notin OnRequest /\ "create" # "none"
    BY DEF Accepting, OnRequest
  <2>8. Rollback(q) => txn[q].op # "none"
    BY Zenon DEF Rollback
  <2> QED
    BY <2>1, <2>2, <2>3, <2>4, <2>5, <2>6, <2>7, <2>8, Zenon DEF Step
<1> QED
  BY <1>3, <1>4, <1>5, <1>6, Zenon

\* Who writes the conversation or its messages, or the row of a key, holds it.
LEMMA WriterHolds ==
  ASSUME TurnsInv, NEW q \in Procs, NEW op \in Operations \ {"none", "settle"}, Ready(q, op)
  PROVE  /\ op \in Accepting => <<"idem", txn[q].key>> \in Held(q)
         /\ op # "create" => Conv \in Held(q)
<1>1. txn[q] \in Txn /\ txn[q].op = op /\ ~Wants(q)
  BY Zenon DEF TurnsInv, TxnsOK, Ready
<1>2. txn[q].at \in Nat
  BY <1>1 DEF Txn
<1>3. \A i \in 1 .. txn[q].at : Plan(q)[i] \in Held(q)
  BY DEF Held
<1>4. op \in Accepting => Plan(q)[1] = <<"idem", txn[q].key>> /\ txn[q].at >= 1
  BY <1>1, <1>2, Plans DEF Accepting, Wants
<1>5. op = "stop" => Plan(q)[1] = Conv /\ txn[q].at >= 1
  <2>1. op = "stop" => Plan(q)[1] = Conv
    BY <1>1, Plans
  <2>2. op = "stop" => txn[q].at >= 1
    BY <1>1, <1>2, PlanKinds DEF Wants
  <2> QED
    BY <2>1, <2>2, Zenon
<1>6. op \in {"send", "regenerate"} => Plan(q)[2] = Conv /\ txn[q].at >= 2
  BY <1>1, <1>2, Plans DEF Wants
<1>7. op \in Ending => Plan(q)[3] = Conv /\ txn[q].at >= 3
  BY <1>1, <1>2, PlanKinds DEF Wants
<1>8. op \in Accepting => <<"idem", txn[q].key>> \in Held(q)
  BY <1>2, <1>3, <1>4
<1>9. op = "stop" => Conv \in Held(q)
  BY <1>2, <1>3, <1>5
<1>10. op \in {"send", "regenerate"} => Conv \in Held(q)
  BY <1>2, <1>3, <1>6
<1>11. op \in Ending => Conv \in Held(q)
  BY <1>2, <1>3, <1>7
<1> QED
  BY <1>8, <1>9, <1>10, <1>11 DEF Operations, Ending

\* Every write of a transaction is to rows it has locked.
LEMMA StepWritesLocked ==
  ASSUME TurnsInv, NEW q \in Procs, Step(q)
  PROVE  WritesLocked(q)
<1>0. /\ conv \in [exists : BOOLEAN, active : Requests \cup {NoRequest}]
      /\ reqs \in [Requests -> RequestRow]
  BY Zenon DEF TurnsInv, OrderOK
<1>1. ASSUME conv' = conv, msgs' = msgs, reqs' = reqs, idem' = idem PROVE WritesLocked(q)
  BY <1>1, Zenon DEF WritesLocked
<1>2. CASE Call(q) \/ CallStop(q) \/ Work(q) \/ Acquire(q) \/ Rollback(q) \/ Replay(q) \/ Settle(q)
  <2>1. UNCHANGED <<conv, msgs, reqs, idem>>
    <3>1. CASE Call(q) \/ CallStop(q) \/ Work(q)
      <4>1. \E t : Begin(q, t)
        BY <3>1, Zenon DEF Call, CallStop, Work
      <4> QED
        BY <4>1, Zenon DEF Begin
    <3>2. CASE Acquire(q) \/ Rollback(q) \/ Replay(q) \/ Settle(q)
      BY <3>2, Zenon DEF Acquire, Rollback, Replay, Settle
    <3> QED
      BY <1>2, <3>1, <3>2, Zenon
  <2> QED
    BY <1>1, <2>1, Zenon
<1>3. ASSUME NEW resource, Accept(q, resource), txn[q].op \in Accepting, Ready(q, txn[q].op)
      PROVE  \A k \in Keys : <<"idem", k>> \in Held(q) \/ idem'[k] = idem[k]
  <2>1. <<"idem", txn[q].key>> \in Held(q)
    <3>1. txn[q].op \in Operations \ {"none", "settle"}
      BY <1>3, Zenon DEF Accepting, Operations
    <3> QED
      BY <1>3, <3>1, WriterHolds, Zenon
  <2>2. \A k \in Keys : k # txn[q].key => idem'[k] = idem[k]
    <3>1. idem \in [Keys -> [body : Bodies, resource : Resources]]
      BY Zenon DEF TurnsInv, KeysOK
    <3> QED
      BY <1>3, <3>1, Zenon DEF Accept
  <2> QED
    BY <2>1, <2>2, Zenon
<1>4. CASE Create(q)
  <2>1. UNCHANGED <<msgs, reqs>> /\ conv' = [conv EXCEPT !.exists = TRUE]
    BY <1>4, Zenon DEF Create
  <2>2. txn[q].op = "create" /\ Accept(q, "conversation") /\ Ready(q, "create")
    BY <1>4, Zenon DEF Create, Ready
  <2>3. conv'.active = conv.active
    <3>1. ASSUME NEW b \in BOOLEAN, conv' = [conv EXCEPT !.exists = b] PROVE conv'.active = conv.active
      BY <1>0, <3>1
    <3> QED
      BY <2>1, <3>1
  <2>4. conv'.exists
    BY <1>0, <2>1, Zenon
  <2>5. \A k \in Keys : <<"idem", k>> \in Held(q) \/ idem'[k] = idem[k]
    <3>1. txn[q].op \in Accepting /\ Ready(q, txn[q].op)
      BY <2>2, Zenon DEF Accepting
    <3> QED
      BY <1>3, <2>2, <3>1, Zenon
  <2> QED
    BY <2>1, <2>3, <2>4, <2>5, Zenon DEF WritesLocked
<1>5. CASE \E r \in Requests : Send(q, r) \/ Regenerate(q, r)
  <2>1. PICK r \in Requests : Send(q, r) \/ Regenerate(q, r)
    BY <1>5, Zenon
  <2>2. AppendRequest(q, r) /\ (Ready(q, "send") \/ Ready(q, "regenerate"))
    BY <2>1, Zenon DEF Send, Regenerate
  <2>3. txn[q].op \in {"send", "regenerate"} /\ Ready(q, txn[q].op)
    BY <2>2, Zenon DEF Ready
  <2>4. Conv \in Held(q)
    <3>1. txn[q].op \in Operations \ {"none", "settle"} /\ txn[q].op # "create"
      BY <2>3, Zenon DEF Operations
    <3> QED
      BY <2>3, <3>1, WriterHolds, Zenon
  <2>5. Accept(q, r) /\ reqs[r].status = "none"
    BY <2>2, Zenon DEF AppendRequest
  <2>6. \A k \in Keys : <<"idem", k>> \in Held(q) \/ idem'[k] = idem[k]
    <3>1. txn[q].op \in Accepting
      BY <2>3, Zenon DEF Accepting
    <3> QED
      BY <1>3, <2>3, <2>5, <3>1, Zenon
  <2>7. \A x \in Requests : x # r => reqs'[x] = reqs[x]
    BY <1>0, <2>2 DEF AppendRequest
  <2>8. conv.exists => conv'.exists
    <3>1. conv' = [conv EXCEPT !.active = r]
      BY <2>2, Zenon DEF AppendRequest
    <3> QED
      BY <1>0, <3>1, Zenon
  <2> QED
    BY <2>4, <2>5, <2>6, <2>7, <2>8, Zenon DEF WritesLocked
<1>6. CASE Stop(q) \/ Finish(q) \/ Reconcile(q)
  <2> DEFINE r == txn[q].request
  <2>1. idem' = idem /\ (Ready(q, "stop") \/ Ready(q, "finish") \/ Ready(q, "reconcile"))
    BY <1>6, Zenon DEF Stop, Finish, Reconcile
  <2>2. Conv \in Held(q)
    <3>1. {"stop", "finish", "reconcile"} \subseteq Operations \ {"none", "settle", "create"}
      BY Zenon DEF Operations
    <3> QED
      BY <2>1, <3>1, WriterHolds, Zenon
  <2>3. r \in Requests /\ <<"request", r>> \in Held(q)
    BY <2>1, OnRequestReady, Zenon
  <2>4. reqs[r].status \in Open \/ reqs' = reqs
    <3>1. Stop(q) => reqs[r].status \in Open \/ reqs' = reqs
      BY StopKeeps, Zenon
    <3>2. Finish(q) \/ Reconcile(q) => Ready(q, "finish") \/ Ready(q, "reconcile")
      BY Zenon DEF Finish, Reconcile
    <3>3. Finish(q) \/ Reconcile(q) => reqs[r].status \in {"running", "stop_requested"}
      BY <3>2, OnRequestReady, Zenon
    <3>4. {"running", "stop_requested"} \subseteq Open
      BY Zenon DEF Open
    <3> QED
      BY <1>6, <3>1, <3>3, <3>4, Zenon
  <2>5. (\E s : reqs' = [reqs EXCEPT ![r].status = s]) \/ reqs' = reqs
    <3>1. Finish(q) => \E s, m : Close(r, s, m)
      BY Zenon DEF Finish
    <3>2. Reconcile(q) => \E s, m : Close(r, s, m)
      BY Zenon DEF Reconcile
    <3>3. Stop(q) => \/ \E s, m : Close(r, s, m)
                     \/ reqs' = [reqs EXCEPT ![r].status = "stop_requested"] \/ reqs' = reqs
      BY Zenon DEF Stop
    <3> QED
      BY <1>6, <3>1, <3>2, <3>3, Zenon DEF Close
  <2>6. \A x \in Requests : x # r => reqs'[x] = reqs[x]
    <3>1. ASSUME NEW s, reqs' = [reqs EXCEPT ![r].status = s]
          PROVE  \A x \in Requests : x # r => reqs'[x] = reqs[x]
      BY <1>0, <3>1, Zenon
    <3> QED
      BY <2>5, <3>1, Zenon
  <2>7. conv.exists => conv'.exists
    <3>1. conv' = conv \/ ClearActive(r)
      <4>1. Finish(q) \/ Reconcile(q) => ClearActive(r)
        BY Zenon DEF Finish, Reconcile, Close
      <4>2. Stop(q) => ClearActive(r) \/ conv' = conv
        BY Zenon DEF Stop, Close
      <4> QED
        BY <1>6, <4>1, <4>2, Zenon
    <3> QED
      BY <1>0, <3>1, Zenon DEF ClearActive
  <2> QED
    BY <2>1, <2>2, <2>3, <2>4, <2>6, <2>7, Zenon DEF WritesLocked
<1> QED
  BY <1>2, <1>4, <1>5, <1>6, Zenon DEF Step

\* What was checked under locks stays true until the transaction ends.
THEOREM ChecksStandHolds == Spec => ChecksStand
<1>1. TurnsInv /\ [Next]_vars => [\A p \in Procs : Passed(p) /\ txn'[p] = txn[p] => Passed(p)']_vars
  <2> SUFFICES ASSUME TurnsInv, Next, NEW p \in Procs, Passed(p), txn'[p] = txn[p]
               PROVE  Passed(p)'
    BY Zenon
  <2>1. ASSUME NEW q \in Procs, Step(q) PROVE CheckedSame(p)
    <3>1. p # q /\ WritesLocked(q)
      BY <2>1, StepMoves, StepWritesLocked, Zenon
    <3>2. Held(p) \cap Held(q) = {}
      BY <2>1, <3>1, Zenon DEF TurnsInv, LocksExclusive
    <3>3. \A r \in Requests : <<"request", r>> \in Held(p) => reqs[r].status # "none"
      BY HeldRequest, Zenon DEF TurnsInv
    <3> QED
      BY <3>1, <3>2, <3>3, Zenon DEF CheckedSame, WritesLocked
  <2>2. ASSUME NEW r \in Requests, Claim(r) \/ Requeue(r) PROVE CheckedSame(p)
    <3>0. PICK from, to \in Open : Lease(r, from, to)
      BY <2>2, LeaseStates, Zenon
    <3>1. conv' = conv /\ msgs' = msgs /\ idem' = idem /\ <<"request", r>> \notin Held(p)
      BY <3>0, Zenon DEF Lease
    <3>2. \A x \in Requests : x # r => reqs'[x] = reqs[x]
      BY <3>0 DEF Lease, TurnsInv, OrderOK
    <3> QED
      BY <3>1, <3>2, Zenon DEF CheckedSame
  <2>3. CheckedSame(p)
    BY <2>1, <2>2, Zenon DEF Next
  <2> QED
    BY <2>3, ChecksAreLocked, Zenon
<1> QED
  BY <1>1, TurnsInvariant, PTL DEF Spec, ChecksStand

\* An ended request is never written again.
THEOREM EndedStaysHolds == Spec => EndedStays
<1>1. TurnsInv /\ [Next]_vars =>
        [\A r \in Requests :
           reqs[r].status \in Terminal \cup {"submitted_unknown"} => reqs'[r] = reqs[r]]_vars
  <2> SUFFICES ASSUME TurnsInv, Next, NEW r \in Requests,
                      reqs[r].status \in Terminal \cup {"submitted_unknown"}
               PROVE  reqs'[r] = reqs[r]
    BY Zenon
  <2>1. reqs[r].status \notin Open \cup {"none"}
    BY DEF Terminal, Open
  <2>2. ASSUME NEW q \in Procs, Step(q) PROVE reqs'[r] = reqs[r]
    BY <2>1, <2>2, StepWritesLocked, Zenon DEF WritesLocked
  <2>3. ASSUME NEW x \in Requests, Claim(x) \/ Requeue(x) PROVE reqs'[r] = reqs[r]
    <3>0. PICK from, to \in Open : Lease(x, from, to)
      BY <2>3, LeaseStates, Zenon
    <3>1. x # r
      BY <2>1, <3>0, Zenon DEF Lease
    <3> QED
      BY <3>0, <3>1, Zenon DEF Lease, TurnsInv, OrderOK
  <2> QED
    BY <2>2, <2>3, Zenon DEF Next
<1> QED
  BY <1>1, TurnsInvariant, PTL DEF Spec, EndedStays

-----------------------------------------------------------------------------
(* Deadlocks.  Without an ending, or without a stop, the rows of a circle    *)
(* can be ranked such that each transaction holds lower rows than it wants.  *)

\* The rank of a row, by its kind, when no transaction ends a request.
Forward == [idem |-> 0, conversation |-> 1, product_model |-> 2, request |-> 3,
            message |-> 4, wallet |-> 5, hold |-> 6, usage |-> 7]

\* The rank of a row when none stops one.
Backward == [idem |-> 0, request |-> 0, message |-> 1, conversation |-> 2,
             product_model |-> 3, wallet |-> 4, hold |-> 5, usage |-> 6]

Wanted(p) == Plan(p)[txn[p].at + 1][1]

\* The row p wants ranks above the rows it holds.
Climbs(p, rank) ==
  /\ rank[Wanted(p)] \in 0 .. 7
  /\ \A i \in 1 .. txn[p].at : rank[Plan(p)[i][1]] < rank[Wanted(p)]

\* A rank cannot rise for ever.
LEMMA NoEndlessClimb ==
  ASSUME NEW S, NEW f \in [S -> 0 .. 7], \A p \in S : \E q \in S : f[p] < f[q]
  PROVE  S = {}
<1>1. \A p \in S : f[p] \in 0 .. 6
  OBVIOUS
<1>2. \A p \in S : f[p] \in 0 .. 5
  BY <1>1
<1>3. \A p \in S : f[p] \in 0 .. 4
  BY <1>2
<1>4. \A p \in S : f[p] \in 0 .. 3
  BY <1>3
<1>5. \A p \in S : f[p] \in 0 .. 2
  BY <1>4
<1>6. \A p \in S : f[p] \in 0 .. 1
  BY <1>5
<1>7. \A p \in S : f[p] = 0
  BY <1>6
<1> QED
  BY <1>7

\* A circle has someone who wants a row below one they hold.
LEMMA NoCircleClimbs ==
  ASSUME NEW S \in SUBSET Procs, Circle(S), NEW rank, \A p \in S : Climbs(p, rank)
  PROVE  FALSE
<1> DEFINE f == [p \in S |-> rank[Wanted(p)]]
<1>1. f \in [S -> 0 .. 7]
  BY DEF Climbs
<1>2. ASSUME NEW p \in S PROVE \E q \in S : f[p] < f[q]
  <2>1. PICK q \in S : Waits(p, q)
    BY <1>2, Zenon DEF Circle
  <2>2. PICK i \in 1 .. txn[q].at : Plan(p)[txn[p].at + 1] = Plan(q)[i]
    BY <2>1, Zenon DEF Waits, Held
  <2>3. rank[Wanted(p)] < rank[Wanted(q)]
    BY <2>2, Zenon DEF Climbs, Wanted
  <2> QED
    BY <1>2, <2>3
<1> HIDE DEF f
<1>3. S = {}
  BY <1>1, <1>2, NoEndlessClimb, Zenon
<1> QED
  BY <1>3 DEF Circle

\* Every operation but an ending takes its locks in the forward order.
LEMMA ClimbsForward ==
  ASSUME NEW p \in Procs, txn[p].op \in Operations \ Ending, txn[p].at \in Nat, Wants(p)
  PROVE  Climbs(p, Forward)
<1> DEFINE n == txn[p].at
           P == Plan(p)
<1>0. n < Len(P)
  BY Zenon DEF Wants
<1>1. /\ Forward["idem"] = 0 /\ Forward["conversation"] = 1 /\ Forward["product_model"] = 2
      /\ Forward["request"] = 3 /\ Forward["message"] = 4 /\ Forward["wallet"] = 5
      /\ Forward["hold"] = 6 /\ Forward["usage"] = 7
  BY Zenon DEF Forward
<1> HIDE DEF P, n
<1> SUFFICES /\ Forward[P[n + 1][1]] \in 0 .. 7
             /\ \A i \in 1 .. n : Forward[P[i][1]] < Forward[P[n + 1][1]]
  BY Zenon DEF Climbs, Wanted, P, n
<1>2. n \in Nat
  BY DEF n
<1>3. CASE txn[p].op = "create"
  <2>1. Len(P) = 2 /\ P[1][1] = "idem" /\ P[2][1] = "product_model"
    BY <1>3, PlanKinds, Zenon DEF P
  <2> QED
    BY <1>0, <1>1, <1>2, <2>1
<1>4. CASE txn[p].op = "send"
  <2>1. /\ Len(P) = 4 /\ P[1][1] = "idem" /\ P[2][1] = "conversation"
        /\ P[3][1] = "product_model" /\ P[4][1] = "wallet"
    BY <1>4, PlanKinds, Zenon DEF P
  <2> QED
    BY <1>0, <1>1, <1>2, <2>1
<1>5. CASE txn[p].op = "regenerate"
  <2>1. /\ Len(P) = 5 /\ P[1][1] = "idem" /\ P[2][1] = "conversation"
        /\ P[3][1] = "product_model" /\ P[4][1] = "message" /\ P[5][1] = "wallet"
    BY <1>5, PlanKinds, Zenon DEF P
  <2> QED
    BY <1>0, <1>1, <1>2, <2>1
<1>6. CASE txn[p].op = "stop"
  <2>1. /\ Len(P) \in {3, 4} /\ P[1][1] = "conversation" /\ P[2][1] = "product_model"
        /\ P[3][1] = "request"
        /\ Len(P) = 4 => P[4][1] = "message"
    BY <1>6, PlanKinds, Zenon DEF P
  <2>2. CASE Len(P) = 4
    <3>1. P[4][1] = "message"
      BY <2>1, <2>2, Zenon
    <3> QED
      BY <1>0, <1>1, <1>2, <2>1, <2>2, <3>1
  <2>3. CASE Len(P) = 3
    BY <1>0, <1>1, <1>2, <2>1, <2>3
  <2> QED
    BY <2>1, <2>2, <2>3, Zenon
<1>7. CASE txn[p].op = "settle"
  <2>1. Len(P) = 3 /\ P[1][1] = "wallet" /\ P[2][1] = "hold" /\ P[3][1] = "usage"
    BY <1>7, PlanKinds, Zenon DEF P
  <2> QED
    BY <1>0, <1>1, <1>2, <2>1
<1>8. CASE txn[p].op = "none"
  <2>1. Len(P) = 0
    BY <1>8, PlanKinds, Zenon DEF P
  <2> QED
    BY <1>0, <1>2, <2>1
<1> QED
  BY <1>3, <1>4, <1>5, <1>6, <1>7, <1>8, Zenon DEF Operations, Ending

\* Every operation but stop takes its locks in the backward order, send and
\* regenerate as long as they have not seen an idle conversation.
LEMMA ClimbsBackward ==
  ASSUME NEW p \in Procs, txn[p].op \in Operations \ {"stop"}, txn[p].at \in Nat, Wants(p),
         txn[p].op \in {"send", "regenerate"} => txn[p].at < 3
  PROVE  Climbs(p, Backward)
<1> DEFINE n == txn[p].at
           P == Plan(p)
<1>0. n < Len(P)
  BY Zenon DEF Wants
<1>1. /\ Backward["idem"] = 0 /\ Backward["request"] = 0 /\ Backward["message"] = 1
      /\ Backward["conversation"] = 2 /\ Backward["product_model"] = 3 /\ Backward["wallet"] = 4
      /\ Backward["hold"] = 5 /\ Backward["usage"] = 6
  BY Zenon DEF Backward
<1>2. n \in Nat /\ (txn[p].op \in {"send", "regenerate"} => n < 3)
  OBVIOUS
<1> HIDE DEF P, n
<1> SUFFICES /\ Backward[P[n + 1][1]] \in 0 .. 7
             /\ \A i \in 1 .. n : Backward[P[i][1]] < Backward[P[n + 1][1]]
  BY Zenon DEF Climbs, Wanted, P, n
<1>3. CASE txn[p].op = "create"
  <2>1. Len(P) = 2 /\ P[1][1] = "idem" /\ P[2][1] = "product_model"
    BY <1>3, PlanKinds, Zenon DEF P
  <2> QED
    BY <1>0, <1>1, <1>2, <2>1
<1>4. CASE txn[p].op \in {"send", "regenerate"}
  <2>1. P[1][1] = "idem" /\ P[2][1] = "conversation" /\ P[3][1] = "product_model"
    BY <1>4, PlanKinds, Zenon DEF P
  <2> QED
    BY <1>1, <1>2, <1>4, <2>1
<1>5. CASE txn[p].op \in Ending
  <2>1. /\ Len(P) = 3 /\ P[1][1] = "request" /\ P[2][1] = "message" /\ P[3][1] = "conversation"
    BY <1>5, PlanKinds, Zenon DEF P
  <2> QED
    BY <1>0, <1>1, <1>2, <2>1
<1>6. CASE txn[p].op = "settle"
  <2>1. Len(P) = 3 /\ P[1][1] = "wallet" /\ P[2][1] = "hold" /\ P[3][1] = "usage"
    BY <1>6, PlanKinds, Zenon DEF P
  <2> QED
    BY <1>0, <1>1, <1>2, <2>1
<1>7. CASE txn[p].op = "none"
  <2>1. Len(P) = 0
    BY <1>7, PlanKinds, Zenon DEF P
  <2> QED
    BY <1>0, <1>2, <2>1
<1> QED
  BY <1>3, <1>4, <1>5, <1>6, <1>7, Zenon DEF Operations, Ending

\* Only a stop and an ending of a request can wait for each other in a circle.
THEOREM OnlyStopDeadlocksHolds == Spec => []OnlyStopDeadlocks
<1>1. TurnsInv => OnlyStopDeadlocks
  <2> SUFFICES ASSUME TurnsInv, NEW S \in SUBSET Procs, Circle(S),
                      ~ \E p, q \in S : txn[p].op = "stop" /\ txn[q].op \in Ending
               PROVE  FALSE
    BY Zenon DEF OnlyStopDeadlocks, Ending
  <2>1. \A p \in S : /\ p \in Procs /\ txn[p] \in Txn /\ TxnOK(p) /\ txn[p].at \in Nat
                     /\ txn[p].op \in Operations /\ Wants(p) /\ Passed(p)
    <3>1. \A p \in S : p \in Procs /\ txn[p] \in Txn /\ TxnOK(p)
      BY Zenon DEF TurnsInv, TxnsOK
    <3>2. \A p \in S : Wants(p) /\ Passed(p)
      BY Zenon DEF Circle, Waits
    <3> QED
      BY <3>1, <3>2, Zenon DEF Txn
  <2>2. CASE \A p \in S : txn[p].op \notin Ending
    <3>1. \A p \in S : Climbs(p, Forward)
      BY <2>1, <2>2, ClimbsForward, Zenon
    <3> QED
      BY <3>1, NoCircleClimbs, Zenon
  <2>3. CASE \E p \in S : txn[p].op \in Ending
    <3>1. PICK e \in S : txn[e].op \in Ending
      BY <2>3, Zenon
    <3>2. txn[e].at >= 1
      <4>1. PICK p \in S : Waits(p, e)
        BY <3>1, Zenon DEF Circle
      <4>2. \E i \in 1 .. txn[e].at : TRUE
        BY <4>1, Zenon DEF Waits, Held
      <4> QED
        BY <2>1, <4>2
    <3>3. MayEnd(txn[e])
      BY <2>1, <3>1, Zenon DEF Passed, Ending
    <3>4. txn[e].request \in Requests
      BY <2>1, <3>1, Zenon DEF TxnOK, OnRequest, Ending
    <3>5. conv.active = txn[e].request
      <4>1. reqs[txn[e].request].status \in Open
        BY <3>2, <3>3, Zenon DEF MayEnd, Open
      <4> QED
        BY <3>4, <4>1, Zenon DEF TurnsInv, OrderOK
    <3>6. conv.active # NoRequest
      BY <3>4, <3>5, TurnsConstants, Zenon
    <3>7. ASSUME NEW p \in S, txn[p].op \in {"send", "regenerate"} PROVE txn[p].at < 3
      <4>1. ConversationIdle(txn[p])
        BY <2>1, <3>7, Zenon DEF Passed, MayRegenerate
      <4>2. ~(txn[p].at >= 3)
        BY <3>6, <4>1, Zenon DEF ConversationIdle
      <4> QED
        BY <2>1, <4>2
    <3>8. \A p \in S : txn[p].op # "stop"
      BY <3>1, Zenon
    <3>9. \A p \in S : Climbs(p, Backward)
      BY <2>1, <3>7, <3>8, ClimbsBackward, Zenon
    <3> QED
      BY <3>9, NoCircleClimbs, Zenon
  <2> QED
    BY <2>2, <2>3, Zenon
<1> QED
  BY <1>1, TurnsInvariant, PTL

=============================================================================
