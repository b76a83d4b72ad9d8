-------------------------- MODULE ComponentProofs --------------------------
(***************************************************************************)
(* Proofs about two components that stand on their own: the sessions of an *)
(* account, and the artifacts of a job with their cleaners.  In both a     *)
(* process acts on what it read in an earlier transaction.  The theorems   *)
(* hold for any number of requests, processes, rows and faults.            *)
(***************************************************************************)
EXTENDS Sessions, Artifacts, TLAPS

-----------------------------------------------------------------------------
(* Sessions.  Every step is summarised by what it does to the account (the  *)
(* password is kept, or a new one is set) and to the session rows (a row is *)
(* carried over, possibly ended, or written fresh); RowsPreserved shows     *)
(* once that such a step keeps the invariant of the rows.                   *)

\* A row never has a newer password than the account; an active one has the
\* present password and was touched less than TouchInterval before its last
\* accepted request; the one-time credential of the present password that was
\* spent on a row is marked used.
RowOK(s) ==
  /\ session[s].password <= account.password
  /\ session[s].status = "active" =>
       /\ session[s].password = account.password /\ account.password > 0
       /\ session[s].accepted < session[s].seen + TouchInterval
  /\ session[s].spent /\ session[s].password = account.password => account.used

SessionRowsOK == (\A s \in SessionIds : RowOK(s)) /\ CredentialUsedOnce

\* A request works with a time that has passed; a login that was authenticated
\* has an account.
RequestsOK ==
  \A r \in Requests :
    /\ req[r].now <= clock
    /\ req[r].pc = "issue" => account.password > 0

SessionsInv == SessionsTypeOK /\ SessionRowsOK /\ RequestsOK

-----------------------------------------------------------------------------
(* Summaries of a step. *)

PasswordKept == account'.password = account.password /\ (account.used => account'.used)
PasswordSet == account'.password = account.password + 1

\* The row is the same one; it may have ended or been touched.
Carried(s) ==
  /\ session'[s].password = session[s].password
  /\ session'[s].spent = session[s].spent
  /\ session'[s].status = "active" =>
       /\ session[s].status = "active"
       /\ session'[s].accepted < session'[s].seen + TouchInterval

\* The row is a new session of the account as the step leaves it.
Fresh(s) ==
  /\ session'[s].password = account'.password /\ account'.password > 0
  /\ session'[s].accepted < session'[s].seen + TouchInterval
  /\ session'[s].spent => PasswordKept /\ ~account.used /\ account'.used

RowsCarried == \A s \in SessionIds : Carried(s)
OneFresh(f) == Fresh(f) /\ \A s \in SessionIds \ {f} : Carried(s)
OthersEnd(f) == \A s \in SessionIds \ {f} : session'[s].status # "active"

\* A step that keeps the password and carries every row over, perhaps but one
\* that it writes, keeps the invariant of the rows.
LEMMA RowsPreserved ==
  ASSUME SessionsTypeOK, SessionsTypeOK', SessionRowsOK, PasswordKept,
         RowsCarried \/ \E f \in SessionIds : OneFresh(f)
  PROVE  SessionRowsOK'
<1> USE DEF SessionsTypeOK, Account, Session
<1>1. CASE RowsCarried
  <2>1. \A s \in SessionIds : RowOK(s)'
    BY <1>1 DEF RowsCarried, Carried, SessionRowsOK, RowOK, PasswordKept
  <2>2. CredentialUsedOnce'
    BY <1>1 DEF RowsCarried, Carried, SessionRowsOK, CredentialUsedOnce
  <2> QED
    BY <2>1, <2>2 DEF SessionRowsOK
<1>2. CASE \E f \in SessionIds : OneFresh(f)
  <2> PICK f \in SessionIds : OneFresh(f)
    BY <1>2
  <2>1. \A s \in SessionIds \ {f} : RowOK(s)'
    BY DEF OneFresh, Carried, SessionRowsOK, RowOK, PasswordKept
  <2>2. RowOK(f)'
    BY DEF OneFresh, Fresh, SessionRowsOK, RowOK, PasswordKept
  <2>3. session'[f].spent =>
          \A s \in SessionIds \ {f} : ~(session'[s].spent /\ session'[s].password = account'.password)
    BY DEF OneFresh, Fresh, Carried, SessionRowsOK, RowOK, PasswordKept
  <2>4. CredentialUsedOnce'
    BY <2>3 DEF OneFresh, Fresh, Carried, SessionRowsOK, CredentialUsedOnce
  <2> QED
    BY <2>1, <2>2, <2>4 DEF SessionRowsOK
<1> QED
  BY <1>1, <1>2

\* A step that sets a new password keeps it too, if no row but a fresh one is
\* active afterwards.
LEMMA RowsRenewed ==
  ASSUME SessionsTypeOK, SessionsTypeOK', SessionRowsOK, PasswordSet,
         \/ RowsCarried /\ \A s \in SessionIds : session'[s].status # "active"
         \/ \E f \in SessionIds : OneFresh(f) /\ OthersEnd(f)
  PROVE  SessionRowsOK'
<1> USE DEF SessionsTypeOK, Account, Session
<1>1. CASE RowsCarried /\ \A s \in SessionIds : session'[s].status # "active"
  <2>1. \A s \in SessionIds : RowOK(s)'
    BY <1>1 DEF RowsCarried, Carried, SessionRowsOK, RowOK, PasswordSet
  <2>2. CredentialUsedOnce'
    BY <1>1 DEF RowsCarried, Carried, SessionRowsOK, CredentialUsedOnce
  <2> QED
    BY <2>1, <2>2 DEF SessionRowsOK
<1>2. CASE \E f \in SessionIds : OneFresh(f) /\ OthersEnd(f)
  <2> PICK f \in SessionIds : OneFresh(f) /\ OthersEnd(f)
    BY <1>2
  <2>1. \A s \in SessionIds \ {f} : RowOK(s)'
    BY DEF OneFresh, OthersEnd, Carried, SessionRowsOK, RowOK, PasswordSet
  <2>2. ~session'[f].spent
    BY DEF OneFresh, Fresh, PasswordSet, PasswordKept
  <2>3. RowOK(f)'
    BY <2>2 DEF OneFresh, Fresh, RowOK, PasswordSet
  <2>4. CredentialUsedOnce'
    BY <2>2 DEF OneFresh, Carried, SessionRowsOK, CredentialUsedOnce
  <2> QED
    BY <2>1, <2>3, <2>4 DEF SessionRowsOK
<1> QED
  BY <1>1, <1>2

-----------------------------------------------------------------------------
(* Rows and requests that steps write. *)

\* A row written over the rows of old is well formed; it starts with the
\* account's password and is touched.
LEMMA NewRow ==
  ASSUME SessionsTypeOK, account' \in Account,
         NEW old \in [SessionIds -> Session], NEW s \in SessionIds,
         NEW t \in Tenants \cup {NoTenant}, NEW spent \in BOOLEAN, NEW now \in Time,
         session' = [old EXCEPT ![s] = NewSession(t, spent, now)]
  PROVE  /\ session' \in [SessionIds -> Session]
         /\ \A x \in SessionIds \ {s} : session'[x] = old[x]
         /\ session'[s].password = account'.password
         /\ session'[s].spent <=> spent
         /\ session'[s].accepted < session'[s].seen + TouchInterval
<1>1. now \in Nat /\ now + SessionTtl \in Nat /\ now < now + TouchInterval
  BY SessionConstants DEF Time
<1>2. session'[s] = NewSession(t, spent, now)
  OBVIOUS
<1>3. account'.password \in 0 .. MaxPassword
  BY DEF Account
<1>4. session'[s] \in Session
  BY <1>1, <1>2, <1>3 DEF NewSession, Session
<1>5. session'[s].password = account'.password /\ (session'[s].spent <=> spent)
  BY <1>2 DEF NewSession
<1>6. session'[s].accepted < session'[s].seen + TouchInterval
  BY <1>1, <1>2 DEF NewSession
<1> QED
  BY <1>4, <1>5, <1>6

\* An ended row is well formed, inactive, and keeps its history.
LEMMA EndedRow ==
  ASSUME SessionsTypeOK, NEW s \in SessionIds, NEW st \in {"revoked", "expired"}
  PROVE  /\ Ended(s, st) \in Session
         /\ Ended(s, st).status # "active"
         /\ Ended(s, st).password = session[s].password
         /\ Ended(s, st).spent = session[s].spent
BY Zenon DEF SessionsTypeOK, Ended, Unissued, Session

\* Rows that stay as they are, or end, are carried over.
LEMMA EndingCarries ==
  ASSUME SessionsTypeOK, SessionRowsOK, NEW S \in SUBSET SessionIds, NEW st \in {"revoked", "expired"},
         session' = [s \in SessionIds |-> IF s \in S THEN Ended(s, st) ELSE session[s]]
  PROVE  /\ session' \in [SessionIds -> Session]
         /\ RowsCarried
         /\ \A s \in S : session'[s].status # "active"
<1>1. \A s \in S : session'[s] \in Session /\ Carried(s) /\ session'[s].status # "active"
  BY EndedRow DEF Carried
<1>2. \A s \in SessionIds \ S : session'[s] \in Session /\ Carried(s)
  BY DEF Carried, SessionsTypeOK, SessionRowsOK, RowOK
<1> QED
  BY <1>1, <1>2 DEF RowsCarried

\* Rows nobody writes are carried over.
LEMMA UnchangedCarries ==
  ASSUME SessionRowsOK, session' = session
  PROVE  RowsCarried
BY DEF SessionRowsOK, RowOK, RowsCarried, Carried

\* A request that ends leaves the others as they were.
LEMMA LeaveOK ==
  ASSUME SessionsTypeOK, RequestsOK, NEW r \in Requests, Leave(r), clock' = clock,
         account'.password = account.password \/ account'.password > 0
  PROVE  req' \in [Requests -> Request] /\ RequestsOK'
<1>1. Idle \in Request
  BY SessionConstants DEF Idle, Request, Time
<1>2. clock \in Nat
  BY SessionConstants DEF SessionsTypeOK, Time
<1> QED
  BY <1>1, <1>2 DEF SessionsTypeOK, RequestsOK, Leave, Idle

-----------------------------------------------------------------------------
(* Steps of accounts. *)

\* register and create make an account that no session row knows.
LEMMA NewAccountStep ==
  ASSUME SessionsInv, NEW t \in Tenants,
         Create(t) \/ \E s \in SessionIds : Register(t, s)
  PROVE  SessionsInv'
<1> USE DEF SessionsInv
<1>1. account.password = 0 /\ MaxPassword > 0 /\ account' \in Account /\ account'.password = 1
  <2>1. clock + CredentialTtl \in Nat
    BY SessionConstants DEF SessionsTypeOK, Time
  <2>2. CASE Create(t)
    BY <2>1, <2>2, SessionConstants DEF Create, Exists, Credential, Account, Never
  <2>3. CASE \E s \in SessionIds : Register(t, s)
    BY <2>3, SessionConstants DEF Register, Exists, Credential, Account, Never
  <2> QED
    BY <2>2, <2>3
<1>2. PasswordSet
  BY <1>1 DEF PasswordSet
<1>3. \A s \in SessionIds : session[s].status # "active"
  BY <1>1 DEF SessionRowsOK, RowOK
<1>4. members' \subseteq Tenants /\ clock' = clock /\ req' = req
  BY Zenon DEF Create, Register
<1>5. RequestsOK'
  BY <1>1, <1>4 DEF RequestsOK
<1>6. CASE Create(t)
  <2>1. session' = session
    BY <1>6 DEF Create
  <2>2. SessionsTypeOK'
    BY <1>1, <1>4, <2>1 DEF SessionsTypeOK
  <2> QED
    BY <1>2, <1>3, <1>5, <2>1, <2>2, UnchangedCarries, RowsRenewed
<1>7. CASE \E s \in SessionIds : Register(t, s)
  <2> PICK s \in SessionIds : Register(t, s)
    BY <1>7
  <2>1. session' = [session EXCEPT ![s] = NewSession(t, FALSE, clock)]
    BY DEF Register
  <2>2. /\ session' \in [SessionIds -> Session]
        /\ \A x \in SessionIds \ {s} : session'[x] = session[x]
        /\ session'[s].password = account'.password
        /\ ~session'[s].spent
        /\ session'[s].accepted < session'[s].seen + TouchInterval
    <3>1. session \in [SessionIds -> Session] /\ clock \in Time
      BY DEF SessionsTypeOK
    <3> QED
      BY <1>1, <2>1, <3>1, NewRow, Zenon
  <2>3. SessionsTypeOK'
    BY <1>1, <1>4, <2>2 DEF SessionsTypeOK
  <2>4. Fresh(s)
    BY <1>1, <2>2 DEF Fresh
  <2>5. OneFresh(s) /\ OthersEnd(s)
    BY <1>3, <2>2, <2>4 DEF OneFresh, OthersEnd, Carried
  <2> QED
    BY <1>2, <1>5, <2>3, <2>5, RowsRenewed
<1> QED
  BY <1>6, <1>7

\* reset sets a credential and ends every session.
LEMMA ResetStep ==
  ASSUME SessionsInv, Reset
  PROVE  SessionsInv'
<1> USE DEF SessionsInv
<1>1. account' \in Account /\ account'.password = account.password + 1 /\ account'.password > 0
  <2>1. clock + CredentialTtl \in Nat
    BY SessionConstants DEF SessionsTypeOK, Time
  <2> QED
    BY <2>1, SessionConstants DEF Reset, Credential, SessionsTypeOK, Account, Never
<1>2. PasswordSet
  BY <1>1 DEF PasswordSet
<1>3. /\ session' \in [SessionIds -> Session]
      /\ RowsCarried
      /\ \A s \in Active : session'[s].status # "active"
  <2>1. session' = [s \in SessionIds |-> IF s \in Active THEN Ended(s, "revoked") ELSE session[s]]
    BY DEF Reset, RevokeAll
  <2> QED
    BY <2>1, EndingCarries, Zenon DEF Active
<1>4. \A s \in SessionIds : session'[s].status # "active"
  BY <1>3 DEF Active, RowsCarried, Carried
<1>5. SessionsTypeOK' /\ RequestsOK'
  BY <1>1, <1>3, Zenon DEF Reset, SessionsTypeOK, RequestsOK
<1> QED
  BY <1>2, <1>3, <1>4, <1>5, RowsRenewed

\* Administration and the passing of time touch neither accounts nor rows.
LEMMA OutsideStep ==
  ASSUME SessionsInv, Tick \/ \E t \in Tenants : Administer(t)
  PROVE  SessionsInv'
<1> USE DEF SessionsInv
<1>1. account' = account /\ session' = session /\ req' = req
  BY DEF Tick, Administer
<1>2. clock' \in Time /\ clock <= clock' /\ members' \subseteq Tenants
  BY SessionConstants DEF Tick, Administer, SessionsTypeOK, Time
<1>3. SessionsTypeOK'
  BY <1>1, <1>2 DEF SessionsTypeOK
<1>4. RequestsOK'
  BY <1>1, <1>2, SessionConstants DEF RequestsOK, SessionsTypeOK, Request, Time
<1>5. PasswordKept
  BY <1>1 DEF PasswordKept
<1> QED
  BY <1>1, <1>3, <1>4, <1>5, UnchangedCarries, RowsPreserved

-----------------------------------------------------------------------------
(* Steps of a login. *)

\* A request that starts, with the present time.
LEMMA StartOK ==
  ASSUME SessionsInv, NEW r \in Requests, UNCHANGED <<clock, account, members, session>>,
         NEW q \in Request, q.now <= clock, q.pc # "issue", req' = [req EXCEPT ![r] = q]
  PROVE  SessionsInv'
<1> USE DEF SessionsInv
<1>1. SessionsTypeOK'
  BY DEF SessionsTypeOK
<1>2. RequestsOK'
  BY DEF SessionsTypeOK, RequestsOK
<1>3. PasswordKept
  BY DEF PasswordKept
<1> QED
  BY <1>1, <1>2, <1>3, UnchangedCarries, RowsPreserved

\* StartLogin and Visit.
LEMMA StartStep ==
  ASSUME SessionsInv, NEW r \in Requests,
         \/ \E p \in 0 .. MaxPassword : \E t \in Tenants \cup {NoTenant} : StartLogin(r, p, t)
         \/ \E s \in SessionIds : Visit(r, s)
  PROVE  SessionsInv'
<1>1. clock \in Time /\ clock <= clock /\ 0 \in 0 .. MaxPassword
  BY SessionConstants DEF SessionsInv, SessionsTypeOK, Time
<1>2. CASE \E p \in 0 .. MaxPassword : \E t \in Tenants \cup {NoTenant} : StartLogin(r, p, t)
  <2> PICK p \in 0 .. MaxPassword, t \in Tenants \cup {NoTenant} : StartLogin(r, p, t)
    BY <1>2
  <2> DEFINE q == [Idle EXCEPT !.pc = "authenticate", !.password = p, !.tenant = t, !.now = clock]
  <2>1. q \in Request
    BY Zenon, <1>1 DEF Idle, Request
  <2>2. q.now = clock /\ q.pc = "authenticate"
    BY Zenon DEF Idle
  <2>3. req' = [req EXCEPT ![r] = q] /\ UNCHANGED <<clock, account, members, session>>
    BY Zenon DEF StartLogin
  <2> HIDE DEF q
  <2> QED
    BY <1>1, <2>1, <2>2, <2>3, StartOK, Zenon
<1>3. CASE \E s \in SessionIds : Visit(r, s)
  <2> PICK s \in SessionIds : Visit(r, s)
    BY <1>3
  <2> DEFINE q == [Idle EXCEPT !.pc = "visit", !.session = s, !.now = clock]
  <2>1. q \in Request
    BY Zenon, <1>1 DEF Idle, Request
  <2>2. q.now = clock /\ q.pc = "visit"
    BY Zenon DEF Idle
  <2>3. req' = [req EXCEPT ![r] = q] /\ UNCHANGED <<clock, account, members, session>>
    BY Zenon DEF Visit
  <2> HIDE DEF q
  <2> QED
    BY <1>1, <2>1, <2>2, <2>3, StartOK, Zenon
<1> QED
  BY <1>2, <1>3

\* A request that ends without touching a session row.
LEMMA PassiveStep ==
  ASSUME SessionsInv, NEW r \in Requests, Leave(r), UNCHANGED <<clock, members, session>>,
         account' \in Account, PasswordKept
  PROVE  SessionsInv'
<1> USE DEF SessionsInv
<1>1. req' \in [Requests -> Request] /\ RequestsOK'
  BY LeaveOK DEF PasswordKept
<1>2. SessionsTypeOK'
  BY <1>1 DEF SessionsTypeOK
<1> QED
  BY <1>1, <1>2, UnchangedCarries, RowsPreserved

\* authenticate counts failures, locks and unlocks the account; the password
\* and its use stay.
LEMMA AuthenticateStep ==
  ASSUME SessionsInv, NEW r \in Requests, Authenticate(r)
  PROVE  SessionsInv'
<1> DEFINE now == req[r].now
           open == IF account.locked # Never /\ account.locked <= now
                   THEN [account EXCEPT !.locked = Never, !.failed = 0] ELSE account
           tries == open.failed + 1
           wrong == [open EXCEPT !.failed = tries,
                                 !.locked = IF tries >= MaxFailed THEN now + Lockout ELSE Never]
           right == [open EXCEPT !.failed = 0]
           q(t) == [Idle EXCEPT !.pc = "issue", !.tenant = t, !.now = clock,
                                !.restricted = account.restricted]
<1>0. UNCHANGED <<clock, members, session>>
  BY Zenon DEF Authenticate
<1>1. now \in Nat /\ account \in Account /\ Lockout \in Nat /\ MaxFailed \in Nat
  BY SessionConstants DEF SessionsInv, SessionsTypeOK, Request, Time
<1>2. open \in Account /\ open.password = account.password /\ open.used = account.used
  BY <1>1, Zenon DEF Account, Never
<1>3. wrong \in Account /\ wrong.password = account.password /\ wrong.used = account.used
  <2> DEFINE until == IF tries >= MaxFailed THEN now + Lockout ELSE Never
  <2> HIDE DEF open, now
  <2>1. tries \in Nat /\ until \in Nat
    BY <1>1, <1>2 DEF Account, Never
  <2> HIDE DEF until, tries
  <2>2. wrong = [open EXCEPT !.failed = tries, !.locked = until]
    BY DEF until
  <2> HIDE DEF wrong
  <2> QED
    BY <1>2, <2>1, <2>2, Zenon DEF Account
<1>4. right \in Account /\ right.password = account.password /\ right.used = account.used
  <2> HIDE DEF open
  <2> QED
    BY <1>2 DEF Account
<1> HIDE DEF open, wrong, right
<1>5. CASE \E a \in {account, open, wrong} : Refuse(r, a)
  <2>1. account' \in Account /\ PasswordKept /\ Leave(r)
    BY <1>1, <1>2, <1>3, <1>5 DEF Refuse, PasswordKept
  <2> QED
    BY <1>0, <2>1, PassiveStep
<1>6. ASSUME NEW t \in Tenants, Exists, account' = right, req' = [req EXCEPT ![r] = q(t)]
      PROVE  SessionsInv'
  <2>1. clock \in Time /\ 0 \in 0 .. MaxPassword /\ account.restricted \in BOOLEAN /\ clock \in Nat
    BY <1>1, SessionConstants DEF Time, Account, SessionsInv, SessionsTypeOK
  <2>2. q(t) \in Request /\ q(t).now = clock
    BY Zenon, <2>1 DEF Idle, Request
  <2> HIDE DEF q
  <2>3. PasswordKept /\ account'.password > 0
    BY <1>1, <1>4, <1>6 DEF PasswordKept, Exists, Account
  <2>4. SessionsTypeOK'
    BY <1>0, <1>4, <1>6, <2>2 DEF SessionsInv, SessionsTypeOK
  <2>5. RequestsOK'
    BY <1>0, <1>6, <2>1, <2>2, <2>3 DEF SessionsInv, SessionsTypeOK, RequestsOK
  <2> QED
    BY <1>0, <2>3, <2>4, <2>5, UnchangedCarries, RowsPreserved DEF SessionsInv
<1>7. \/ \E a \in {account, open, wrong} : Refuse(r, a)
      \/ \E t \in Tenants : Exists /\ account' = right /\ req' = [req EXCEPT ![r] = q(t)]
  BY Zenon DEF Authenticate, open, wrong, right
<1> QED
  BY <1>5, <1>6, <1>7, Zenon

\* create_session writes a fresh row; a credential it spends was not used.
LEMMA IssueStep ==
  ASSUME SessionsInv, NEW r \in Requests, NEW s \in SessionIds, NEW now \in Time, Issue(r, s, now)
  PROVE  SessionsInv'
<1> USE DEF SessionsInv
<1>1. /\ account \in Account /\ req[r].restricted \in BOOLEAN
      /\ req[r].tenant \in Tenants \cup {NoTenant} /\ account.password > 0
  BY DEF Issue, SessionsTypeOK, Request, RequestsOK
<1>2. /\ account' \in Account /\ account'.password = account.password
      /\ account'.used <=> account.used \/ req[r].restricted
  BY <1>1 DEF Issue, Account
<1>3. req[r].restricted => ~account.used
  BY DEF Issue, Spendable
<1>4. PasswordKept
  BY <1>2 DEF PasswordKept
<1>5. /\ session' \in [SessionIds -> Session]
      /\ \A x \in SessionIds \ {s} : session'[x] = session[x]
      /\ session'[s].password = account'.password
      /\ session'[s].spent <=> req[r].restricted
      /\ session'[s].accepted < session'[s].seen + TouchInterval
  <2>1. session \in [SessionIds -> Session]
    BY DEF SessionsTypeOK
  <2>2. session' = [session EXCEPT ![s] = NewSession(req[r].tenant, req[r].restricted, now)]
    BY DEF Issue
  <2> QED
    BY <1>1, <1>2, <2>1, <2>2, NewRow, Zenon
<1>6. Fresh(s)
  BY <1>1, <1>2, <1>3, <1>4, <1>5 DEF Fresh
<1>7. OneFresh(s)
  BY <1>5, <1>6 DEF OneFresh, Carried, SessionRowsOK, RowOK
<1>8. req' \in [Requests -> Request] /\ RequestsOK'
  BY <1>2, LeaveOK DEF Issue
<1>9. SessionsTypeOK'
  BY <1>2, <1>5, <1>8 DEF Issue, SessionsTypeOK
<1> QED
  BY <1>4, <1>7, <1>8, <1>9, RowsPreserved

-----------------------------------------------------------------------------
(* Steps of a session's requests. *)

\* A request that ends sessions and leaves.
LEMMA EndingStep ==
  ASSUME SessionsInv, NEW r \in Requests, Leave(r), UNCHANGED <<clock, account, members>>,
         NEW S \in SUBSET SessionIds, NEW st \in {"revoked", "expired"},
         session' = [s \in SessionIds |-> IF s \in S THEN Ended(s, st) ELSE session[s]]
  PROVE  SessionsInv'
<1> USE DEF SessionsInv
<1>1. session' \in [SessionIds -> Session] /\ RowsCarried
  BY EndingCarries
<1>2. req' \in [Requests -> Request] /\ RequestsOK'
  BY LeaveOK
<1>3. SessionsTypeOK' /\ PasswordKept
  BY <1>1, <1>2 DEF SessionsTypeOK, PasswordKept
<1> QED
  BY <1>1, <1>2, <1>3, RowsPreserved

\* logout, revoke_other_session and list_user_sessions.
LEMMA RevokingStep ==
  ASSUME SessionsInv, NEW r \in Requests,
         \/ Logout(r)
         \/ \E s \in SessionIds : RevokeOther(r, s)
         \/ \E now \in Time : ListSessions(r, now)
  PROVE  SessionsInv'
<1>0. session \in [SessionIds -> Session] /\ req \in [Requests -> Request]
  BY DEF SessionsInv, SessionsTypeOK
<1>1. ASSUME NEW s \in SessionIds, Revoke(s)
      PROVE  session' = [x \in SessionIds |-> IF x \in {s} THEN Ended(x, "revoked") ELSE session[x]]
  BY <1>0, <1>1, Zenon DEF Revoke
<1>2. CASE Logout(r)
  <2>1. req[r].session \in SessionIds
    BY <1>2 DEF Logout, Active
  <2>2. Revoke(req[r].session) /\ Leave(r) /\ UNCHANGED <<clock, account, members>>
    BY <1>2 DEF Logout
  <2>3. session' = [x \in SessionIds |-> IF x \in {req[r].session} THEN Ended(x, "revoked")
                                        ELSE session[x]]
    BY <1>1, <2>1, <2>2
  <2> QED
    BY <2>1, <2>2, <2>3, EndingStep, Zenon
<1>3. CASE \E s \in SessionIds : RevokeOther(r, s)
  <2> PICK s \in SessionIds : RevokeOther(r, s)
    BY <1>3
  <2>1. Revoke(s) /\ Leave(r) /\ UNCHANGED <<clock, account, members>>
    BY DEF RevokeOther
  <2>2. session' = [x \in SessionIds |-> IF x \in {s} THEN Ended(x, "revoked") ELSE session[x]]
    BY <1>1, <2>1
  <2> QED
    BY <2>1, <2>2, EndingStep, Zenon
<1>4. CASE \E now \in Time : ListSessions(r, now)
  <2> PICK now \in Time : ListSessions(r, now)
    BY <1>4
  <2> DEFINE S == {s \in Active : session[s].tenant = req[r].tenant /\ Lapsed(s, now)}
  <2>1. S \in SUBSET SessionIds
    BY DEF Active
  <2>2. session' = [s \in SessionIds |-> IF s \in S THEN Ended(s, "expired") ELSE session[s]]
    BY DEF ListSessions
  <2>3. Leave(r) /\ UNCHANGED <<clock, account, members>>
    BY DEF ListSessions
  <2> HIDE DEF S
  <2> QED
    BY <2>1, <2>2, <2>3, EndingStep
<1> QED
  BY <1>2, <1>3, <1>4

\* current_auth: a row that is accepted is touched in time, so that what it
\* last accepted stays less than TouchInterval ahead of last_seen_at.
LEMMA CurrentAuthStep ==
  ASSUME SessionsInv, NEW r \in Requests, CurrentAuth(r)
  PROVE  SessionsInv'
<1> DEFINE s == req[r].session
           now == req[r].now
           ok == s \in Active /\ ~Lapsed(s, now) /\ session[s].tenant \in members
           touched == Touch(s, now)
           done == [touched EXCEPT !.accepted = IF @ < now THEN now ELSE @]
<1>1. /\ session \in [SessionIds -> Session] /\ req \in [Requests -> Request]
      /\ now \in Nat /\ TouchInterval \in Nat \ {0}
      /\ UNCHANGED <<clock, account, members>>
  BY SessionConstants DEF SessionsInv, SessionsTypeOK, Request, Time, CurrentAuth
<1>2. CASE ok
  <2>1. s \in SessionIds /\ session[s] \in Session /\ session[s].status = "active"
    BY <1>1, <1>2 DEF Active
  <2>2. session[s].accepted < session[s].seen + TouchInterval
    BY <2>1 DEF SessionsInv, SessionRowsOK, RowOK
  <2>3. /\ touched \in Session /\ touched.status = "active" /\ touched.password = session[s].password
        /\ touched.spent = session[s].spent /\ touched.accepted = session[s].accepted
        /\ touched.accepted < touched.seen + TouchInterval /\ now < touched.seen + TouchInterval
    <3>1. CASE session[s].seen + TouchInterval <= now
      <4>1. touched = [session[s] EXCEPT !.seen = now]
        BY <3>1 DEF Touch
      <4> QED
        BY <1>1, <2>1, <2>2, <3>1, <4>1 DEF Session
    <3>2. CASE ~(session[s].seen + TouchInterval <= now)
      <4>1. touched = session[s]
        BY <3>2 DEF Touch
      <4> QED
        BY <1>1, <2>1, <2>2, <3>2, <4>1 DEF Session
    <3> QED
      BY <3>1, <3>2, Zenon
  <2> HIDE DEF touched
  <2>4. /\ done \in Session /\ done.status = "active" /\ done.password = session[s].password
        /\ done.spent = session[s].spent /\ done.accepted < done.seen + TouchInterval
    BY <1>1, <2>3 DEF Session
  <2>5. session' = [session EXCEPT ![s] = done]
    BY <1>2 DEF CurrentAuth, touched
  <2> HIDE DEF done
  <2>6. session' \in [SessionIds -> Session] /\ Carried(s)
    BY <1>1, <2>1, <2>4, <2>5 DEF Carried
  <2>7. \A x \in SessionIds \ {s} : Carried(x)
    BY <1>1, <2>1, <2>5 DEF Carried, SessionsInv, SessionRowsOK, RowOK
  <2>8. req' = [req EXCEPT ![r] = [@ EXCEPT !.pc = "serve", !.tenant = session[s].tenant,
                                            !.restricted = account.restricted]]
    BY <1>2 DEF CurrentAuth
  <2>9. session[s].tenant \in Tenants \cup {NoTenant} /\ account.restricted \in BOOLEAN
    BY <2>1 DEF Session, SessionsInv, SessionsTypeOK, Account
  <2>10. req' \in [Requests -> Request] /\ req'[r].now = req[r].now /\ req'[r].pc = "serve"
    <3> DEFINE q == [req[r] EXCEPT !.pc = "serve", !.tenant = session[s].tenant,
                                   !.restricted = account.restricted]
    <3>1. req[r] \in Request
      BY <1>1
    <3>2. q \in Request /\ q.now = req[r].now /\ q.pc = "serve"
      BY <2>9, <3>1, Zenon DEF Request
    <3>3. req' = [req EXCEPT ![r] = q]
      BY <2>8
    <3> HIDE DEF q
    <3> QED
      BY <1>1, <3>2, <3>3
  <2>11. RequestsOK'
    BY <1>1, <2>8, <2>10 DEF SessionsInv, RequestsOK
  <2>12. SessionsTypeOK' /\ PasswordKept /\ RowsCarried
    BY <1>1, <2>6, <2>7, <2>10 DEF SessionsInv, SessionsTypeOK, PasswordKept, RowsCarried
  <2> QED
    BY <2>11, <2>12, RowsPreserved DEF SessionsInv
<1>3. CASE ~ok
  <2> DEFINE S == IF s \in Active /\ Lapsed(s, now) THEN {s} ELSE {}
  <2>1. S \in SUBSET SessionIds
    BY Zenon DEF Active
  <2>2. session' = [x \in SessionIds |-> IF x \in S THEN Ended(x, "expired") ELSE session[x]]
    BY <1>1, <1>3 DEF CurrentAuth, Active
  <2>3. Leave(r)
    BY <1>3 DEF CurrentAuth
  <2> HIDE DEF S
  <2> QED
    BY <1>1, <2>1, <2>2, <2>3, EndingStep
<1> QED
  BY <1>2, <1>3

\* change_password sets a password, ends every session and writes a fresh one.
LEMMA ChangePasswordStep ==
  ASSUME SessionsInv, NEW r \in Requests, NEW s \in SessionIds, ChangePassword(r, s)
  PROVE  SessionsInv'
<1> USE DEF SessionsInv
<1>1. /\ account' \in Account /\ account'.password = account.password + 1
      /\ account'.password > 0
  BY SessionConstants DEF ChangePassword, Credential, SessionsTypeOK, Account, Never
<1>2. /\ RevokeAll \in [SessionIds -> Session]
      /\ \A x \in SessionIds : /\ RevokeAll[x].status # "active"
                               /\ RevokeAll[x].password = session[x].password
                               /\ RevokeAll[x].spent = session[x].spent
  <2>1. ASSUME NEW x \in SessionIds
        PROVE  /\ RevokeAll[x] \in Session /\ RevokeAll[x].status # "active"
               /\ RevokeAll[x].password = session[x].password
               /\ RevokeAll[x].spent = session[x].spent
    <3>1. CASE x \in Active
      BY <3>1, EndedRow DEF RevokeAll
    <3>2. CASE x \notin Active
      BY <3>2 DEF RevokeAll, Active, SessionsTypeOK
    <3> QED
      BY <3>1, <3>2
  <2>2. RevokeAll = [x \in SessionIds |-> RevokeAll[x]]
    BY DEF RevokeAll
  <2> QED
    BY <2>1, <2>2
<1>3. /\ session' = [RevokeAll EXCEPT ![s] = NewSession(req[r].tenant, FALSE, clock)]
      /\ req[r].tenant \in Tenants \cup {NoTenant} /\ clock \in Time
  BY DEF ChangePassword, SessionsTypeOK, Request
<1>4. /\ session' \in [SessionIds -> Session]
      /\ \A x \in SessionIds \ {s} : session'[x] = RevokeAll[x]
      /\ session'[s].password = account'.password
      /\ ~session'[s].spent
      /\ session'[s].accepted < session'[s].seen + TouchInterval
  <2> HIDE DEF RevokeAll
  <2> QED
    BY <1>1, <1>2, <1>3, NewRow, Zenon
<1>5. OneFresh(s) /\ OthersEnd(s)
  BY <1>1, <1>2, <1>4, Zenon DEF OneFresh, OthersEnd, Fresh, Carried
<1>6. req' \in [Requests -> Request] /\ RequestsOK'
  BY <1>1, LeaveOK, Zenon DEF ChangePassword
<1>7. SessionsTypeOK' /\ PasswordSet
  BY <1>1, <1>4, <1>6, Zenon DEF ChangePassword, SessionsTypeOK, PasswordSet
<1> QED
  BY <1>5, <1>6, <1>7, RowsRenewed

-----------------------------------------------------------------------------
(* Theorems. *)

\* The first state satisfies the invariant.
LEMMA SessionsInitially ==
  ASSUME SessionsInit
  PROVE  SessionsInv
<1>1. 0 \in Time /\ 0 \in 0 .. MaxPassword /\ 0 \in Nat /\ TouchInterval > 0
  BY SessionConstants DEF Time
<1>2. SessionsTypeOK
  BY <1>1, Zenon DEF SessionsInit, SessionsTypeOK, NoAccount, Credential, Account, Unissued, Session, Idle,
              Request, Never
<1>3. SessionRowsOK
  BY <1>1 DEF SessionsInit, SessionRowsOK, RowOK, CredentialUsedOnce, NoAccount, Credential, Unissued
<1>4. RequestsOK
  BY <1>1 DEF SessionsInit, RequestsOK, Idle
<1> QED
  BY <1>2, <1>3, <1>4 DEF SessionsInv

\* Every step keeps the invariant.
LEMMA SessionsStep ==
  ASSUME SessionsInv, [SessionsNext]_sessionVars
  PROVE  SessionsInv'
<1>1. CASE \E t \in Tenants : Create(t) \/ \E s \in SessionIds : Register(t, s)
  BY <1>1, NewAccountStep
<1>2. CASE Reset
  BY <1>2, ResetStep
<1>3. CASE Tick \/ \E t \in Tenants : Administer(t)
  BY <1>3, OutsideStep
<1>4. ASSUME NEW r \in Requests, LoginStep(r)
      PROVE  SessionsInv'
  <2>1. CASE IssueRefused(r)
    <3>1. account \in Account /\ PasswordKept /\ account' = account
      BY <2>1 DEF IssueRefused, SessionsInv, SessionsTypeOK, PasswordKept
    <3> QED
      BY <2>1, <3>1, PassiveStep DEF IssueRefused
  <2> QED
    BY <1>4, <2>1, StartStep, AuthenticateStep, IssueStep DEF LoginStep
<1>5. ASSUME NEW r \in Requests, SessionStep(r)
      PROVE  SessionsInv'
  <2>1. CASE Serve(r)
    <3>1. account \in Account /\ PasswordKept /\ account' = account
      BY <2>1 DEF Serve, SessionsInv, SessionsTypeOK, PasswordKept
    <3> QED
      BY <2>1, <3>1, PassiveStep DEF Serve
  <2> QED
    BY <1>5, <2>1, StartStep, CurrentAuthStep, ChangePasswordStep, RevokingStep DEF SessionStep
<1>6. CASE UNCHANGED sessionVars
  BY <1>6, Zenon DEF sessionVars, SessionsInv, SessionsTypeOK, SessionRowsOK, RowOK, CredentialUsedOnce, RequestsOK
<1> QED
  BY <1>1, <1>2, <1>3, <1>4, <1>5, <1>6 DEF SessionsNext

\* The inductive invariant of accounts, sessions and requests.
THEOREM SessionsInvariant == SessionsSpec => []SessionsInv
<1>1. SessionsInit => SessionsInv
  BY SessionsInitially
<1>2. SessionsInv /\ [SessionsNext]_sessionVars => SessionsInv'
  BY SessionsStep
<1> QED
  BY <1>1, <1>2, PTL DEF SessionsSpec

\* A one-time credential opens one session (create_session checks and spends
\* it under the row lock).
THEOREM CredentialUsedOnceAlways == SessionsSpec => []CredentialUsedOnce
<1>1. SessionsInv => CredentialUsedOnce
  BY DEF SessionsInv, SessionRowsOK
<1> QED
  BY <1>1, SessionsInvariant, PTL

\* No session row outlives a change or reset of the password.
THEOREM ActiveIsCurrentAlways == SessionsSpec => []ActiveIsCurrent
<1>1. SessionsInv => ActiveIsCurrent
  BY DEF SessionsInv, SessionRowsOK, RowOK, ActiveIsCurrent, Active
<1> QED
  BY <1>1, SessionsInvariant, PTL

\* A row that lapsed at a past time has reached its end, or accepted its last
\* request long enough ago.
LEMMA LapsedLongAgo ==
  ASSUME SessionsInv, NEW s \in Active, NEW now \in Time, now <= clock, Lapsed(s, now)
  PROVE  \/ session[s].expires <= clock
         \/ session[s].accepted + IdleTtl < clock + TouchInterval
<1>1. s \in SessionIds /\ session[s] \in Session /\ session[s].status = "active"
  BY DEF Active, SessionsInv, SessionsTypeOK
<1>2. session[s].accepted < session[s].seen + TouchInterval
  BY <1>1 DEF SessionsInv, SessionRowsOK, RowOK
<1>3. /\ session[s].expires \in Nat /\ session[s].seen \in Nat /\ session[s].accepted \in Nat
      /\ clock \in Nat /\ now \in Nat /\ IdleTtl \in Nat /\ TouchInterval \in Nat
  BY <1>1, SessionConstants DEF Session, SessionsInv, SessionsTypeOK, Time
<1> QED
  BY <1>2, <1>3 DEF Lapsed

\* Only current_auth and list_user_sessions expire a row, and only one that
\* lapsed at the time they work with.
LEMMA ExpiryIsDue ==
  ASSUME SessionsInv, SessionsNext
  PROVE  ExpiryStep
<1> SUFFICES ASSUME NEW s \in SessionIds, s \in Active, session'[s].status = "expired"
             PROVE  \/ session[s].expires <= clock
                    \/ session[s].accepted + IdleTtl < clock + TouchInterval
  BY DEF ExpiryStep, Active
<1>1. session \in [SessionIds -> Session] /\ session[s].status = "active"
  BY DEF SessionsInv, SessionsTypeOK, Active
<1>2. ASSUME NEW x \in SessionIds, NEW t, NEW spent, NEW now, NEW old \in [SessionIds -> Session],
             old[s].status # "expired",
             session' = [old EXCEPT ![x] = NewSession(t, spent, now)]
      PROVE  FALSE
  <2>1. NewSession(t, spent, now).status = "active"
    BY Zenon DEF NewSession
  <2> QED
    BY <1>2, <2>1
<1>3. /\ RevokeAll \in [SessionIds -> Session] /\ RevokeAll[s].status # "expired"
      /\ \A x \in SessionIds : Ended(x, "revoked").status # "expired"
  <2>1. \A x \in SessionIds : Ended(x, "revoked") \in Session
    BY EndedRow DEF SessionsInv
  <2>2. \A x \in SessionIds : Ended(x, "revoked").status = "revoked"
    BY Zenon DEF Ended, Unissued
  <2> QED
    BY <1>1, <2>1, <2>2 DEF RevokeAll
<1>4. ASSUME NEW r \in Requests, CurrentAuth(r)
      PROVE  req[r].session = s /\ Lapsed(s, req[r].now)
  <2>1. CASE req[r].session = s /\ ~Lapsed(s, req[r].now) /\ session[s].tenant \in members
    <3>1. session'[s] = [Touch(s, req[r].now) EXCEPT
                           !.accepted = IF @ < req[r].now THEN req[r].now ELSE @]
      BY <1>1, <1>4, <2>1 DEF CurrentAuth
    <3>2. Touch(s, req[r].now) \in Session /\ Touch(s, req[r].now).status = "active"
      <4>1. req[r].now \in Nat /\ session[s] \in Session
        BY <1>1, SessionConstants DEF SessionsInv, SessionsTypeOK, Request, Time
      <4> QED
        BY <1>1, <4>1 DEF Touch, Session
    <3> QED
      BY <3>1, <3>2 DEF Session
  <2>2. CASE req[r].session = s /\ ~Lapsed(s, req[r].now) /\ session[s].tenant \notin members
    BY <1>1, <1>4, <2>2 DEF CurrentAuth
  <2>3. CASE req[r].session # s
    BY <1>1, <1>4, <2>3 DEF CurrentAuth
  <2> QED
    BY <2>1, <2>2, <2>3
<1>5. ASSUME NEW r \in Requests, NEW now \in Time, ListSessions(r, now)
      PROVE  Lapsed(s, now) /\ now <= clock
  BY <1>1, <1>5 DEF ListSessions, Time, SessionsInv, SessionsTypeOK, Request
<1>6. ASSUME NEW r \in Requests, CurrentAuth(r) \/ \E now \in Time : ListSessions(r, now)
      PROVE  \E now \in Time : now <= clock /\ Lapsed(s, now)
  <2>1. req[r].now \in Time /\ req[r].now <= clock
    BY Zenon DEF SessionsInv, SessionsTypeOK, Request, RequestsOK
  <2> QED
    BY <1>4, <1>5, <1>6, <2>1, Zenon
<1>7. CASE \E r \in Requests : CurrentAuth(r) \/ \E now \in Time : ListSessions(r, now)
  BY <1>6, <1>7, LapsedLongAgo, Zenon
<1>8. ASSUME session' = session PROVE FALSE
  BY <1>1, <1>8
<1>9. CASE \/ Reset \/ Tick \/ \E t \in Tenants : Create(t) \/ Administer(t)
           \/ \E r \in Requests :
                \/ Authenticate(r) \/ IssueRefused(r) \/ Serve(r)
                \/ \E p \in 0 .. MaxPassword : \E t \in Tenants \cup {NoTenant} : StartLogin(r, p, t)
                \/ \E x \in SessionIds : Visit(r, x)
  BY <1>3, <1>8, <1>9, Zenon
  DEF Reset, Tick, Create, Administer, Authenticate, IssueRefused, Serve, StartLogin, Visit
<1>10. CASE \/ \E t \in Tenants, x \in SessionIds : Register(t, x)
            \/ \E r \in Requests, x \in SessionIds :
                 ChangePassword(r, x) \/ \E now \in Time : Issue(r, x, now)
  <2> HIDE DEF RevokeAll
  <2> QED
    BY <1>1, <1>2, <1>3, <1>10, Zenon DEF Register, Issue, ChangePassword
<1>11. CASE \E r \in Requests : Logout(r) \/ \E x \in SessionIds : RevokeOther(r, x)
  BY <1>1, <1>3, <1>11, Zenon DEF Logout, RevokeOther, Revoke, Active
<1> QED
  BY <1>7, <1>9, <1>10, <1>11, Zenon DEF SessionsNext, LoginStep, SessionStep

\* A session in use is not expired for idleness, in whatever order the
\* requests reach its row.
THEOREM UsedSessionsStayAlways == SessionsSpec => UsedSessionsStay
<1>1. SessionsInv /\ [SessionsNext]_sessionVars => [ExpiryStep]_sessionVars
  BY ExpiryIsDue
<1> QED
  BY <1>1, SessionsInvariant, PTL DEF SessionsSpec, UsedSessionsStay

-----------------------------------------------------------------------------
(* Artifacts. *)

\* What the rows say of storage: an object of a published row is never stored
\* again, since its writer is done.
RowsOK ==
  /\ ReadyIsStored /\ OneExecutionPublished /\ DeletedIsGone
  /\ \A o \in Objects : artifact[o] # "none" => writer[o[1]] = "done"

\* A cleaner works on an object that is not offered any more, and what it is about
\* to mark as deleted is gone.
CleanersOK ==
  /\ \A c \in Cleaners : cleaner[c].pc \in {"delete", "complete", "retry"} =>
       /\ cleaner[c].object \in Objects
       /\ artifact[cleaner[c].object] \in {"expired", "delete_pending", "deleted"}
  /\ \A c \in Cleaners : cleaner[c].pc = "complete" => cleaner[c].object \notin store

ArtifactsInv == ArtifactsTypeOK /\ RowsOK /\ CleanersOK

Job == [status : {"open", "succeeded", "failed"}, owner : Writers \cup {NoWriter}, deleted : BOOLEAN]

\* The updates of the job keep its type.
LEMMA JobUpdates ==
  ASSUME NEW j \in Job
  PROVE  /\ \A s \in {"succeeded", "failed"} : [j EXCEPT !.status = s, !.owner = NoWriter] \in Job
         /\ \A w \in Writers \cup {NoWriter} : [j EXCEPT !.owner = w] \in Job
         /\ [j EXCEPT !.deleted = TRUE] \in Job
<1>1. \A i \in Job, s \in {"succeeded", "failed"} : [i EXCEPT !.status = s] \in Job
  BY DEF Job
<1>2. \A i \in Job, w \in Writers \cup {NoWriter} : [i EXCEPT !.owner = w] \in Job
  BY DEF Job
<1>3. \A b \in BOOLEAN : [j EXCEPT !.deleted = b] \in Job
  BY DEF Job
<1>4. ASSUME NEW s \in {"succeeded", "failed"}
      PROVE  [j EXCEPT !.status = s, !.owner = NoWriter] \in Job
  <2> DEFINE i == [j EXCEPT !.status = s]
  <2>1. i \in Job
    BY <1>1, Zenon
  <2>2. [i EXCEPT !.owner = NoWriter] \in Job
    BY <1>2, <2>1, Zenon
  <2> QED
    BY <2>2
<1> QED
  BY <1>2, <1>3, <1>4, Zenon

\* Every step keeps the types of the artifacts and of their cleaners.
LEMMA ArtifactsTyped ==
  ASSUME ArtifactsInv, [Next]_vars
  PROVE  ArtifactsTypeOK'
<1> USE DEF ArtifactsTypeOK
<1>0. ArtifactsTypeOK /\ job \in Job /\ MaxErrors \in Nat
  BY ArtifactsAssumption DEF ArtifactsInv, Job
<1>1. ASSUME NEW w \in Writers, ClaimJob(w) PROVE ArtifactsTypeOK'
  BY <1>0, <1>1 DEF ClaimJob
<1>2. ASSUME NEW w \in Writers, Complete(w) PROVE ArtifactsTypeOK'
  <2>1. job' \in Job
    BY <1>0, <1>2, JobUpdates, Zenon DEF Complete
  <2>2. writer' \in [Writers -> {"waiting", "storing", "done"}]
    BY <1>0, <1>2 DEF Complete
  <2>3. artifact' \in [Objects -> RowStatus]
    BY <1>0, <1>2 DEF Complete, RowStatus
  <2>4. due = {}
    BY <1>0, <1>2 DEF Complete
  <2> QED
    BY <1>0, <1>2, <2>1, <2>2, <2>3, <2>4 DEF Complete, Job
<1>3. ASSUME NEW w \in Writers, WriterRaises(w) PROVE ArtifactsTypeOK'
  <2>1. job' \in Job
    BY <1>0, <1>3, JobUpdates, Zenon DEF WriterRaises
  <2> QED
    BY <1>0, <1>3, <2>1 DEF WriterRaises, Job
<1>4. ASSUME NEW w \in Writers, NEW p \in Parts, Put(w, p) PROVE ArtifactsTypeOK'
  BY <1>0, <1>4 DEF Put, Objects
<1>5. CASE LeaseLapses
  BY <1>0, <1>5 DEF LeaseLapses
<1>6. CASE SoftDelete
  <2>1. job' \in Job
    BY <1>0, <1>6, JobUpdates, Zenon DEF SoftDelete
  <2>2. artifact' \in [Objects -> RowStatus]
    BY <1>0, <1>6 DEF SoftDelete, RowStatus
  <2>3. due' \subseteq {o \in Objects : artifact'[o] \in {"expired", "delete_pending"}}
    BY <1>0, <1>6 DEF SoftDelete
  <2> QED
    BY <1>0, <1>6, <2>1, <2>2, <2>3 DEF SoftDelete, Job
<1>7. ASSUME NEW c \in Cleaners, NEW o \in Objects, ClaimRow(c, o) PROVE ArtifactsTypeOK'
  BY <1>0, <1>7 DEF ClaimRow, RowStatus
<1>8. ASSUME NEW c \in Cleaners, DeleteObject(c) PROVE ArtifactsTypeOK'
  BY <1>0, <1>8 DEF DeleteObject
<1>9. ASSUME NEW c \in Cleaners, DeleteRaises(c) PROVE ArtifactsTypeOK'
  BY <1>0, <1>9 DEF DeleteRaises, Fault
<1>10. ASSUME NEW c \in Cleaners, CompleteDeletion(c) PROVE ArtifactsTypeOK'
  BY <1>0, <1>10 DEF CompleteDeletion, RowStatus, ArtifactsInv, CleanersOK
<1>11. ASSUME NEW c \in Cleaners, Retry(c) PROVE ArtifactsTypeOK'
  BY <1>0, <1>11 DEF Retry, RowStatus, ArtifactsInv, CleanersOK
<1>12. ASSUME NEW c \in Cleaners, CleanerCrash(c) PROVE ArtifactsTypeOK'
  BY <1>0, <1>12 DEF CleanerCrash, Fault
<1>13. ASSUME NEW c \in Cleaners, Restart(c) PROVE ArtifactsTypeOK'
  BY <1>0, <1>13 DEF Restart
<1>14. ASSUME NEW o \in Objects, DeletionDue(o) PROVE ArtifactsTypeOK'
  BY <1>0, <1>14 DEF DeletionDue
<1>15. CASE UNCHANGED vars
  BY <1>0, <1>15 DEF vars
<1> QED
  BY <1>1, <1>2, <1>3, <1>4, <1>5, <1>6, <1>7, <1>8, <1>9, <1>10, <1>11, <1>12, <1>13, <1>14,
     <1>15, Zenon DEF Next

\* Executions of the job publish only what they stored, once.
LEMMA WritersKeep ==
  ASSUME ArtifactsInv,
         \E w \in Writers : \/ ClaimJob(w) \/ Complete(w) \/ WriterRaises(w)
                            \/ \E p \in Parts : Put(w, p)
  PROVE  RowsOK' /\ CleanersOK'
<1>0. ArtifactsTypeOK /\ RowsOK /\ CleanersOK
  BY DEF ArtifactsInv
<1>1. PICK w \in Writers : \/ ClaimJob(w) \/ Complete(w) \/ WriterRaises(w)
                           \/ \E p \in Parts : Put(w, p)
  OBVIOUS
<1>2. writer \in [Writers -> {"waiting", "storing", "done"}] /\ artifact \in [Objects -> RowStatus]
  BY <1>0 DEF ArtifactsTypeOK
<1>3. \A o \in Objects : o[1] \in Writers /\ o[2] \in Parts /\ o = <<o[1], o[2]>>
  BY DEF Objects
<1>4. CASE ClaimJob(w) \/ WriterRaises(w)
  <2>1. UNCHANGED <<store, artifact, cleaner>> /\ writer[w] # "done"
    BY <1>4 DEF ClaimJob, WriterRaises
  <2>2. \A v \in Writers : writer[v] = "done" => writer'[v] = "done"
    BY <1>2, <1>4 DEF ClaimJob, WriterRaises
  <2> QED
    BY <1>0, <1>3, <2>1, <2>2, Zenon
    DEF RowsOK, CleanersOK, ReadyIsStored, OneExecutionPublished, DeletedIsGone
<1>5. CASE Complete(w)
  <2>1. /\ UNCHANGED <<store, cleaner>> /\ writer[w] = "storing"
        /\ \A p \in Parts : <<w, p>> \in store
        /\ \A o \in Objects : artifact[o] = "none"
        /\ artifact' = [o \in Objects |-> IF o[1] = w THEN "ready" ELSE artifact[o]]
        /\ writer' = [writer EXCEPT ![w] = "done"]
    BY <1>5 DEF Complete
  <2>2. \A o \in Objects : \/ o[1] = w /\ artifact'[o] = "ready"
                           \/ o[1] # w /\ artifact'[o] = "none"
    BY <2>1, Zenon
  <2>3. \A o \in Objects : o[1] = w => o \in store
    BY <1>3, <2>1, Zenon
  <2>4. writer'[w] = "done"
    BY <1>2, <2>1
  <2>5. \A c \in Cleaners : cleaner[c].pc \notin {"delete", "complete", "retry"}
    BY <1>0, <2>1 DEF CleanersOK
  <2>6. CleanersOK'
    BY <2>1, <2>5 DEF CleanersOK
  <2>7. ReadyIsStored' /\ DeletedIsGone'
    BY <2>1, <2>2, <2>3 DEF ReadyIsStored, DeletedIsGone
  <2>8. OneExecutionPublished' /\ \A o \in Objects : artifact'[o] # "none" => writer'[o[1]] = "done"
    BY <2>2, <2>4, Zenon DEF OneExecutionPublished
  <2> QED
    BY <2>6, <2>7, <2>8, Zenon DEF RowsOK
<1>6. ASSUME NEW p \in Parts, Put(w, p) PROVE RowsOK' /\ CleanersOK'
  <2>1. UNCHANGED <<writer, artifact, cleaner>> /\ store' = store \cup {<<w, p>>}
    BY <1>6 DEF Put
  <2>2. <<w, p>> \in Objects /\ artifact[<<w, p>>] = "none"
    <3>1. <<w, p>> \in Objects /\ <<w, p>>[1] = w
      BY DEF Objects
    <3>2. writer[w] # "done"
      BY <1>6 DEF Put
    <3> QED
      BY <1>0, <3>1, <3>2, Zenon DEF RowsOK
  <2>3. CleanersOK'
    BY <1>0, <2>1, <2>2 DEF CleanersOK
  <2>4. ReadyIsStored' /\ DeletedIsGone'
    BY <1>0, <2>1, <2>2 DEF RowsOK, ReadyIsStored, DeletedIsGone
  <2> QED
    BY <1>0, <2>1, <2>3, <2>4, Zenon DEF RowsOK, OneExecutionPublished
<1> QED
  BY <1>1, <1>4, <1>5, <1>6, Zenon

\* A cleaner removes only what is not offered, and marks only what is gone.
LEMMA CleanersKeep ==
  ASSUME ArtifactsInv, NEW c \in Cleaners,
         \/ \E o \in Objects : ClaimRow(c, o)
         \/ DeleteObject(c) \/ DeleteRaises(c) \/ CompleteDeletion(c) \/ Retry(c)
         \/ CleanerCrash(c) \/ Restart(c)
  PROVE  RowsOK' /\ CleanersOK'
<1>0. ArtifactsTypeOK /\ RowsOK /\ CleanersOK
  BY DEF ArtifactsInv
<1>1. /\ artifact \in [Objects -> RowStatus]
      /\ cleaner \in [Cleaners -> [pc : {"claim", "delete", "complete", "retry", "down"},
                                   object : Objects \cup {NoObject}]]
  BY <1>0 DEF ArtifactsTypeOK
<1>2. ASSUME NEW o \in Objects, ClaimRow(c, o) PROVE RowsOK' /\ CleanersOK'
  <2>1. /\ UNCHANGED <<writer, store>> /\ artifact[o] \in {"expired", "delete_pending"}
        /\ artifact' = [artifact EXCEPT ![o] = "delete_pending"]
        /\ cleaner' = [cleaner EXCEPT ![c] = [pc |-> "delete", object |-> o]]
    BY <1>2 DEF ClaimRow
  <2>2. artifact'[o] = "delete_pending" /\ \A x \in Objects : x # o => artifact'[x] = artifact[x]
    BY <1>1, <2>1
  <2>3. /\ cleaner'[c].pc = "delete" /\ cleaner'[c].object = o
        /\ \A d \in Cleaners : d # c => cleaner'[d] = cleaner[d]
    BY <1>1, <2>1
  <2>4. CleanersOK'
    BY <1>0, <2>1, <2>2, <2>3 DEF CleanersOK
  <2>5. RowsOK'
    <3>1. ReadyIsStored' /\ DeletedIsGone'
      BY <1>0, <2>1, <2>2 DEF RowsOK, ReadyIsStored, DeletedIsGone
    <3>2. \A x \in Objects : artifact'[x] # "none" => artifact[x] # "none"
      BY <2>1, <2>2
    <3> QED
      BY <1>0, <2>1, <3>1, <3>2, Zenon DEF RowsOK, OneExecutionPublished
  <2> QED
    BY <2>4, <2>5
<1>3. CASE DeleteObject(c) \/ DeleteRaises(c)
  <2> DEFINE o == cleaner[c].object
  <2>1. /\ UNCHANGED <<writer, artifact>> /\ cleaner[c].pc = "delete"
        /\ \/ store' = store \ {o} /\ cleaner' = [cleaner EXCEPT ![c].pc = "complete"]
           \/ store' \in {store, store \ {o}} /\ cleaner' = [cleaner EXCEPT ![c].pc = "retry"]
    BY <1>3 DEF DeleteObject, DeleteRaises
  <2>2. o \in Objects /\ artifact[o] \in {"expired", "delete_pending", "deleted"}
    BY <1>0, <2>1 DEF CleanersOK
  <2>3. store' \subseteq store /\ \A x \in store : x # o => x \in store'
    BY <2>1
  <2>4. /\ cleaner'[c].object = o
        /\ \/ cleaner'[c].pc = "complete" /\ o \notin store'
           \/ cleaner'[c].pc = "retry"
        /\ \A d \in Cleaners : d # c => cleaner'[d] = cleaner[d]
    BY <1>1, <2>1
  <2>5. CleanersOK'
    BY <1>0, <2>1, <2>2, <2>3, <2>4 DEF CleanersOK
  <2>6. ReadyIsStored' /\ DeletedIsGone'
    BY <1>0, <2>1, <2>2, <2>3 DEF RowsOK, ReadyIsStored, DeletedIsGone
  <2> QED
    BY <1>0, <2>1, <2>5, <2>6, Zenon DEF RowsOK, OneExecutionPublished
<1>4. CASE CompleteDeletion(c) \/ Retry(c)
  <2> DEFINE o == cleaner[c].object
  <2>1. /\ UNCHANGED <<writer, store>> /\ cleaner[c].pc \in {"complete", "retry"}
        /\ \/ cleaner' = [cleaner EXCEPT ![c] = [pc |-> "claim", object |-> NoObject]]
           \/ cleaner' = [cleaner EXCEPT ![c] = [pc |-> "down", object |-> NoObject]]
        /\ \/ cleaner[c].pc = "complete" /\ artifact' = [artifact EXCEPT ![o] = "deleted"]
           \/ artifact' = [artifact EXCEPT ![o] = "expired"] /\ artifact[o] = "delete_pending"
           \/ artifact' = artifact
    BY <1>4 DEF CompleteDeletion, Retry
  <2>2. /\ o \in Objects /\ artifact[o] \in {"expired", "delete_pending", "deleted"}
        /\ cleaner[c].pc = "complete" => o \notin store
    BY <1>0, <2>1 DEF CleanersOK
  <2>3. /\ \A x \in Objects : x # o => artifact'[x] = artifact[x]
        /\ artifact'[o] \in {"expired", "delete_pending", "deleted"}
        /\ artifact'[o] = "deleted" => o \notin store
    <3>1. artifact[o] = "deleted" => o \notin store
      BY <1>0, <2>2, Zenon DEF RowsOK, DeletedIsGone
    <3> QED
      BY <1>1, <2>1, <2>2, <3>1
  <2>4. /\ cleaner'[c].pc \in {"claim", "down"}
        /\ \A d \in Cleaners : d # c => cleaner'[d] = cleaner[d]
    BY <1>1, <2>1
  <2>5. CleanersOK'
    BY <1>0, <2>1, <2>3, <2>4 DEF CleanersOK
  <2>6. ReadyIsStored' /\ DeletedIsGone'
    BY <1>0, <2>1, <2>3, Zenon DEF RowsOK, ReadyIsStored, DeletedIsGone
  <2>7. \A x \in Objects : artifact'[x] # "none" => artifact[x] # "none"
    BY <2>2, <2>3, Zenon
  <2> QED
    BY <1>0, <2>1, <2>5, <2>6, <2>7, Zenon DEF RowsOK, OneExecutionPublished
<1>5. CASE CleanerCrash(c) \/ Restart(c)
  <2>1. UNCHANGED <<writer, store, artifact>>
    BY <1>5 DEF CleanerCrash, Restart
  <2>2. /\ cleaner'[c].pc \in {"claim", "down"}
        /\ \A d \in Cleaners : d # c => cleaner'[d] = cleaner[d]
    BY <1>1, <1>5 DEF CleanerCrash, Restart
  <2>3. CleanersOK'
    BY <1>0, <2>1, <2>2, Zenon DEF CleanersOK
  <2> QED
    BY <1>0, <2>1, <2>3, Zenon DEF RowsOK, ReadyIsStored, OneExecutionPublished, DeletedIsGone
<1> QED
  BY <1>2, <1>3, <1>4, <1>5, Zenon

\* Every step keeps the invariant of the artifacts.
LEMMA ArtifactsStep == ArtifactsInv /\ [Next]_vars => ArtifactsInv'
<1> SUFFICES ASSUME ArtifactsInv, [Next]_vars PROVE RowsOK' /\ CleanersOK'
  BY ArtifactsTyped, Zenon DEF ArtifactsInv
<1>0. ArtifactsTypeOK /\ RowsOK /\ CleanersOK
  BY DEF ArtifactsInv
<1>1. CASE LeaseLapses \/ (\E o \in Objects : DeletionDue(o)) \/ UNCHANGED vars
  <2>1. UNCHANGED <<writer, store, artifact, cleaner>>
    BY <1>1 DEF LeaseLapses, DeletionDue, vars
  <2> QED
    BY <1>0, <2>1, Zenon
    DEF RowsOK, CleanersOK, ReadyIsStored, OneExecutionPublished, DeletedIsGone
<1>2. CASE SoftDelete
  <2>1. /\ UNCHANGED <<writer, store, cleaner>>
        /\ artifact' = [o \in Objects |-> IF artifact[o] = "ready" THEN "expired" ELSE artifact[o]]
    BY <1>2 DEF SoftDelete
  <2>2. \A o \in Objects : \/ artifact'[o] = artifact[o] /\ artifact[o] # "ready"
                           \/ artifact'[o] = "expired" /\ artifact[o] = "ready"
    BY <2>1
  <2>3. CleanersOK'
    BY <1>0, <2>1, <2>2 DEF CleanersOK
  <2>4. ReadyIsStored' /\ DeletedIsGone'
    BY <1>0, <2>1, <2>2 DEF RowsOK, ReadyIsStored, DeletedIsGone
  <2>5. \A o \in Objects : artifact'[o] # "none" => artifact[o] # "none"
    BY <2>2
  <2> QED
    BY <1>0, <2>1, <2>3, <2>4, <2>5, Zenon DEF RowsOK, OneExecutionPublished
<1> QED
  BY <1>1, <1>2, WritersKeep, CleanersKeep, Zenon DEF Next

\* The inductive invariant of the artifacts.
THEOREM ArtifactsInvariant == Spec => []ArtifactsInv
<1>1. Init => ArtifactsInv
  <2> SUFFICES ASSUME Init PROVE ArtifactsInv
    OBVIOUS
  <2>1. ArtifactsTypeOK
    <3>1. job \in Job
      BY DEF Init, Job
    <3> QED
      BY <3>1, ArtifactsAssumption DEF Init, ArtifactsTypeOK, RowStatus, Job
  <2>2. (\A o \in Objects : artifact[o] = "none") /\ \A c \in Cleaners : cleaner[c].pc = "claim"
    BY DEF Init
  <2>3. RowsOK
    BY <2>2 DEF RowsOK, ReadyIsStored, OneExecutionPublished, DeletedIsGone
  <2>4. CleanersOK
    BY <2>2 DEF CleanersOK
  <2> QED
    BY <2>1, <2>3, <2>4 DEF ArtifactsInv
<1> QED
  BY <1>1, ArtifactsStep, PTL DEF Spec

\* What the API offers for download is in storage.
THEOREM ReadyIsStoredHolds == Spec => []ReadyIsStored
<1>1. ArtifactsInv => ReadyIsStored
  BY DEF ArtifactsInv, RowsOK
<1> QED
  BY <1>1, ArtifactsInvariant, PTL

\* The artifacts of a job come from one execution.
THEOREM OneExecutionPublishedHolds == Spec => []OneExecutionPublished
<1>1. ArtifactsInv => OneExecutionPublished
  BY DEF ArtifactsInv, RowsOK
<1> QED
  BY <1>1, ArtifactsInvariant, PTL

\* A row says deleted only when the object is gone.
THEOREM DeletedIsGoneHolds == Spec => []DeletedIsGone
<1>1. ArtifactsInv => DeletedIsGone
  BY DEF ArtifactsInv, RowsOK
<1> QED
  BY <1>1, ArtifactsInvariant, PTL

=============================================================================
