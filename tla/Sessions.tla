------------------------------ MODULE Sessions ------------------------------
(***************************************************************************)
(* Accounts and sessions: registration and login (app/auth/service.py over *)
(* app/auth/repository.py), the session check every endpoint depends on    *)
(* (app/auth/dependencies.py), password change, logout, session listing    *)
(* and revocation (app/api/auth.py), and the operator's create and reset   *)
(* commands (scripts/operator_accounts.py).                                *)
(*                                                                         *)
(* A database transaction is one action.  A request keeps in req what it   *)
(* carries from one to the next: above all the "now" that the service      *)
(* reads before the transaction gets its row locks.                        *)
(*                                                                         *)
(* Abstractions: one account; a password is the number of the change that  *)
(* set it (0: a wrong one); cookies, CSRF tokens, audit rows and rehashing *)
(* are left out, and the login limiter may refuse or fail at any time.     *)
(* Memberships, which no code changes after creation, are administered     *)
(* from outside.  A row that ended keeps no times.                         *)
(***************************************************************************)
EXTENDS Naturals

CONSTANTS
  Tenants,        \* the workspaces of the account
  NoTenant,       \* a login that names no workspace
  Requests,       \* API requests in progress
  SessionIds,     \* bound: auth_sessions rows
  NoSession,
  SessionTtl, IdleTtl, TouchInterval,       \* settings.session_*
  CredentialTtl,                            \* ONE_TIME_CREDENTIAL_TTL
  MaxFailed, Lockout,                       \* auth_max_failed_login_attempts, auth_lockout_seconds
  MaxPassword,    \* bound: passwords set
  MaxTime         \* bound: clock

ASSUME SessionConstants ==
  /\ NoTenant \notin Tenants
  /\ NoSession \notin SessionIds
  /\ {SessionTtl, IdleTtl, TouchInterval, CredentialTtl, Lockout, MaxFailed} \subseteq Nat \ {0}
  /\ MaxPassword \in Nat /\ MaxTime \in Nat
  /\ TouchInterval < IdleTtl

VARIABLES
  clock,
  account,   \* the users row
  members,   \* tenants that are active and where the account's membership is
  session,   \* auth_sessions
  req        \* what each API request is about to do

sessionVars == <<clock, account, members, session, req>>

Time == 0 .. MaxTime
Never == 0    \* NULL in locked_until, credential_expires_at

\* users: password 0 is an account that does not exist yet.
Account == [password : 0 .. MaxPassword, restricted : BOOLEAN, expires : Nat,
            used : BOOLEAN, failed : Nat, locked : Nat]

\* A password is set: with an expiry it is a one-time credential.
Credential(p, restricted, expires) ==
  [password |-> p, restricted |-> restricted, expires |-> expires, used |-> FALSE,
   failed |-> 0, locked |-> Never]

NoAccount == Credential(0, FALSE, Never)

\* auth_sessions.  The last three fields are history: the password the account
\* had when the row was written, whether a one-time credential was spent on it,
\* and the time of its last accepted request.
Session == [status : {"none", "active", "revoked", "expired"},
            tenant : Tenants \cup {NoTenant}, expires : Nat, seen : Nat,
            password : 0 .. MaxPassword, spent : BOOLEAN, accepted : Nat]

Unissued == [status |-> "none", tenant |-> NoTenant, expires |-> 0, seen |-> 0,
             password |-> 0, spent |-> FALSE, accepted |-> 0]

Request == [pc : {"idle", "authenticate", "issue", "visit", "serve"},
            now : Time, password : 0 .. MaxPassword, tenant : Tenants \cup {NoTenant},
            restricted : BOOLEAN, session : SessionIds \cup {NoSession}]

Idle == [pc |-> "idle", now |-> 0, password |-> 0, tenant |-> NoTenant,
         restricted |-> FALSE, session |-> NoSession]

SessionsInit ==
  /\ clock = 0
  /\ account = NoAccount
  /\ members = {}
  /\ session = [s \in SessionIds |-> Unissued]
  /\ req = [r \in Requests |-> Idle]

Exists == account.password # 0
Leave(r) == req' = [req EXCEPT ![r] = Idle]
Active == {s \in SessionIds : session[s].status = "active"}

-----------------------------------------------------------------------------
(* Rows. *)

\* The credential check, made by authenticate and again, under the row lock,
\* by _create_session_in_transaction.
Spendable(now) ==
  /\ account.restricted
  /\ account.expires > now
  /\ ~account.used

\* _create_session_in_transaction, from its insert on, at the time it read.
NewSession(t, spent, now) ==
  [status |-> "active", tenant |-> t, expires |-> now + SessionTtl, seen |-> now,
   password |-> account'.password, spent |-> spent, accepted |-> now]

\* A row that is no longer active.
Ended(s, status) == [Unissued EXCEPT !.status = status, !.password = session[s].password,
                                     !.spent = session[s].spent]

\* The row lapsed at time now, as current_auth and list_user_sessions test it.
Lapsed(s, now) == session[s].expires <= now \/ session[s].seen + IdleTtl <= now

\* change_password and reset: every active session of the account, whatever
\* its workspace.
RevokeAll == [s \in SessionIds |-> IF s \in Active THEN Ended(s, "revoked") ELSE session[s]]

-----------------------------------------------------------------------------
(* Accounts. *)

\* register: user, tenant, membership, wallet, entitlements and a session in
\* one transaction; a taken address or slug undoes all of it.
Register(t, s) ==
  /\ ~Exists /\ MaxPassword > 0
  /\ session[s].status = "none"
  /\ account' = Credential(1, FALSE, Never)
  /\ members' = {t}
  /\ session' = [session EXCEPT ![s] = NewSession(t, FALSE, clock)]
  /\ UNCHANGED <<clock, req>>

\* operator_accounts.create: an account that must change its credential.
Create(t) ==
  /\ ~Exists /\ MaxPassword > 0
  /\ account' = Credential(1, TRUE, clock + CredentialTtl)
  /\ members' = {t}
  /\ UNCHANGED <<clock, session, req>>

\* operator_accounts.reset: a new one-time credential; every session revoked.
Reset ==
  /\ Exists /\ account.password < MaxPassword
  /\ members # {}
  /\ account' = Credential(account.password + 1, TRUE, clock + CredentialTtl)
  /\ session' = RevokeAll
  /\ UNCHANGED <<clock, members, req>>

\* Memberships and tenant status are changed by database administration.
Administer(t) ==
  /\ Exists
  /\ members' = (members \ {t}) \cup ({t} \ members)
  /\ UNCHANGED <<clock, account, session, req>>

Tick ==
  /\ clock < MaxTime
  /\ clock' = clock + 1
  /\ UNCHANGED <<account, members, session, req>>

-----------------------------------------------------------------------------
(* Login. *)

\* A login that the limiter admitted reads the time; it carries the account's
\* present password or a wrong one, and names a workspace or none (a wrong
\* password is refused before the workspace is looked at).
StartLogin(r, p, t) ==
  /\ req[r].pc = "idle"
  /\ p \in {0, account.password}
  /\ p = 0 => t = NoTenant
  /\ req' = [req EXCEPT ![r] = [Idle EXCEPT !.pc = "authenticate", !.password = p,
                                            !.tenant = t, !.now = clock]]
  /\ UNCHANGED <<clock, account, members, session>>

\* The workspaces a login selects: the named one, or all of them.
Selected(t) == IF t = NoTenant THEN members ELSE members \cap {t}

\* authenticate, under the lock of the users row, at the time read before it.
Refuse(r, a) == account' = a /\ Leave(r)

Authenticate(r) ==
  LET now  == req[r].now
      open == IF account.locked # Never /\ account.locked <= now
              THEN [account EXCEPT !.locked = Never, !.failed = 0] ELSE account
      tries == open.failed + 1
  IN
  /\ req[r].pc = "authenticate"
  /\ \/ ~Exists /\ Refuse(r, account)
     \/ Exists /\ open.locked # Never /\ Refuse(r, account)
     \/ /\ Exists /\ open.locked = Never
        /\ req[r].password # account.password
        /\ Refuse(r, [open EXCEPT !.failed = tries,
                                  !.locked = IF tries >= MaxFailed THEN now + Lockout ELSE Never])
     \/ /\ Exists /\ open.locked = Never
        /\ req[r].password = account.password
        /\ \/ (\A t \in Tenants : Selected(req[r].tenant) # {t}) /\ Refuse(r, open)
           \/ \E t \in Tenants :
                /\ Selected(req[r].tenant) = {t}
                /\ \/ account.restricted /\ ~Spendable(now) /\ Refuse(r, open)
                   \/ /\ account.restricted => Spendable(now)
                      /\ account' = [open EXCEPT !.failed = 0]
                      /\ req' = [req EXCEPT ![r] =
                                   [Idle EXCEPT !.pc = "issue", !.tenant = t, !.now = clock,
                                                !.restricted = account.restricted]]
  /\ UNCHANGED <<clock, members, session>>

\* Mutant: the credential is not spent again under the row lock.
IssueUnchecked(r, s, now) ==
  /\ req[r].pc = "issue"
  /\ now \in req[r].now .. clock
  /\ session[s].status = "none"
  /\ account' = [account EXCEPT !.used = @ \/ req[r].restricted]
  /\ session' = [session EXCEPT ![s] = NewSession(req[r].tenant, req[r].restricted, now)]
  /\ Leave(r)
  /\ UNCHANGED <<clock, members>>

\* create_session, a transaction of its own.  A one-time credential is checked
\* again and spent, under the lock of the users row and at a time read before
\* it; another login does not read the account again (the foreign key of the
\* row it inserts only makes it wait for a change of the account under way).
Issue(r, s, now) ==
  /\ req[r].pc = "issue"
  /\ now \in req[r].now .. clock
  /\ session[s].status = "none"
  /\ req[r].restricted => Spendable(now)
  /\ account' = [account EXCEPT !.used = @ \/ req[r].restricted]
  /\ session' = [session EXCEPT ![s] = NewSession(req[r].tenant, req[r].restricted, now)]
  /\ Leave(r)
  /\ UNCHANGED <<clock, members>>

\* OneTimeCredentialUnavailable, or the limiter fails to give back the budget
\* of the account and address: no session is issued.
IssueRefused(r) ==
  /\ req[r].pc = "issue"
  /\ Leave(r)
  /\ UNCHANGED <<clock, account, members, session>>

-----------------------------------------------------------------------------
(* Requests of a session. *)

\* A request arrives with a session cookie; the service reads the time.
Visit(r, s) ==
  /\ req[r].pc = "idle"
  /\ session[s].status # "none"
  /\ req' = [req EXCEPT ![r] = [Idle EXCEPT !.pc = "visit", !.session = s, !.now = clock]]
  /\ UNCHANGED <<clock, account, members, session>>

\* Mutant: last_seen_at is written only once it is about to lapse.
TouchLate(s, now) ==
  IF session[s].seen + IdleTtl <= now THEN [session[s] EXCEPT !.seen = now] ELSE session[s]

\* last_seen_at is written once it is TouchInterval old.
Touch(s, now) ==
  IF session[s].seen + TouchInterval <= now THEN [session[s] EXCEPT !.seen = now]
  ELSE session[s]

\* current_auth, at the time read before the row lock.
CurrentAuth(r) ==
  LET s   == req[r].session
      now == req[r].now
      row == Touch(s, now)
      ok  == s \in Active /\ ~Lapsed(s, now) /\ session[s].tenant \in members
  IN
  /\ req[r].pc = "visit"
  /\ IF ok
     THEN /\ session' = [session EXCEPT ![s] =
                           [row EXCEPT !.accepted = IF @ < now THEN now ELSE @]]
          /\ req' = [req EXCEPT ![r] = [@ EXCEPT !.pc = "serve", !.tenant = session[s].tenant,
                                                 !.restricted = account.restricted]]
     ELSE /\ session' = IF s \in Active /\ Lapsed(s, now)
                        THEN [session EXCEPT ![s] = Ended(s, "expired")] ELSE session
          /\ Leave(r)
  /\ UNCHANGED <<clock, account, members>>

\* Any other endpoint, and every refusal of the ones below.
Serve(r) ==
  /\ req[r].pc = "serve"
  /\ Leave(r)
  /\ UNCHANGED <<clock, account, members, session>>

\* Mutant: only the sessions of the request's workspace are revoked.
ChangePasswordHere(r, s) ==
  /\ req[r].pc = "serve"
  /\ req[r].session \in Active
  /\ session[s].status = "none"
  /\ account.password < MaxPassword
  /\ account' = Credential(account.password + 1, FALSE, Never)
  /\ session' = [x \in SessionIds |->
                   IF x = s THEN NewSession(req[r].tenant, FALSE, clock)
                   ELSE IF session[x].tenant = req[r].tenant THEN RevokeAll[x] ELSE session[x]]
  /\ Leave(r)
  /\ UNCHANGED <<clock, members>>

\* change_password with the right current password: the user and the session
\* are read again under their locks; every session goes and a new one comes.
ChangePassword(r, s) ==
  /\ req[r].pc = "serve"
  /\ req[r].session \in Active
  /\ session[s].status = "none"
  /\ account.password < MaxPassword
  /\ account' = Credential(account.password + 1, FALSE, Never)
  /\ session' = [RevokeAll EXCEPT ![s] = NewSession(req[r].tenant, FALSE, clock)]
  /\ Leave(r)
  /\ UNCHANGED <<clock, members>>

Revoke(s) == session' = [session EXCEPT ![s] = Ended(s, "revoked")]

\* logout: revoke_session by token, if it is still active.
Logout(r) ==
  /\ req[r].pc = "serve"
  /\ req[r].session \in Active
  /\ Revoke(req[r].session)
  /\ Leave(r)
  /\ UNCHANGED <<clock, account, members>>

\* revoke_other_session: another active session of the same workspace.
RevokeOther(r, s) ==
  /\ req[r].pc = "serve" /\ ~req[r].restricted
  /\ s # req[r].session
  /\ s \in Active /\ session[s].tenant = req[r].tenant
  /\ Revoke(s)
  /\ Leave(r)
  /\ UNCHANGED <<clock, account, members>>

\* list_user_sessions first expires the workspace's lapsed rows, at a time read
\* between the request's arrival and now.
ListSessions(r, now) ==
  LET lapsed == {s \in Active : session[s].tenant = req[r].tenant /\ Lapsed(s, now)} IN
  /\ req[r].pc = "serve" /\ ~req[r].restricted
  /\ now \in req[r].now .. clock
  /\ session' = [s \in SessionIds |-> IF s \in lapsed
                                      THEN Ended(s, "expired")
                                      ELSE session[s]]
  /\ Leave(r)
  /\ UNCHANGED <<clock, account, members>>

-----------------------------------------------------------------------------

LoginStep(r) ==
  \/ \E p \in 0 .. MaxPassword : \E t \in Tenants \cup {NoTenant} : StartLogin(r, p, t)
  \/ Authenticate(r)
  \/ \E s \in SessionIds, now \in Time : Issue(r, s, now)
  \/ IssueRefused(r)

SessionStep(r) ==
  \/ \E s \in SessionIds : Visit(r, s)
  \/ CurrentAuth(r)
  \/ Serve(r)
  \/ \E s \in SessionIds : ChangePassword(r, s)
  \/ Logout(r)
  \/ \E s \in SessionIds : RevokeOther(r, s)
  \/ \E now \in Time : ListSessions(r, now)

SessionsNext ==
  \/ \E t \in Tenants : \E s \in SessionIds : Register(t, s)
  \/ \E t \in Tenants : Create(t)
  \/ Reset
  \/ \E t \in Tenants : Administer(t)
  \/ Tick
  \/ \E r \in Requests : LoginStep(r) \/ SessionStep(r)

SessionsSpec == SessionsInit /\ [][SessionsNext]_sessionVars

-----------------------------------------------------------------------------
(* Properties. *)

\* Types of the rows and the requests.
SessionsTypeOK ==
  /\ clock \in Time
  /\ account \in Account
  /\ members \subseteq Tenants
  /\ session \in [SessionIds -> Session]
  /\ req \in [Requests -> Request]

\* A one-time credential opens one session.  authenticate and create_session
\* are two transactions: two logins may both pass the first, and the operator
\* may reset the credential between them.
CredentialUsedOnce ==
  \A s, t \in SessionIds :
    /\ session[s].spent /\ session[t].spent
    /\ session[s].password = session[t].password
    => s = t

\* A password change or an operator reset leaves no session row that was
\* written before it usable, in any workspace, whatever requests of those
\* sessions are on their way.
ActiveIsCurrent == \A s \in Active : session[s].password = account.password

\* A session in use is not expired for idleness: current_auth writes
\* last_seen_at only now and then, and requests may reach the row in another
\* order than they read their time, yet a row expires only at its end or
\* IdleTtl - TouchInterval after its last accepted request.
ExpiryStep ==
  \A s \in SessionIds :
    session[s].status = "active" /\ session'[s].status = "expired" =>
      \/ session[s].expires <= clock
      \/ session[s].accepted + IdleTtl < clock + TouchInterval

UsedSessionsStay == [][ExpiryStep]_sessionVars

=============================================================================
