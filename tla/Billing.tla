------------------------------- MODULE Billing -------------------------------
(***************************************************************************)
(* One tenant wallet, the reservations ("holds") taken against it and its  *)
(* append-only ledger: app/billing/service.py and app/billing/state.py.    *)
(*                                                                         *)
(* Every operation of SqlAlchemyBillingService is one short transaction    *)
(* that locks the wallet row and then the reservation row, so every        *)
(* operation is one action.  A call that raises, and a replay that answers *)
(* idempotently, change nothing: their result is given by CaptureOutcome   *)
(* and ReleaseOutcome, which callers use to decide what to do next.        *)
(*                                                                         *)
(* Abstractions: one tenant and one currency; a hold's expires_at is the   *)
(* flag "lapsed", raised at any moment by the passing of time; ledger rows *)
(* are unique per (reservation, suffix), so the ledger maps a reservation  *)
(* to the amounts of its three possible rows, 0 standing for "no row" (a   *)
(* row's amount is positive); wallet.version only counts mutations.        *)
(***************************************************************************)
EXTENDS Integers, FiniteSets

CONSTANTS
  Sources,    \* business sources: generation jobs or chat requests
  Amounts,    \* hold amounts a price may ask for
  Charges,    \* charges that usage may come to
  Grants,     \* amounts an operator may credit
  MaxCredit   \* bound: total ever credited to the wallet

ASSUME SourcesAssumption == IsFiniteSet(Sources)
ASSUME AmountsAssumption == Amounts \subseteq Nat \ {0}
ASSUME ChargesAssumption == Charges \subseteq Nat
ASSUME GrantsAssumption  == Grants \subseteq Nat \ {0}
ASSUME MaxCreditAssumption == MaxCredit \in Nat

VARIABLES
  walletStatus,  \* wallet_accounts.status: active or frozen
  balance,       \* wallet_accounts.balance_minor
  reserved,      \* wallet_accounts.reserved_minor
  resv,          \* balance_reservations, one row per source
  ledger,        \* ledger_entries of each reservation
  credited       \* sum of the "credit" ledger rows

billingVars == <<walletStatus, balance, reserved, resv, ledger, credited>>

NoAmount == -1

ReservationStatus == {"none", "pending", "committed", "released"}

Settled == {"committed", "released"}

Reservation == [status : ReservationStatus, amount : Nat,
                lapsed : BOOLEAN, captured : Nat \cup {NoAmount}]

NoReservation == [status |-> "none", amount |-> 0,
                  lapsed |-> FALSE, captured |-> NoAmount]

LedgerRows == [hold : Nat, debit : Nat, release : Nat]

NoRows == [hold |-> 0, debit |-> 0, release |-> 0]

BillingInit ==
  /\ walletStatus = "active"
  /\ balance = 0
  /\ reserved = 0
  /\ resv = [s \in Sources |-> NoReservation]
  /\ ledger = [s \in Sources |-> NoRows]
  /\ credited = 0

-----------------------------------------------------------------------------
(* Outcomes of a call, in the order in which the code tests for them. *)

CaptureOutcome(s, c) ==
  LET r == resv[s] IN
  CASE r.status = "none"                        -> "NOT_FOUND"
    [] r.status = "pending" /\ r.lapsed         -> "RESERVATION_EXPIRED"
    [] r.status = "committed" /\ r.captured = c -> "idempotent"
    [] r.status = "committed" /\ r.captured # c -> "CAPTURE_CONFLICT"
    [] r.status = "released"                    -> "CAPTURE_CONFLICT"
    [] r.status = "pending" /\ ~r.lapsed /\ c > r.amount -> "CAPTURE_AMOUNT_EXCEEDED"
    [] OTHER ->
         IF walletStatus # "active" THEN "WALLET_UNAVAILABLE"
         ELSE IF reserved < r.amount \/ balance < c THEN "INVARIANT"
         ELSE "captured"

\* Mutant: a released hold is released again.
ReleaseOutcomeRepeats(s) ==
  IF resv[s].status \in {"none", "committed"} THEN "NOT_FOUND"
  ELSE IF reserved < resv[s].amount THEN "INVARIANT" ELSE "released"

ReleaseOutcome(s) ==
  LET r == resv[s] IN
  CASE r.status = "none"      -> "NOT_FOUND"
    [] r.status = "released"  -> "idempotent"
    [] r.status = "committed" -> "RELEASE_CONFLICT"
    [] OTHER -> IF reserved < r.amount THEN "INVARIANT" ELSE "released"

-----------------------------------------------------------------------------
(* Mutations. *)

\* _reserve_in_transaction: the hold is taken from what is available.
Hold(s, a) ==
  /\ resv[s].status = "none"
  /\ walletStatus = "active"
  /\ a <= balance - reserved
  /\ resv' = [resv EXCEPT ![s] = [status |-> "pending", amount |-> a,
                                  lapsed |-> FALSE, captured |-> NoAmount]]
  /\ reserved' = reserved + a
  /\ ledger' = [ledger EXCEPT ![s].hold = a]
  /\ UNCHANGED <<walletStatus, balance, credited>>

\* capture: the charge is debited and the rest of the hold is released.
Capture(s, c) ==
  /\ CaptureOutcome(s, c) = "captured"
  /\ reserved' = reserved - resv[s].amount
  /\ balance' = balance - c
  /\ resv' = [resv EXCEPT ![s] = [@ EXCEPT !.status = "committed", !.captured = c]]
  /\ ledger' = [ledger EXCEPT ![s] = [@ EXCEPT !.debit = c, !.release = resv[s].amount - c]]
  /\ UNCHANGED <<walletStatus, credited>>

\* release: neither the deadline nor the status of the wallet matters.
Release(s) ==
  /\ ReleaseOutcome(s) = "released"
  /\ reserved' = reserved - resv[s].amount
  /\ resv' = [resv EXCEPT ![s].status = "released"]
  /\ ledger' = [ledger EXCEPT ![s].release = resv[s].amount]
  /\ UNCHANGED <<walletStatus, balance, credited>>

\* expires_at <= now becomes true of a pending hold.
HoldLapses(s) ==
  /\ resv[s].status = "pending"
  /\ ~resv[s].lapsed
  /\ resv' = [resv EXCEPT ![s].lapsed = TRUE]
  /\ UNCHANGED <<walletStatus, balance, reserved, ledger, credited>>

\* An operator credits the wallet.
Grant(g) ==
  /\ walletStatus = "active"
  /\ credited + g <= MaxCredit
  /\ balance' = balance + g
  /\ credited' = credited + g
  /\ UNCHANGED <<walletStatus, reserved, resv, ledger>>

\* No code writes wallet_accounts.status; database administration does.
SetWalletStatus(st) ==
  /\ walletStatus # st
  /\ walletStatus' = st
  /\ UNCHANGED <<balance, reserved, resv, ledger, credited>>

BillingNext ==
  \/ \E s \in Sources : \E a \in Amounts : Hold(s, a)
  \/ \E s \in Sources : \E c \in Charges : Capture(s, c)
  \/ \E s \in Sources : Release(s)
  \/ \E s \in Sources : HoldLapses(s)
  \/ \E g \in Grants : Grant(g)
  \/ \E st \in {"active", "frozen"} : SetWalletStatus(st)

BillingSpec == BillingInit /\ [][BillingNext]_billingVars

-----------------------------------------------------------------------------
(* Sums over the sources.  A sum of natural numbers f[s] is the number of  *)
(* pairs <<s, i>> with i in 1..f[s].                                       *)

Units(f) == UNION {{s} \X (1 .. f[s]) : s \in Sources}

Total(f) == Cardinality(Units(f))

PendingAmount(rs) == [s \in Sources |-> IF rs[s].status = "pending" THEN rs[s].amount ELSE 0]

Debited(ls) == [s \in Sources |-> ls[s].debit]

-----------------------------------------------------------------------------
(* Properties. *)

\* Types of the wallet, the reservations and the ledger.
BillingTypeOK ==
  /\ walletStatus \in {"active", "frozen"}
  /\ balance \in Int
  /\ reserved \in Int
  /\ resv \in [Sources -> Reservation]
  /\ ledger \in [Sources -> LedgerRows]
  /\ credited \in Nat

\* The wallet's reserved projection, which reserve, capture and release
\* update one delta at a time, is exactly the sum of the pending holds.
ReservedIsSumOfHolds == reserved = Total(PendingAmount(resv))

\* The balance is what was credited less what the ledger debits: no capture
\* is lost or counted twice by the balance projection.
BalanceIsCreditsLessDebits == balance = credited - Total(Debited(ledger))

\* The check constraint ck_wallet_accounts_balances_valid is never what stops
\* an update: holds never exceed the balance, however calls interleave.
HoldsAreFunded == 0 <= reserved /\ reserved <= balance

\* The ledger alone determines the state of each hold: a pending hold has its
\* hold row only, a settled one has debit and release rows that exhaust it.
LedgerMatches(r, l) ==
  /\ r.status = "none" => l.hold = 0 /\ l.debit = 0 /\ l.release = 0
  /\ r.status # "none" => l.hold = r.amount
  /\ r.status = "pending" => l.debit = 0 /\ l.release = 0
  /\ r.status = "committed" => l.debit = r.captured /\ l.release = r.amount - r.captured
  /\ r.status = "released" => l.debit = 0 /\ l.release = r.amount

LedgerExplainsHolds == \A s \in Sources : LedgerMatches(resv[s], ledger[s])

\* The guards that raise BillingInvariantError in capture and release (the
\* projection too small for a hold it should contain) never fire.
InvariantErrorUnreachable ==
  \A s \in Sources : /\ ReleaseOutcome(s) # "INVARIANT"
                     /\ \A c \in Charges : CaptureOutcome(s, c) # "INVARIANT"

\* A settled hold is immutable: once committed or released, neither the row
\* nor its ledger entries change, whatever is retried or races.
SettlementStep ==
  \A s \in Sources : resv[s].status \in Settled =>
     /\ resv'[s] = resv[s]
     /\ ledger'[s] = ledger[s]

SettlementIsFinal == [][SettlementStep]_billingVars

=============================================================================
