-------------------------- MODULE GenerationProofs --------------------------
(***************************************************************************)
(* Proofs about the wallet, for every finite set of sources and every set  *)
(* of amounts, charges and grants, and about the generation workflow that  *)
(* uses it, for any number of jobs, workers, reconciliation loops and      *)
(* operators, and any number of faults.                                    *)
(***************************************************************************)
EXTENDS Generation, FiniteSetTheorems, TLAPS

-----------------------------------------------------------------------------
(* Sums over the sources. *)

\* The pairs counted by a sum form a finite set, so the sum is a number.
LEMMA TotalType ==
  ASSUME NEW f \in [Sources -> Nat]
  PROVE  IsFiniteSet(Units(f)) /\ Total(f) \in Nat
<1> DEFINE g == [s \in Sources |-> {s} \X (1 .. f[s])]
           T == {{s} \X (1 .. f[s]) : s \in Sources}
<1>1. g \in Surjection(Sources, T)
  BY Zenon DEF Surjection
<1>2. IsFiniteSet(T)
  BY <1>1, SourcesAssumption, FS_Surjection
<1>3. ASSUME NEW t \in T PROVE IsFiniteSet(t)
  <2>1. PICK s \in Sources : t = {s} \X (1 .. f[s])
    OBVIOUS
  <2>2. IsFiniteSet({s})
    BY FS_Singleton, Zenon
  <2>3. IsFiniteSet(1 .. f[s])
    <3>1. f[s] \in Int
      OBVIOUS
    <3> QED
      BY <3>1, FS_Interval
  <2> QED
    BY <2>1, <2>2, <2>3, FS_Product
<1>4. IsFiniteSet(Units(f))
  <2> HIDE DEF T
  <2>1. IsFiniteSet(UNION T)
    BY <1>2, <1>3, FS_UNION
  <2> QED
    BY <2>1 DEF Units, T
<1> QED
  BY <1>4, FS_CardinalityType DEF Total

\* A sum in which nothing is positive is zero.
LEMMA TotalZero ==
  ASSUME NEW f, \A s \in Sources : f[s] = 0
  PROVE  Total(f) = 0
<1>1. Units(f) = {}
  BY DEF Units
<1> QED
  BY <1>1, FS_EmptySet DEF Total

\* Changing one term changes the sum by the difference.
LEMMA TotalUpdate ==
  ASSUME NEW f \in [Sources -> Nat], NEW h \in [Sources -> Nat],
         NEW s \in Sources, \A t \in Sources \ {s} : h[t] = f[t]
  PROVE  Total(h) = Total(f) - f[s] + h[s]
<1> DEFINE Mine(e) == {s} \X (1 .. e[s])
           Rest == UNION {{t} \X (1 .. f[t]) : t \in Sources \ {s}}
<1>1. Units(f) = Rest \cup Mine(f) /\ Units(h) = Rest \cup Mine(h)
  BY DEF Units
<1>2. IsFiniteSet(Rest)
  <2>1. Rest \in SUBSET Units(f)
    BY <1>1
  <2> QED
    BY <2>1, TotalType, FS_Subset
<1>3. ASSUME NEW e \in [Sources -> Nat]
      PROVE  IsFiniteSet(Mine(e)) /\ Cardinality(Mine(e)) = e[s] /\ Rest \cap Mine(e) = {}
  <2>1. IsFiniteSet({s}) /\ Cardinality({s}) = 1
    BY FS_Singleton, Zenon
  <2>2. IsFiniteSet(1 .. e[s]) /\ Cardinality(1 .. e[s]) = e[s]
    BY FS_Interval
  <2>3. IsFiniteSet(Mine(e)) /\ Cardinality(Mine(e)) = 1 * e[s]
    BY <2>1, <2>2, FS_Product, ZenonT(30)
  <2>4. Rest \cap Mine(e) = {}
    OBVIOUS
  <2> QED
    BY <2>3, <2>4
<1>4. ASSUME NEW e \in [Sources -> Nat]
      PROVE  Cardinality(Rest \cup Mine(e)) = Cardinality(Rest) + e[s]
  <2> HIDE DEF Rest, Mine
  <2>1. Cardinality(Rest \cup Mine(e)) = Cardinality(Rest) + Cardinality(Mine(e)) - Cardinality({})
    BY <1>2, <1>3, FS_Union
  <2> QED
    BY <2>1, <1>2, <1>3, FS_EmptySet, FS_CardinalityType
<1>5. Cardinality(Rest) \in Nat
  BY <1>2, FS_CardinalityType
<1> HIDE DEF Rest, Mine
<1> QED
  BY <1>1, <1>4, <1>5 DEF Total

\* One term is at most the sum.
LEMMA TotalAtLeast ==
  ASSUME NEW f \in [Sources -> Nat], NEW s \in Sources
  PROVE  f[s] <= Total(f)
<1> DEFINE h == [f EXCEPT ![s] = 0]
<1>1. h \in [Sources -> Nat] /\ h[s] = 0 /\ \A t \in Sources \ {s} : h[t] = f[t]
  OBVIOUS
<1>2. Total(h) = Total(f) - f[s] + 0
  BY <1>1, TotalUpdate, Zenon
<1>3. Total(h) \in Nat /\ Total(f) \in Nat
  BY <1>1, TotalType, Zenon
<1> QED
  BY <1>2, <1>3

-----------------------------------------------------------------------------
(* The inductive invariant: the projections are the sums they stand for.   *)
(* HoldsAreFunded alone is not inductive, because a release subtracts one  *)
(* hold from a number that is only known to be non-negative; that the hold *)
(* is one of the terms of the sum is what keeps the difference a number.   *)

BillingInv ==
  /\ BillingTypeOK
  /\ ReservedIsSumOfHolds
  /\ BalanceIsCreditsLessDebits
  /\ HoldsAreFunded
  /\ LedgerExplainsHolds

\* Changing one reservation changes the sum of the pending holds by that
\* reservation's contribution.
LEMMA PendingUpdate ==
  ASSUME NEW rs \in [Sources -> Reservation], NEW qs \in [Sources -> Reservation],
         NEW s \in Sources, \A t \in Sources \ {s} : qs[t] = rs[t]
  PROVE  /\ Total(PendingAmount(rs)) \in Nat
         /\ PendingAmount(rs)[s] \in Nat
         /\ PendingAmount(rs)[s] <= Total(PendingAmount(rs))
         /\ Total(PendingAmount(qs))
              = Total(PendingAmount(rs)) - PendingAmount(rs)[s] + PendingAmount(qs)[s]
<1>1. PendingAmount(rs) \in [Sources -> Nat] /\ PendingAmount(qs) \in [Sources -> Nat]
  BY DEF PendingAmount, Reservation
<1>2. \A t \in Sources \ {s} : PendingAmount(qs)[t] = PendingAmount(rs)[t]
  BY DEF PendingAmount
<1> QED
  BY <1>1, <1>2, TotalUpdate, TotalType, TotalAtLeast

\* The same for the debits of the ledger.
LEMMA DebitedUpdate ==
  ASSUME NEW ls \in [Sources -> LedgerRows], NEW ms \in [Sources -> LedgerRows],
         NEW s \in Sources, \A t \in Sources \ {s} : ms[t].debit = ls[t].debit
  PROVE  /\ Total(Debited(ls)) \in Nat
         /\ Total(Debited(ms)) = Total(Debited(ls)) - ls[s].debit + ms[s].debit
<1>1. Debited(ls) \in [Sources -> Nat] /\ Debited(ms) \in [Sources -> Nat]
  BY DEF Debited, LedgerRows
<1>2. \A t \in Sources \ {s} : Debited(ms)[t] = Debited(ls)[t]
  BY DEF Debited
<1>3. Debited(ls)[s] = ls[s].debit /\ Debited(ms)[s] = ms[s].debit
  BY DEF Debited
<1>4. Total(Debited(ms)) = Total(Debited(ls)) - Debited(ls)[s] + Debited(ms)[s]
  BY <1>1, <1>2, TotalUpdate
<1> QED
  BY <1>1, <1>3, <1>4, TotalType

\* A new wallet has no hold and no ledger row: every sum is zero.
LEMMA InitEstablishesBillingInv == BillingInit => BillingInv
<1> SUFFICES ASSUME BillingInit PROVE BillingInv
  OBVIOUS
<1> USE DEF BillingInit
<1>1. BillingTypeOK
  BY DEF BillingTypeOK, Reservation, LedgerRows, NoReservation, NoRows, ReservationStatus, NoAmount
<1>2. \A s \in Sources : PendingAmount(resv)[s] = 0 /\ Debited(ledger)[s] = 0
  BY DEF PendingAmount, Debited, NoReservation, NoRows
<1>3. Total(PendingAmount(resv)) = 0 /\ Total(Debited(ledger)) = 0
  BY <1>2, TotalZero
<1>4. LedgerExplainsHolds
  BY DEF LedgerExplainsHolds, LedgerMatches, NoReservation, NoRows
<1> QED
  BY <1>1, <1>3, <1>4 DEF BillingInv, ReservedIsSumOfHolds, BalanceIsCreditsLessDebits, HoldsAreFunded

\* _reserve_in_transaction: a hold raises the projection by its amount and is
\* refused when the balance does not cover it.
LEMMA HoldPreservesBillingInv ==
  ASSUME BillingInv, NEW s \in Sources, NEW a \in Amounts, Hold(s, a)
  PROVE  BillingInv'
<1>1. a \in Nat
  BY AmountsAssumption
<1>2. BillingTypeOK'
  BY <1>1 DEF BillingInv, BillingTypeOK, Hold, Reservation, LedgerRows, ReservationStatus, NoAmount
<1>3. resv \in [Sources -> Reservation] /\ resv' \in [Sources -> Reservation]
      /\ ledger \in [Sources -> LedgerRows] /\ ledger' \in [Sources -> LedgerRows]
  BY <1>2 DEF BillingInv, BillingTypeOK
<1>4. /\ resv[s].status = "none"
      /\ resv'[s] = [status |-> "pending", amount |-> a, lapsed |-> FALSE, captured |-> NoAmount]
      /\ \A t \in Sources \ {s} : resv'[t] = resv[t] /\ ledger'[t] = ledger[t]
      /\ ledger'[s] = [ledger[s] EXCEPT !.hold = a]
  BY <1>3 DEF Hold
<1>5. Total(PendingAmount(resv')) = reserved + a
  <2>1. PendingAmount(resv)[s] = 0 /\ PendingAmount(resv')[s] = a
    BY <1>4 DEF PendingAmount
  <2> QED
    BY <1>1, <1>3, <1>4, <2>1, PendingUpdate DEF BillingInv, ReservedIsSumOfHolds
<1>6. Total(Debited(ledger')) = Total(Debited(ledger))
  <2>1. ledger'[s].debit = ledger[s].debit /\ ledger[s].debit \in Nat
    BY <1>3, <1>4 DEF LedgerRows
  <2>2. \A t \in Sources \ {s} : ledger'[t].debit = ledger[t].debit
    BY <1>4
  <2>3. /\ Total(Debited(ledger)) \in Nat
        /\ Total(Debited(ledger')) = Total(Debited(ledger)) - ledger[s].debit + ledger'[s].debit
    BY <1>3, <2>2, DebitedUpdate, Zenon
  <2> QED
    BY <2>1, <2>3
<1>7. LedgerExplainsHolds'
  <2>1. LedgerMatches(resv[s], ledger[s])
    BY DEF BillingInv, LedgerExplainsHolds
  <2>2. LedgerMatches(resv'[s], ledger'[s])
    BY <1>3, <1>4, <2>1 DEF LedgerMatches, LedgerRows
  <2>3. \A t \in Sources \ {s} : LedgerMatches(resv'[t], ledger'[t])
    BY <1>4 DEF BillingInv, LedgerExplainsHolds
  <2> QED
    BY <2>2, <2>3 DEF LedgerExplainsHolds
<1> QED
  BY <1>1, <1>2, <1>5, <1>6, <1>7
  DEF BillingInv, BillingTypeOK, ReservedIsSumOfHolds, BalanceIsCreditsLessDebits, HoldsAreFunded, Hold

\* capture: the whole hold leaves the projection, the charge leaves the balance,
\* and the two ledger rows account for both.
LEMMA CapturePreservesBillingInv ==
  ASSUME BillingInv, NEW s \in Sources, NEW c \in Charges, Capture(s, c)
  PROVE  BillingInv'
<1>1. c \in Nat
  BY ChargesAssumption
<1>2. /\ resv \in [Sources -> Reservation] /\ ledger \in [Sources -> LedgerRows]
      /\ balance \in Int /\ reserved \in Int /\ credited \in Nat
  BY DEF BillingInv, BillingTypeOK
<1>3. resv[s].status = "pending" /\ c <= resv[s].amount /\ resv[s].amount \in Nat
  <2>1. resv[s] \in Reservation
    BY <1>2
  <2>2. resv[s].status \in ReservationStatus /\ resv[s].amount \in Nat
    BY <2>1 DEF Reservation
  <2>3. CaptureOutcome(s, c) = "captured"
    BY DEF Capture
  <2> QED
    BY <1>1, <2>2, <2>3 DEF CaptureOutcome, ReservationStatus
<1>4. /\ resv'[s] = [status |-> "committed", amount |-> resv[s].amount,
                     lapsed |-> resv[s].lapsed, captured |-> c]
      /\ ledger'[s] = [hold |-> ledger[s].hold, debit |-> c, release |-> resv[s].amount - c]
      /\ \A t \in Sources \ {s} : resv'[t] = resv[t] /\ ledger'[t] = ledger[t]
      /\ DOMAIN resv' = Sources /\ DOMAIN ledger' = Sources
  BY <1>2, Zenon DEF Capture, Reservation, LedgerRows
<1>5. BillingTypeOK'
  <2>1. resv'[s] \in Reservation /\ ledger'[s] \in LedgerRows
    BY <1>1, <1>2, <1>3, <1>4 DEF Reservation, LedgerRows, ReservationStatus
  <2>2. resv' \in [Sources -> Reservation] /\ ledger' \in [Sources -> LedgerRows]
    BY <1>2, <1>4, <2>1 DEF Capture
  <2> QED
    BY <1>1, <1>2, <1>3, <2>2 DEF BillingInv, BillingTypeOK, Capture
<1>6. resv' \in [Sources -> Reservation] /\ ledger' \in [Sources -> LedgerRows]
  BY <1>5 DEF BillingTypeOK
<1>7. /\ Total(PendingAmount(resv')) = reserved - resv[s].amount
      /\ resv[s].amount <= reserved
  <2>1. PendingAmount(resv)[s] = resv[s].amount /\ PendingAmount(resv')[s] = 0
    BY <1>2, <1>3, <1>4 DEF PendingAmount, Reservation
  <2> QED
    BY <1>2, <1>3, <1>4, <1>6, <2>1, PendingUpdate DEF BillingInv, ReservedIsSumOfHolds
<1>8. Total(Debited(ledger')) = Total(Debited(ledger)) + c /\ Total(Debited(ledger)) \in Nat
  <2>1. ledger'[s].debit = c /\ ledger[s].debit = 0
    BY <1>2, <1>3, <1>4 DEF LedgerRows, BillingInv, LedgerExplainsHolds, LedgerMatches
  <2>2. \A t \in Sources \ {s} : ledger'[t].debit = ledger[t].debit
    BY <1>4
  <2>3. /\ Total(Debited(ledger)) \in Nat
        /\ Total(Debited(ledger')) = Total(Debited(ledger)) - ledger[s].debit + ledger'[s].debit
    BY <1>2, <1>6, <2>2, DebitedUpdate, Zenon
  <2> QED
    BY <1>1, <2>1, <2>3
<1>9. LedgerExplainsHolds'
  <2>1. ledger[s].hold = resv[s].amount
    BY <1>3 DEF BillingInv, LedgerExplainsHolds, LedgerMatches
  <2>2. LedgerMatches(resv'[s], ledger'[s])
    BY <1>4, <2>1 DEF LedgerMatches
  <2>3. \A t \in Sources \ {s} : LedgerMatches(resv'[t], ledger'[t])
    BY <1>4 DEF BillingInv, LedgerExplainsHolds
  <2> QED
    BY <2>2, <2>3 DEF LedgerExplainsHolds
<1> QED
  BY <1>1, <1>2, <1>3, <1>5, <1>7, <1>8, <1>9
  DEF BillingInv, ReservedIsSumOfHolds, BalanceIsCreditsLessDebits, HoldsAreFunded, Capture

\* release: the hold leaves the projection and the balance stays.
LEMMA ReleasePreservesBillingInv ==
  ASSUME BillingInv, NEW s \in Sources, Release(s)
  PROVE  BillingInv'
<1>1. /\ resv \in [Sources -> Reservation] /\ ledger \in [Sources -> LedgerRows]
      /\ balance \in Int /\ reserved \in Int /\ credited \in Nat
  BY DEF BillingInv, BillingTypeOK
<1>2. resv[s].status = "pending" /\ resv[s].amount \in Nat
  <2>1. resv[s].status \in ReservationStatus /\ resv[s].amount \in Nat
    BY <1>1 DEF Reservation
  <2> QED
    BY <2>1 DEF Release, ReleaseOutcome, ReservationStatus
<1>3. /\ resv'[s] = [resv[s] EXCEPT !.status = "released"]
      /\ \A t \in Sources \ {s} : resv'[t] = resv[t] /\ ledger'[t] = ledger[t]
      /\ ledger'[s] = [ledger[s] EXCEPT !.release = resv[s].amount]
  BY <1>1 DEF Release
<1>4. BillingTypeOK'
  BY <1>1, <1>2 DEF BillingInv, BillingTypeOK, Release, Reservation,
          LedgerRows, ReservationStatus, NoAmount
<1>5. resv' \in [Sources -> Reservation] /\ ledger' \in [Sources -> LedgerRows]
  BY <1>4 DEF BillingTypeOK
<1>6. /\ Total(PendingAmount(resv')) = reserved - resv[s].amount
      /\ resv[s].amount <= reserved
  <2>1. PendingAmount(resv)[s] = resv[s].amount /\ PendingAmount(resv')[s] = 0
    BY <1>1, <1>2, <1>3 DEF PendingAmount, Reservation
  <2> QED
    BY <1>1, <1>2, <1>3, <1>5, <2>1, PendingUpdate DEF BillingInv, ReservedIsSumOfHolds
<1>7. Total(Debited(ledger')) = Total(Debited(ledger)) /\ Total(Debited(ledger)) \in Nat
  <2>1. ledger'[s].debit = ledger[s].debit /\ ledger[s].debit \in Nat
    BY <1>1, <1>3 DEF LedgerRows
  <2>2. \A t \in Sources \ {s} : ledger'[t].debit = ledger[t].debit
    BY <1>3
  <2>3. /\ Total(Debited(ledger)) \in Nat
        /\ Total(Debited(ledger')) = Total(Debited(ledger)) - ledger[s].debit + ledger'[s].debit
    BY <1>1, <1>5, <2>2, DebitedUpdate, Zenon
  <2> QED
    BY <2>1, <2>3
<1>8. LedgerExplainsHolds'
  <2>1. ledger[s].hold = resv[s].amount /\ ledger[s].debit = 0
    BY <1>2 DEF BillingInv, LedgerExplainsHolds, LedgerMatches
  <2>2. LedgerMatches(resv'[s], ledger'[s])
    BY <1>1, <1>3, <2>1 DEF LedgerMatches, LedgerRows, Reservation
  <2>3. \A t \in Sources \ {s} : LedgerMatches(resv'[t], ledger'[t])
    BY <1>3 DEF BillingInv, LedgerExplainsHolds
  <2> QED
    BY <2>2, <2>3 DEF LedgerExplainsHolds
<1> QED
  BY <1>1, <1>2, <1>4, <1>6, <1>7, <1>8
  DEF BillingInv, ReservedIsSumOfHolds, BalanceIsCreditsLessDebits, HoldsAreFunded, Release

\* Every step of the wallet preserves the invariant.
LEMMA BillingStepPreservesInv ==
  BillingInv /\ [BillingNext]_billingVars => BillingInv'
<1> SUFFICES ASSUME BillingInv, [BillingNext]_billingVars PROVE BillingInv'
  OBVIOUS
<1> USE DEF BillingInv, BillingTypeOK, ReservedIsSumOfHolds, BalanceIsCreditsLessDebits,
            HoldsAreFunded
<1>1. CASE \E s \in Sources : \E a \in Amounts : Hold(s, a)
  BY <1>1, HoldPreservesBillingInv
<1>2. CASE \E s \in Sources : \E c \in Charges : Capture(s, c)
  BY <1>2, CapturePreservesBillingInv
<1>3. CASE \E s \in Sources : Release(s)
  BY <1>3, ReleasePreservesBillingInv
<1>4. ASSUME NEW s \in Sources, HoldLapses(s) PROVE BillingInv'
  <2>1. resv' \in [Sources -> Reservation]
    BY <1>4, Zenon DEF HoldLapses, Reservation
  <2>2. \A t \in Sources : /\ resv'[t].status = resv[t].status
                           /\ resv'[t].amount = resv[t].amount
                           /\ resv'[t].captured = resv[t].captured
    BY <1>4 DEF HoldLapses, Reservation
  <2>3. PendingAmount(resv') = PendingAmount(resv)
    BY <2>2 DEF PendingAmount
  <2>4. LedgerExplainsHolds'
    BY <1>4, <2>2 DEF HoldLapses, LedgerExplainsHolds, LedgerMatches
  <2> QED
    BY <1>4, <2>1, <2>3, <2>4 DEF HoldLapses
<1>5. ASSUME NEW g \in Grants, Grant(g) PROVE BillingInv'
  <2>1. g \in Nat
    BY GrantsAssumption
  <2>2. Total(Debited(ledger)) \in Int
    <3>1. Debited(ledger) \in [Sources -> Nat]
      BY DEF Debited, LedgerRows
    <3> QED
      BY <3>1, TotalType
  <2> QED
    BY <1>5, <2>1, <2>2 DEF Grant, LedgerExplainsHolds
<1>6. ASSUME NEW st \in {"active", "frozen"}, SetWalletStatus(st) PROVE BillingInv'
  BY <1>6 DEF SetWalletStatus, LedgerExplainsHolds
<1>7. CASE UNCHANGED billingVars
  BY <1>7 DEF billingVars, LedgerExplainsHolds
<1> QED
  BY <1>1, <1>2, <1>3, <1>4, <1>5, <1>6, <1>7 DEF BillingNext

\* The wallet always satisfies its inductive invariant.
THEOREM BillingInvariant == BillingSpec => []BillingInv
<1>1. BillingInit => BillingInv
  BY InitEstablishesBillingInv
<1>2. BillingInv /\ [BillingNext]_billingVars => BillingInv'
  BY BillingStepPreservesInv
<1> QED
  BY <1>1, <1>2, PTL DEF BillingSpec

-----------------------------------------------------------------------------
(* The results. *)

\* The reserved projection of the wallet is always the sum of its pending
\* holds, for any number of sources and any interleaving of operations.
THEOREM ReservedIsSumOfHoldsAlways == BillingSpec => []ReservedIsSumOfHolds
BY BillingInvariant, PTL DEF BillingInv

\* The balance projection always equals the credits less the debits.
THEOREM BalanceIsCreditsLessDebitsAlways == BillingSpec => []BalanceIsCreditsLessDebits
BY BillingInvariant, PTL DEF BillingInv

\* Holds are always funded, so the wallet's check constraint never fires.
THEOREM HoldsAreFundedAlways == BillingSpec => []HoldsAreFunded
BY BillingInvariant, PTL DEF BillingInv

\* The ledger always explains the state of every hold.
THEOREM LedgerExplainsHoldsAlways == BillingSpec => []LedgerExplainsHolds
BY BillingInvariant, PTL DEF BillingInv

\* A pending hold is a term of the sum that is the reserved projection, so
\* the projection covers it.
LEMMA InvExcludesInvariantError == BillingInv => InvariantErrorUnreachable
<1> SUFFICES ASSUME BillingInv, NEW s \in Sources
             PROVE  /\ ReleaseOutcome(s) # "INVARIANT"
                    /\ \A c \in Charges : CaptureOutcome(s, c) # "INVARIANT"
  BY DEF InvariantErrorUnreachable
<1>1. /\ resv \in [Sources -> Reservation] /\ balance \in Int /\ reserved \in Int
      /\ reserved <= balance
  BY DEF BillingInv, BillingTypeOK, HoldsAreFunded
<1>2. resv[s].status \in ReservationStatus /\ resv[s].amount \in Nat
  BY <1>1 DEF Reservation
<1>3. resv[s].status = "pending" => resv[s].amount <= reserved
  <2>1. PendingAmount(resv)[s] <= reserved
    BY <1>1, PendingUpdate DEF BillingInv, ReservedIsSumOfHolds
  <2> QED
    BY <2>1 DEF PendingAmount
<1>4. ReleaseOutcome(s) # "INVARIANT"
  BY <1>1, <1>2, <1>3 DEF ReleaseOutcome, ReservationStatus
<1>5. ASSUME NEW c \in Charges PROVE CaptureOutcome(s, c) # "INVARIANT"
  <2>1. c \in Nat
    BY ChargesAssumption
  <2> QED
    BY <1>1, <1>2, <1>3, <2>1 DEF CaptureOutcome, ReservationStatus
<1> QED
  BY <1>4, <1>5

\* BillingInvariantError is never raised by the projection guards of capture
\* and release.
THEOREM InvariantErrorNeverRaised == BillingSpec => []InvariantErrorUnreachable
BY BillingInvariant, InvExcludesInvariantError, PTL

\* A committed or released hold, and its ledger rows, never change again.
THEOREM SettlementIsFinalAlways == BillingSpec => SettlementIsFinal
<1>1. BillingInv /\ [BillingNext]_billingVars => [SettlementStep]_billingVars
  <2> SUFFICES ASSUME BillingInv, BillingNext, NEW t \in Sources, resv[t].status \in Settled
               PROVE  resv'[t] = resv[t] /\ ledger'[t] = ledger[t]
    BY DEF SettlementStep
  <2> USE DEF Settled
  <2>0. /\ resv \in [Sources -> Reservation] /\ ledger \in [Sources -> LedgerRows]
        /\ \A s \in Sources : resv[s].status \in ReservationStatus
    BY DEF BillingInv, BillingTypeOK, Reservation
  <2>1. ASSUME NEW s \in Sources, NEW a \in Amounts, Hold(s, a)
        PROVE  resv'[t] = resv[t] /\ ledger'[t] = ledger[t]
    BY <2>0, <2>1 DEF Hold
  <2>2. ASSUME NEW s \in Sources, NEW c \in Charges, Capture(s, c)
        PROVE  resv'[t] = resv[t] /\ ledger'[t] = ledger[t]
    <3>1. resv[s].status = "pending"
      BY <2>0, <2>2 DEF Capture, CaptureOutcome, ReservationStatus
    <3> QED
      BY <2>0, <2>2, <3>1 DEF Capture
  <2>3. ASSUME NEW s \in Sources, Release(s)
        PROVE  resv'[t] = resv[t] /\ ledger'[t] = ledger[t]
    <3>1. resv[s].status = "pending"
      BY <2>0, <2>3 DEF Release, ReleaseOutcome, ReservationStatus
    <3> QED
      BY <2>0, <2>3, <3>1 DEF Release
  <2>4. ASSUME NEW s \in Sources, HoldLapses(s)
        PROVE  resv'[t] = resv[t] /\ ledger'[t] = ledger[t]
    BY <2>0, <2>4 DEF HoldLapses
  <2> QED
    BY <2>1, <2>2, <2>3, <2>4 DEF BillingNext, Grant, SetWalletStatus
<1> QED
  BY <1>1, BillingInvariant, PTL DEF BillingSpec, SettlementIsFinal

-----------------------------------------------------------------------------
(* The worker's own copy of the status. *)

\* Every pc of a claimed job has a local status, "succeeded" only after
\* completion and a leased one before.
LEMMA LocalStatusFacts ==
  /\ DOMAIN LocalStatus = {"claimed", "beforeProvider", "admission", "requeue", "submit",
                           "provider", "recordTask", "await", "recordRequest",
                           "afterProvider", "run", "store", "beforeCapture", "complete",
                           "capture"}
  /\ \A pc \in DOMAIN LocalStatus \ {"capture"} : LocalStatus[pc] \in Leased
  /\ LocalStatus["capture"] = "succeeded"
  /\ LocalStatus["claimed"] = "reserved"
  /\ LocalStatus["requeue"] = "queued"
  /\ LocalStatus["submit"] = "queued"
  /\ LocalStatus["run"] = "submitted"
  /\ LocalStatus["store"] = "running"
  /\ LocalStatus["complete"] = "storing"
<1>1. DOMAIN LocalStatus = {"claimed", "beforeProvider", "admission", "requeue", "submit",
                           "provider", "recordTask", "await", "recordRequest",
                           "afterProvider", "run", "store", "beforeCapture", "complete",
                           "capture"}
  BY DEF LocalStatus
<1>2. \A pc \in DOMAIN LocalStatus \ {"capture"} : LocalStatus[pc] \in Leased
  BY <1>1 DEF LocalStatus, Leased
<1>3. /\ LocalStatus["capture"] = "succeeded"
  /\ LocalStatus["claimed"] = "reserved"
  /\ LocalStatus["requeue"] = "queued"
  /\ LocalStatus["submit"] = "queued"
  /\ LocalStatus["run"] = "submitted"
  /\ LocalStatus["store"] = "running"
  /\ LocalStatus["complete"] = "storing"
  BY DEF LocalStatus
<1> QED
  BY <1>1, <1>2, <1>3

-----------------------------------------------------------------------------
(* What a step does to the rows.  Every action changes a row in one of a   *)
(* few ways; the invariants below follow from these facts alone.           *)

\* Processes between jobs.
Resting == {"idle", "stalled", "select", "settle", "claim"}

\* Types, and that a process that handles a job names it.
ProcsOK ==
  /\ job \in [Sources -> JobRow]
  /\ proc \in [Procs -> ProcState]
  /\ \A w \in Workers : proc[w].pc \in WorkerPCs
  /\ \A p \in Reconcilers : proc[p].pc \in ReconcilerPCs
  /\ \A o \in Operators : proc[o].pc \in OperatorPCs
  /\ \A p \in Procs : proc[p].pc \notin Resting => proc[p].job \in Sources
  /\ \A p \in Procs : proc[p].pc \in Resting => proc[p].token = 0
  /\ \A p \in Procs : proc[p].pc = "fail" => proc[p].expected \in Leased

\* A row keeps its lease or loses its liveness, gives the lease up, or gets
\* a new fence after the old lease lapsed.
LeaseChange(r, s) ==
  \/ s.token = r.token /\ s.fence = r.fence /\ (s.live => r.live)
  \/ s.token = 0 /\ s.fence = r.fence /\ ~s.live
  \/ s.token = r.fence + 1 /\ s.fence = r.fence + 1

\* Usage is written once, with the status "succeeded".
UsageChange(r, s) ==
  /\ s.usage # r.usage => r.usage = NoAmount /\ s.usage \in Charges
  /\ r.status # "succeeded" /\ s.status = "succeeded" => s.usage \in Charges
  /\ r.status = "succeeded" => s.usage = r.usage

RowChange(r, s) ==
  /\ s \in JobRow
  /\ r.status \notin PreSubmission => s.status \notin PreSubmission
  /\ r.status \in Terminal => s.status = r.status
  /\ LeaseChange(r, s)
  /\ UsageChange(r, s)

RowsChange ==
  /\ job' \in [Sources -> JobRow]
  /\ \A j \in Sources : RowChange(job[j], job'[j])

\* A row that stays as it is satisfies every condition.
LEMMA SameRow ==
  ASSUME NEW r \in JobRow
  PROVE  RowChange(r, r)
BY DEF RowChange, LeaseChange, UsageChange, JobRow

\* A step that leaves the rows alone satisfies the conditions for each of them.
LEMMA RowUnchanged ==
  ASSUME ProcsOK, UNCHANGED job
  PROVE  RowsChange
BY SameRow DEF ProcsOK, RowsChange

\* When one row is replaced, only that row has to be looked at.
LEMMA OneRow ==
  ASSUME ProcsOK, NEW j \in Sources, NEW r, job' = [job EXCEPT ![j] = r],
         RowChange(job[j], r)
  PROVE  RowsChange
<1>1. job \in [Sources -> JobRow] /\ r \in JobRow
  BY DEF ProcsOK, RowChange
<1>2. job' \in [Sources -> JobRow] /\ job'[j] = r
  BY <1>1
<1>3. ASSUME NEW k \in Sources \ {j} PROVE RowChange(job[k], job'[k])
  <2>1. job'[k] = job[k] /\ job[k] \in JobRow
    BY <1>1
  <2> QED
    BY <2>1, SameRow
<1> QED
  BY <1>2, <1>3 DEF RowsChange

\* transition, from a status and to a target that keep submission one-way.
LEMMA TransitChange ==
  ASSUME NEW r \in JobRow, NEW target \in Statuses \ {"succeeded"},
         r.status \notin Terminal,
         r.status \in PreSubmission \/ target \notin PreSubmission
  PROVE  RowChange(r, Transit(r, target))
<1> DEFINE s == Transit(r, target)
<1>1. /\ s.status = target /\ s.fence = r.fence /\ s.usage = r.usage
      /\ s.token = IF target \in ClearsLease THEN 0 ELSE r.token
      /\ s.live = IF target \in ClearsLease THEN FALSE ELSE r.live
  BY DEF Transit, JobRow
<1>2. s \in JobRow
  BY Zenon DEF Transit, JobRow
<1>3. LeaseChange(r, s)
  BY <1>1 DEF LeaseChange
<1>4. UsageChange(r, s)
  BY <1>1 DEF UsageChange, Terminal
<1> QED
  BY <1>1, <1>2, <1>3, <1>4 DEF RowChange

\* complete.
LEMMA CompletedChange ==
  ASSUME NEW r \in JobRow, NEW c \in Charges, r.status = "storing", r.usage = NoAmount
  PROVE  RowChange(r, Completed(r, c))
BY ChargesAssumption, Zenon
DEF Completed, RowChange, LeaseChange, UsageChange, JobRow, Terminal, PreSubmission, Statuses, Leased

\* The stalled pass.
LEMMA UnstalledChange ==
  ASSUME NEW r \in JobRow, r.status \in Leased
  PROVE  RowChange(r, Unstalled(r))
BY Zenon DEF Unstalled, RowChange, LeaseChange, UsageChange, JobRow, Terminal, PreSubmission, Statuses, Leased

\* The worker's steps change rows in those ways.
LEMMA WorkerRows ==
  ASSUME ProcsOK, NEW w \in Workers, WorkerStep(w)
  PROVE  RowsChange
<1> USE DEF Procs
<1>1. /\ w \in Procs
      /\ proc[w].pc \in WorkerPCs
      /\ proc[w].pc \notin Resting => proc[w].job \in Sources
  BY Zenon DEF ProcsOK
<1>2. ASSUME NEW pc \in DOMAIN LocalStatus \ {"capture"}, NEW to \in Statuses \ {"succeeded"},
             NEW next, LocalStatus[pc] \in PreSubmission \/ to \notin PreSubmission,
             pc \notin {"beforeProvider", "provider", "await", "afterProvider", "beforeCapture"},
             Transition(w, pc, to, next)
      PROVE  RowsChange
  <2>1. proc[w].job \in Sources
    BY <1>1, <1>2, LocalStatusFacts DEF Transition, Resting
  <2>2. Row(w).status = LocalStatus[pc] /\ Row(w).status \in Leased
    BY <1>2, LocalStatusFacts DEF Transition, Matches
  <2>3. Row(w) \in JobRow
    BY <2>1 DEF ProcsOK, Row
  <2>4. RowChange(Row(w), Transit(Row(w), to))
    BY <1>2, <2>2, <2>3, TransitChange DEF Leased, Terminal
  <2> QED
    BY <1>2, <2>1, <2>4, OneRow, Zenon DEF Transition, SetRow, Row
<1>3. CASE Queue(w)
  BY <1>2, <1>3, LocalStatusFacts DEF Queue, Statuses, Leased, PreSubmission
<1>4. CASE Submit(w)
  BY <1>2, <1>4, LocalStatusFacts DEF Submit, Statuses, Leased, PreSubmission
<1>5. CASE Run(w)
  BY <1>2, <1>5, LocalStatusFacts DEF Run, Statuses, Leased, PreSubmission
<1>6. CASE Store(w)
  BY <1>2, <1>6, LocalStatusFacts DEF Store, Statuses, Leased, PreSubmission
<1>7. CASE Requeue(w)
  <2>1. proc[w].job \in Sources /\ Row(w).status = "queued"
    BY <1>1, <1>7, LocalStatusFacts, Zenon DEF Requeue, Resting, Matches
  <2>2. RowChange(Row(w), Transit(Row(w), "accepted"))
    BY <2>1, TransitChange DEF ProcsOK, Row, Statuses, Terminal, PreSubmission
  <2> QED
    BY <1>7, <2>1, <2>2, OneRow, Zenon DEF Requeue, SetRow, Row
<1>8. CASE RecordTask(w)
  <2>1. proc[w].job \in Sources
    BY <1>1, <1>8 DEF RecordTask, Resting
  <2>2. ASSUME NEW r \in JobRow PROVE RowChange(r, [r EXCEPT !.task = TRUE])
    BY Zenon DEF RowChange, LeaseChange, UsageChange, JobRow
  <2>3. RowChange(Row(w), [Row(w) EXCEPT !.task = TRUE])
    BY <2>1, <2>2 DEF ProcsOK, Row
  <2> QED
    BY <1>8, <2>1, <2>3, OneRow, Zenon DEF RecordTask, SetRow, Row
<1>9. CASE CompleteJob(w)
  <2>1. /\ proc[w].job \in Sources
        /\ Row(w).status = "storing"
        /\ Row(w).usage = NoAmount
    BY <1>1, <1>9, LocalStatusFacts, Zenon DEF CompleteJob, Resting, Matches
  <2>2. PICK c \in Charges \ {0} : SetRow(w, Completed(Row(w), c))
    BY <1>9, Zenon DEF CompleteJob
  <2>3. RowChange(Row(w), Completed(Row(w), c))
    BY <2>1, CompletedChange DEF ProcsOK, Row
  <2> QED
    BY <2>1, <2>2, <2>3, OneRow, Zenon DEF SetRow, Row
<1>10. CASE Fail(w)
  <2>1. proc[w].job \in Sources /\ proc[w].expected \in Leased
    BY <1>1, <1>10, Zenon DEF Fail, Resting, ProcsOK
  <2> DEFINE target == IF proc[w].unknown THEN "submitted_unknown" ELSE "failed"
  <2>2. CASE UNCHANGED job
    BY <2>2, RowUnchanged
  <2>3. CASE Row(w).status = proc[w].expected /\ SetRow(w, Transit(Row(w), target))
    <3>1. target \in Statuses \ {"succeeded"} /\ target \notin PreSubmission
      BY DEF Statuses, Terminal, PreSubmission
    <3>2. Row(w) \in JobRow /\ Row(w).status \notin Terminal
      BY <2>1, <2>3 DEF ProcsOK, Row, Leased, Terminal
    <3> HIDE DEF target
    <3>3. RowChange(Row(w), Transit(Row(w), target))
      BY <3>1, <3>2, TransitChange
    <3> QED
      BY <2>1, <2>3, <3>3, OneRow, Zenon DEF SetRow, Row
  <2> QED
    BY <1>10, <2>2, <2>3 DEF Fail
<1>11. CASE UNCHANGED job
  BY <1>11, RowUnchanged
<1> QED
  BY <1>3, <1>4, <1>5, <1>6, <1>7, <1>8, <1>9, <1>10, <1>11, Zenon
  DEF WorkerStep, EnsureLive, Admit, Saturate, PostAccepted, PostRefused, PostAnswerLost,
      AwaitVideo, AwaitTimesOut, RecordRequest, CaptureHold, Rejected, ReleaseHold

\* resolve_failed, whoever runs it.
LEMMA ResolveRows ==
  ASSUME ProcsOK, NEW p \in Procs, ResolveStep(p)
  PROVE  RowsChange
<1> DEFINE Failed(r) == [r EXCEPT !.status = "failed", !.observedFailed = TRUE,
                                  !.token = 0, !.live = FALSE]
           Closed(r) == [r EXCEPT !.recon = "resolved"]
<1>1. ASSUME NEW r \in JobRow, r.status = "submitted_unknown" PROVE RowChange(r, Failed(r))
  BY <1>1, Zenon DEF RowChange, LeaseChange, UsageChange, JobRow, Statuses, Terminal, PreSubmission
<1>2. ASSUME NEW r \in JobRow PROVE RowChange(r, Closed(r))
  BY DEF RowChange, LeaseChange, UsageChange, JobRow
<1>3. CASE MarkFailed(p)
  <2>1. proc[p].job \in Sources /\ Row(p) \in JobRow
    BY <1>3, Zenon DEF MarkFailed, Resting, ProcsOK, Row
  <2>2. CASE UNCHANGED job
    BY <2>2, RowUnchanged
  <2>3. CASE Row(p).status = "submitted_unknown" /\ SetRow(p, Failed(Row(p)))
    <3>1. RowChange(Row(p), Failed(Row(p)))
      BY <1>1, <2>1, <2>3, Zenon
    <3> QED
      BY <2>1, <2>3, <3>1, OneRow, Zenon DEF SetRow, Row
  <2> QED
    BY <1>3, <2>2, <2>3 DEF MarkFailed
<1>4. CASE ReleaseFailed(p)
  BY <1>4, RowUnchanged DEF ReleaseFailed
<1>5. CASE ResolveFailed(p)
  <2>1. proc[p].job \in Sources /\ Row(p) \in JobRow
    BY <1>5 DEF ResolveFailed, Resting, ProcsOK, Row
  <2>2. CASE UNCHANGED job
    BY <2>2, RowUnchanged
  <2>3. CASE SetRow(p, Closed(Row(p)))
    <3>1. RowChange(Row(p), Closed(Row(p)))
      BY <1>2, <2>1
    <3> QED
      BY <2>1, <2>3, <3>1, OneRow, Zenon DEF SetRow, Row
  <2> QED
    BY <1>5, <2>2, <2>3 DEF ResolveFailed
<1> QED
  BY <1>3, <1>4, <1>5 DEF ResolveStep

\* A new lease on a row that is not leased to anyone.
LEMMA NewLeaseChange ==
  ASSUME NEW r \in JobRow
  PROVE  /\ RowChange(r, [r EXCEPT !.live = TRUE, !.fence = r.fence + 1, !.token = r.fence + 1])
         /\ r.status = "accepted" =>
              RowChange(r, [r EXCEPT !.status = "reserved", !.live = TRUE,
                                     !.fence = r.fence + 1, !.token = r.fence + 1])
<1>1. r.fence + 1 \in Nat
  BY DEF JobRow
<1>2. RowChange(r, [r EXCEPT !.live = TRUE, !.fence = r.fence + 1, !.token = r.fence + 1])
  BY <1>1, Zenon DEF RowChange, LeaseChange, UsageChange, JobRow
<1>3. ASSUME r.status = "accepted"
      PROVE  RowChange(r, [r EXCEPT !.status = "reserved", !.live = TRUE,
                                    !.fence = r.fence + 1, !.token = r.fence + 1])
  BY <1>1, <1>3, Zenon
  DEF RowChange, LeaseChange, UsageChange, JobRow, Statuses, Leased, Terminal, PreSubmission
<1> QED
  BY <1>2, <1>3

\* The reconciliation loop's steps change rows in those ways.
LEMMA ReconcilerRows ==
  ASSUME ProcsOK, NEW p \in Reconcilers, ReconcilerStep(p)
  PROVE  RowsChange
<1>1. p \in Procs
  BY Zenon DEF Procs
<1>2. CASE ReconcileStalled(p)
  <2>1. ASSUME NEW j \in Sources PROVE RowChange(job[j], job'[j])
    <3>1. job[j] \in JobRow
      BY DEF ProcsOK
    <3>2. CASE job[j].status \in Leased /\ ~job[j].live
      BY <1>2, <3>1, <3>2, UnstalledChange DEF ReconcileStalled
    <3>3. CASE ~(job[j].status \in Leased /\ ~job[j].live)
      <4>1. job'[j] = job[j]
        BY <1>2, <3>3 DEF ReconcileStalled
      <4> QED
        BY <3>1, <4>1 DEF RowChange, LeaseChange, UsageChange
    <3> QED
      BY <3>2, <3>3
  <2>2. job' \in [Sources -> JobRow]
    BY <1>2, <2>1 DEF ReconcileStalled, RowChange
  <2> QED
    BY <2>1, <2>2 DEF RowsChange
<1>3. CASE MarkResolved(p)
  <2> DEFINE Closed(r) == [r EXCEPT !.recon = IF @ = "pending" THEN "resolved" ELSE @]
  <2>1. proc[p].job \in Sources /\ Row(p) \in JobRow
    BY <1>1, <1>3, Zenon DEF MarkResolved, Resting, ProcsOK, Row
  <2>2. ASSUME NEW r \in JobRow PROVE RowChange(r, Closed(r))
    BY DEF RowChange, LeaseChange, UsageChange, JobRow
  <2>3. SetRow(p, Closed(Row(p))) /\ RowChange(Row(p), Closed(Row(p)))
    BY <1>3, <2>1, <2>2 DEF MarkResolved
  <2> QED
    BY <2>1, <2>3, OneRow, Zenon DEF SetRow, Row
<1>4. ASSUME NEW j \in Sources, ClaimRecovery(p, j) PROVE RowsChange
  <2>1. job[j] \in JobRow
    BY DEF ProcsOK
  <2> QED
    BY <1>4, <2>1, NewLeaseChange, OneRow, Zenon DEF ClaimRecovery
<1>5. ASSUME NEW pc, NEW from \in {"submitted_unknown", "running"},
             NEW to \in {"running", "storing"}, NEW next, pc \notin Resting,
             RecoverTo(p, pc, from, to, next)
      PROVE  RowsChange
  <2>1. proc[p].job \in Sources /\ Row(p) \in JobRow
    BY <1>1, <1>5 DEF RecoverTo, ProcsOK, Row
  <2>2. CASE UNCHANGED job
    BY <2>2, RowUnchanged
  <2>3. CASE Row(p).status = from /\ SetRow(p, Transit(Row(p), to))
    <3>1. RowChange(Row(p), Transit(Row(p), to))
      BY <2>1, <2>3, TransitChange DEF Statuses, Leased, Terminal, PreSubmission
    <3> QED
      BY <2>1, <2>3, <3>1, OneRow, Zenon DEF SetRow, Row
  <2> QED
    BY <1>5, <2>2, <2>3 DEF RecoverTo
<1>6. CASE Recover(p) \/ RecoverStore(p)
  BY <1>5, <1>6 DEF Recover, RecoverStore, Resting
<1>7. CASE RecoverComplete(p)
  <2>1. proc[p].job \in Sources /\ Row(p) \in JobRow
    BY <1>1, <1>7 DEF RecoverComplete, Resting, ProcsOK, Row
  <2>2. CASE UNCHANGED job
    BY <2>2, RowUnchanged
  <2>3. ASSUME NEW c \in Charges, Row(p).status = "storing", Row(p).usage = NoAmount,
               SetRow(p, Completed(Row(p), c))
        PROVE  RowsChange
    BY <2>1, <2>3, CompletedChange, OneRow, Zenon DEF SetRow, Row
  <2> QED
    BY <1>7, <2>2, <2>3 DEF RecoverComplete
<1>8. CASE Abandon(p)
  <2> DEFINE Given(r) == [r EXCEPT !.token = 0, !.live = FALSE]
  <2>1. proc[p].job \in Sources /\ Row(p) \in JobRow
    BY <1>1, <1>8 DEF Abandon, Resting, ProcsOK, Row
  <2>2. ASSUME NEW r \in JobRow PROVE RowChange(r, Given(r))
    BY Zenon DEF RowChange, LeaseChange, UsageChange, JobRow
  <2>3. CASE UNCHANGED job
    BY <2>3, RowUnchanged
  <2>4. CASE SetRow(p, Given(Row(p)))
    <3>1. RowChange(Row(p), Given(Row(p)))
      BY <2>1, <2>2, Zenon
    <3> QED
      BY <2>1, <2>4, <3>1, OneRow, Zenon DEF SetRow, Row
  <2> QED
    BY <1>8, <2>3, <2>4 DEF Abandon
<1>9. CASE ResolveStep(p)
  BY <1>1, <1>9, ResolveRows
<1>10. CASE UNCHANGED job
  BY <1>10, RowUnchanged
<1> QED
  BY <1>2, <1>3, <1>4, <1>6, <1>7, <1>8, <1>9, <1>10, Zenon
  DEF ReconcilerStep, Select, SelectionDone, SettleSucceeded, SettleUnsuccessful,
      ReleaseExpired, NothingToRecover, PollTask, RecoverCapture

\* Every step changes rows in those ways.
LEMMA NextRows ==
  ASSUME ProcsOK, Next
  PROVE  RowsChange
<1>1. ASSUME NEW j \in Sources PROVE job[j] \in JobRow
  BY Zenon DEF ProcsOK
<1>2. ASSUME NEW j \in Sources, NEW a \in Amounts, Accept(j, a) PROVE RowsChange
  <2>1. ASSUME NEW r \in JobRow, r.status = "none"
        PROVE  RowChange(r, [r EXCEPT !.status = "accepted"])
    BY <2>1 DEF RowChange, LeaseChange, UsageChange, JobRow, Statuses, Terminal, PreSubmission
  <2> QED
    BY <1>1, <1>2, <2>1, OneRow, Zenon DEF Accept
<1>3. ASSUME NEW j \in Sources, Cancel(j) PROVE RowsChange
  <2>1. ASSUME NEW r \in JobRow, r.status = "accepted"
        PROVE  RowChange(r, [r EXCEPT !.status = "cancelled", !.recon = "not_required"])
    BY <2>1, Zenon DEF RowChange, LeaseChange, UsageChange, JobRow, Statuses, Terminal, PreSubmission
  <2> QED
    BY <1>1, <1>3, <2>1, OneRow, Zenon DEF Cancel
<1>4. ASSUME NEW j \in Sources, OrphanLeaseLapses(j) \/ HolderPauses(j) PROVE RowsChange
  <2>1. ASSUME NEW r \in JobRow PROVE RowChange(r, [r EXCEPT !.live = FALSE])
    BY Zenon DEF RowChange, LeaseChange, UsageChange, JobRow
  <2> QED
    BY <1>1, <1>4, <2>1, OneRow, Zenon DEF OrphanLeaseLapses, HolderPauses
<1>5. ASSUME NEW w \in Workers, NEW j \in Sources, Claim(w, j) PROVE RowsChange
  BY <1>1, <1>5, NewLeaseChange, OneRow, Zenon DEF Claim
<1>6. ASSUME NEW o \in Operators, ResolveStep(o) PROVE RowsChange
  BY <1>6, ResolveRows DEF Procs
<1>7. CASE UNCHANGED job
  BY <1>7, RowUnchanged
<1> QED
  BY <1>2, <1>3, <1>4, <1>5, <1>6, <1>7, WorkerRows, ReconcilerRows, Zenon
  DEF Next, ProviderFinishes, HoldExpires, Credit, genVars, WorkerError, ReconcilerError,
      OperatorStarts, Crash

-----------------------------------------------------------------------------
(* What a step does to the processes. *)

\* The program of a process.
Program(p) == IF p \in Workers THEN WorkerPCs
              ELSE IF p \in Reconcilers THEN ReconcilerPCs ELSE OperatorPCs

\* A process keeps its fence, drops it, or has just got a new one.
TokenChange(r, s) ==
  \/ s.job = r.job /\ s.token = r.token
  \/ s.token = 0
  \/ /\ s.job \in Sources
     /\ s.token = job[s.job].fence + 1
     /\ job'[s.job].fence = s.token

\* The provider is called only after "submitted" was written over "queued",
\* and a hold is captured only after the job succeeded.
Entry(r, s) ==
  /\ s.pc = "provider" =>
       \/ r.pc = "provider" /\ s.job = r.job
       \/ /\ s.job \in Sources
          /\ job[s.job].status = "queued"
          /\ job'[s.job].status = "submitted"
  /\ s.pc \in {"capture", "recoverCapture"} =>
       \/ r.pc \in {"capture", "recoverCapture"} /\ s.job = r.job
       \/ s.job \in Sources /\ job'[s.job].status = "succeeded"

ProcChange(q, r, s) ==
  /\ s \in ProcState
  /\ s.pc \in Program(q)
  /\ s.pc \notin Resting => s.job \in Sources
  /\ s.pc \in Resting => s.token = 0
  /\ s.pc = "fail" => s.expected \in Leased
  /\ TokenChange(r, s)
  /\ Entry(r, s)

ProcsChange ==
  /\ proc' \in [Procs -> ProcState]
  /\ \A q \in Procs : ProcChange(q, proc[q], proc'[q])
  /\ \A p, q \in Procs : proc'[p] # proc[p] /\ proc'[q] # proc[q] => p = q

\* A process that does nothing satisfies every condition.
LEMMA ProcUnchanged ==
  ASSUME ProcsOK, NEW q \in Procs
  PROVE  ProcChange(q, proc[q], proc[q])
BY Zenon DEF ProcsOK, ProcChange, Program, Procs, TokenChange, Entry

\* When one process moves, only that process has to be looked at.
LEMMA OneProc ==
  ASSUME ProcsOK, NEW p \in Procs, NEW s, proc' = [proc EXCEPT ![p] = s],
         ProcChange(p, proc[p], s)
  PROVE  ProcsChange
<1>1. proc' \in [Procs -> ProcState]
  BY DEF ProcsOK, ProcChange
<1>2. proc'[p] = s /\ \A q \in Procs \ {p} : proc'[q] = proc[q]
  BY DEF ProcsOK
<1>3. ASSUME NEW q \in Procs PROVE ProcChange(q, proc[q], proc'[q])
  BY <1>2, ProcUnchanged
<1> QED
  BY <1>1, <1>2, <1>3 DEF ProcsChange

\* A step of the environment moves no process.
LEMMA NoProc ==
  ASSUME ProcsOK, UNCHANGED proc
  PROVE  ProcsChange
<1>1. ASSUME NEW q \in Procs PROVE ProcChange(q, proc[q], proc'[q])
  BY ProcUnchanged
<1> QED
  BY <1>1 DEF ProcsChange, ProcsOK

\* Going on with the same job.
LEMMA GotoChange ==
  ASSUME ProcsOK, NEW p \in Procs, NEW pc \in Program(p), Goto(p, pc),
         pc \notin Resting => proc[p].job \in Sources,
         pc \in Resting => proc[p].pc \in Resting,
         pc \notin {"fail", "provider", "capture", "recoverCapture"}
  PROVE  ProcsChange
<1>1. proc[p] \in ProcState /\ (proc[p].pc \in Resting => proc[p].token = 0)
  BY DEF ProcsOK
<1>2. pc \in WorkerPCs \cup ReconcilerPCs
  BY DEF Program, WorkerPCs, ReconcilerPCs, OperatorPCs
<1>3. ProcChange(p, proc[p], [proc[p] EXCEPT !.pc = pc])
  BY <1>1, <1>2 DEF ProcChange, ProcState, TokenChange, Entry
<1>4. proc' = [proc EXCEPT ![p] = [proc[p] EXCEPT !.pc = pc]]
  BY DEF Goto, ProcsOK
<1> QED
  BY <1>3, <1>4, OneProc, Zenon

\* Going back to a state without a job.
LEMMA AtChange ==
  ASSUME ProcsOK, NEW p \in Procs, NEW pc \in Program(p), pc \in Resting,
         proc' = [proc EXCEPT ![p] = At(pc)]
  PROVE  ProcsChange
<1>1. pc \in WorkerPCs \cup ReconcilerPCs
  BY DEF Program, WorkerPCs, ReconcilerPCs, OperatorPCs
<1>2. ProcChange(p, proc[p], At(pc))
  BY <1>1 DEF ProcChange, ProcState, TokenChange, Entry, At, Resting, Statuses
<1> QED
  BY <1>2, OneProc, Zenon

\* A process that ends its round returns to the start of its own loop.
LEMMA DoneChange ==
  ASSUME ProcsOK, NEW p \in Procs, Done(p)
  PROVE  ProcsChange
<1>1. Home(p) \in Program(p) /\ Home(p) \in Resting
  BY ProcsAssumption DEF Home, Program, Procs, WorkerPCs, ReconcilerPCs, OperatorPCs, Resting
<1> QED
  BY <1>1, AtChange, Zenon DEF Done

\* The except clauses of _execute_claimed only send the worker to _fail.
LEMMA RaiseChange ==
  ASSUME ProcsOK, NEW w \in Workers, NEW uncertain \in BOOLEAN, Raise(w, uncertain),
         proc[w].pc \in DOMAIN LocalStatus
  PROVE  ProcsChange
<1> DEFINE local == LocalStatus[proc[w].pc]
           s == [proc[w] EXCEPT !.pc = "fail", !.expected = local,
                                !.unknown = (local = "submitted" /\ uncertain)]
<1>1. w \in Procs /\ proc[w] \in ProcState /\ proc[w].job \in Sources
  BY LocalStatusFacts DEF Procs, ProcsOK, Resting
<1>2. CASE local = "succeeded"
  <2>1. proc' = [proc EXCEPT ![w] = At("idle")]
    BY <1>2 DEF Raise
  <2> QED
    BY <1>1, <2>1, AtChange, Zenon DEF Program, WorkerPCs, Resting
<1>3. CASE local # "succeeded"
  <2>1. local \in Leased
    BY <1>3, LocalStatusFacts, Zenon
  <2>2. proc' = [proc EXCEPT ![w] = s]
    BY <1>3 DEF Raise, ProcsOK
  <2> HIDE DEF local
  <2>3. ProcChange(w, proc[w], s)
    BY <1>1, <2>1, Zenon
    DEF ProcChange, ProcState, Program, WorkerPCs, TokenChange, Entry, Statuses, Resting
  <2> QED
    BY <1>1, <2>2, <2>3, OneProc, Zenon
<1> QED
  BY <1>2, <1>3

\* The worker's steps move it in those ways.
LEMMA WorkerProcs ==
  ASSUME ProcsOK, NEW w \in Workers, WorkerStep(w), RowsChange
  PROVE  ProcsChange
<1>1. /\ w \in Procs
      /\ Program(w) = WorkerPCs
      /\ proc[w] \in ProcState
      /\ proc[w].pc \notin Resting => proc[w].job \in Sources
  BY Zenon DEF Procs, Program, ProcsOK
<1>2. WorkerPCs = {"claimed", "beforeProvider", "admission", "requeue", "submit",
                   "provider", "recordTask", "await", "recordRequest", "afterProvider",
                   "run", "store", "beforeCapture", "complete", "capture", "idle",
                   "fail", "release"}
  BY LocalStatusFacts DEF WorkerPCs
<1>3. ASSUME NEW pc \in {"beforeProvider", "admission", "requeue", "submit", "recordTask",
                         "await", "recordRequest", "afterProvider", "run", "store",
                         "beforeCapture", "complete", "release"},
             Goto(w, pc), proc[w].pc \notin Resting
      PROVE  ProcsChange
  BY <1>1, <1>2, <1>3, GotoChange, Zenon DEF Resting
<1>4. CASE Queue(w) \/ Run(w) \/ Store(w)
  BY <1>3, <1>4, Zenon DEF Queue, Run, Store, Transition, Resting
<1>5. CASE Submit(w)
  <2>1. /\ proc[w].pc = "submit"
        /\ proc[w].job \in Sources
        /\ Row(w).status = "queued"
        /\ job' = [job EXCEPT ![proc[w].job] = Transit(Row(w), "submitted")]
        /\ proc' = [proc EXCEPT ![w].pc = "provider"]
    BY <1>1, <1>5, LocalStatusFacts DEF Submit, Transition, Matches, Resting, SetRow, Goto
  <2>2. job[proc[w].job].status = "queued" /\ job'[proc[w].job].status = "submitted"
    BY <2>1, Zenon DEF Row, Transit, ProcsOK, JobRow
  <2>3. ProcChange(w, proc[w], [proc[w] EXCEPT !.pc = "provider"])
    BY <1>1, <1>2, <2>1, <2>2 DEF ProcChange, ProcState, TokenChange, Entry, Resting
  <2>4. proc' = [proc EXCEPT ![w] = [proc[w] EXCEPT !.pc = "provider"]]
    BY <2>1, Zenon DEF ProcsOK
  <2> QED
    BY <1>1, <2>3, <2>4, OneProc, Zenon
<1>6. CASE CompleteJob(w)
  <2>1. /\ proc[w].pc = "complete"
        /\ proc[w].job \in Sources
        /\ proc' = [proc EXCEPT ![w].pc = "capture"]
    BY <1>1, <1>6 DEF CompleteJob, Resting, Goto
  <2>2. PICK c \in Charges : job' = [job EXCEPT ![proc[w].job] = Completed(Row(w), c)]
    BY <1>6, Zenon DEF CompleteJob, SetRow
  <2>3. job'[proc[w].job].status = "succeeded"
    BY <2>1, <2>2 DEF Row, Completed, ProcsOK, JobRow
  <2>4. ProcChange(w, proc[w], [proc[w] EXCEPT !.pc = "capture"])
    BY <1>1, <1>2, <2>1, <2>3 DEF ProcChange, ProcState, TokenChange, Entry, Resting
  <2>5. proc' = [proc EXCEPT ![w] = [proc[w] EXCEPT !.pc = "capture"]]
    BY <2>1 DEF ProcsOK
  <2> QED
    BY <1>1, <2>4, <2>5, OneProc, Zenon
<1>7. CASE \/ EnsureLive(w, "beforeProvider", "admission")
           \/ EnsureLive(w, "afterProvider", "run")
           \/ EnsureLive(w, "beforeCapture", "complete")
           \/ Admit(w) \/ Saturate(w) \/ RecordTask(w) \/ RecordRequest(w)
  BY <1>3, <1>7 DEF EnsureLive, Admit, Saturate, RecordTask, RecordRequest, Resting
<1>8. CASE PostAccepted(w)
  BY <1>3, <1>8, Zenon DEF PostAccepted, Resting
<1>9. CASE Requeue(w) \/ CaptureHold(w) \/ ReleaseHold(w)
  BY <1>1, <1>9, DoneChange, Zenon DEF Requeue, CaptureHold, ReleaseHold
<1>10. CASE PostRefused(w) \/ PostAnswerLost(w) \/ AwaitTimesOut(w) \/ Rejected(w)
  BY <1>10, RaiseChange, LocalStatusFacts, Zenon DEF PostRefused, PostAnswerLost, AwaitTimesOut, Rejected
<1>11. CASE AwaitVideo(w)
  BY <1>3, <1>11, RaiseChange, LocalStatusFacts, Zenon DEF AwaitVideo, Resting
<1>12. CASE Fail(w)
  <2>1. Done(w) \/ Goto(w, "release")
    BY <1>12, Zenon DEF Fail
  <2> QED
    BY <1>1, <1>3, <1>12, <2>1, DoneChange, Zenon DEF Fail, Resting
<1> QED
  BY <1>4, <1>5, <1>6, <1>7, <1>8, <1>9, <1>10, <1>11, <1>12 DEF WorkerStep

\* resolve_failed, whoever runs it.
LEMMA ResolveProcs ==
  ASSUME ProcsOK, NEW p \in Reconcilers \cup Operators, ResolveStep(p)
  PROVE  ProcsChange
<1>1. /\ p \in Procs
      /\ {"releaseFailed", "resolveFailed"} \subseteq Program(p)
      /\ p \in Reconcilers => "abandon" \in Program(p)
  BY ProcsAssumption DEF Procs, Program, ReconcilerPCs, OperatorPCs
<1>2. proc[p].pc \in {"markFailed", "releaseFailed", "resolveFailed"} /\ proc[p].job \in Sources
  BY <1>1 DEF ResolveStep, MarkFailed, ReleaseFailed, ResolveFailed, ProcsOK, Resting
<1>3. CASE Goto(p, "releaseFailed") \/ Goto(p, "resolveFailed")
  BY <1>1, <1>2, <1>3, GotoChange DEF Resting
<1>4. CASE GiveUp(p)
  BY <1>1, <1>2, <1>4, GotoChange, DoneChange, Zenon DEF GiveUp, Resting
<1>5. CASE Done(p)
  BY <1>1, <1>5, DoneChange, Zenon
<1> QED
  BY <1>3, <1>4, <1>5 DEF ResolveStep, MarkFailed, ReleaseFailed, ResolveFailed

\* Taking a job up without a fence.
LEMMA TakeUpChange ==
  ASSUME ProcsOK, NEW p \in Procs, NEW j \in Sources,
         NEW pc \in Program(p) \ {"fail", "provider", "capture", "recoverCapture"},
         proc[p].pc \in Resting, pc \notin Resting,
         proc' = [proc EXCEPT ![p] = [@ EXCEPT !.pc = pc, !.job = j]]
  PROVE  ProcsChange
<1>1. proc[p] \in ProcState /\ proc[p].token = 0
  BY DEF ProcsOK
<1>2. pc \in WorkerPCs \cup ReconcilerPCs
  BY DEF Program, WorkerPCs, ReconcilerPCs, OperatorPCs
<1>3. ProcChange(p, proc[p], [proc[p] EXCEPT !.pc = pc, !.job = j])
  BY <1>1, <1>2, Zenon DEF ProcChange, ProcState, TokenChange, Entry
<1>4. proc' = [proc EXCEPT ![p] = [proc[p] EXCEPT !.pc = pc, !.job = j]]
  BY DEF ProcsOK
<1> QED
  BY <1>3, <1>4, OneProc, Zenon

\* Taking a job up under a new fence.
LEMMA TakeUpFencedChange ==
  ASSUME ProcsOK, NEW p \in Procs, NEW j \in Sources,
         NEW pc \in Program(p) \ {"fail", "provider", "capture", "recoverCapture"},
         pc \notin Resting, job'[j].fence = job[j].fence + 1,
         proc' = [proc EXCEPT ![p] = [@ EXCEPT !.pc = pc, !.job = j,
                                               !.token = job[j].fence + 1]]
  PROVE  ProcsChange
<1>1. proc[p] \in ProcState /\ job[j].fence + 1 \in Nat
  BY DEF ProcsOK, JobRow
<1>2. pc \in WorkerPCs \cup ReconcilerPCs
  BY DEF Program, WorkerPCs, ReconcilerPCs, OperatorPCs
<1>3. ProcChange(p, proc[p], [proc[p] EXCEPT !.pc = pc, !.job = j, !.token = job[j].fence + 1])
  BY <1>1, <1>2, Zenon DEF ProcChange, ProcState, TokenChange, Entry
<1>4. proc' = [proc EXCEPT ![p] = [proc[p] EXCEPT !.pc = pc, !.job = j,
                                                  !.token = job[j].fence + 1]]
  BY DEF ProcsOK
<1> QED
  BY <1>3, <1>4, OneProc, Zenon

\* The reconciliation loop's steps move it in those ways.
LEMMA ReconcilerProcs ==
  ASSUME ProcsOK, NEW p \in Reconcilers, ReconcilerStep(p), RowsChange
  PROVE  ProcsChange
<1>1. /\ p \in Procs
      /\ Program(p) = ReconcilerPCs
      /\ proc[p] \in ProcState
      /\ proc[p].pc \notin Resting => proc[p].job \in Sources
  BY ProcsAssumption, Zenon DEF Procs, Program, ProcsOK
<1>2. ASSUME NEW pc \in {"select", "settle", "claim"}, Goto(p, pc), proc[p].pc \in Resting
      PROVE  ProcsChange
  BY <1>1, <1>2, GotoChange, Zenon DEF Resting, ReconcilerPCs
<1>3. ASSUME NEW pc \in {"recover", "recoverStore", "recoverComplete", "abandon", "markFailed"},
             Goto(p, pc), proc[p].pc \notin Resting
      PROVE  ProcsChange
  BY <1>1, <1>3, GotoChange, Zenon DEF Resting, ReconcilerPCs
<1>4. ASSUME NEW j, Settled1(p, j) PROVE ProcsChange
  BY <1>1, <1>4, AtChange, Zenon DEF Settled1, Resting, ReconcilerPCs
<1>5. ASSUME Restart(p) PROVE ProcsChange
  BY <1>1, <1>5, DoneChange DEF Restart
<1>6. CASE ReconcileStalled(p) \/ Select(p) \/ SelectionDone(p)
  BY <1>2, <1>6, Zenon DEF ReconcileStalled, Select, SelectionDone, Resting
<1>7. ASSUME NEW j \in Sources, SettleSucceeded(p, j) \/ SettleUnsuccessful(p, j)
      PROVE  ProcsChange
  <2>1. ASSUME NEW pc \in {"releaseExpired", "resolve"},
               proc' = [proc EXCEPT ![p] = [@ EXCEPT !.pc = pc, !.job = j]]
        PROVE  ProcsChange
    <3>1. proc[p].pc \in Resting
      BY <1>7, Zenon DEF SettleSucceeded, SettleUnsuccessful, Resting
    <3> QED
      BY <1>1, <2>1, <3>1, TakeUpChange, Zenon DEF Resting, ReconcilerPCs
  <2> QED
    BY <1>4, <1>5, <1>7, <2>1 DEF SettleSucceeded, SettleUnsuccessful
<1>8. CASE ReleaseExpired(p) \/ MarkResolved(p)
  BY <1>4, <1>5, <1>8 DEF ReleaseExpired, MarkResolved
<1>9. ASSUME NEW j \in Sources, ClaimRecovery(p, j) PROVE ProcsChange
  <2>1. job'[j].fence = job[j].fence + 1
    BY <1>9, Zenon DEF ClaimRecovery, ProcsOK, JobRow
  <2>2. proc' = [proc EXCEPT ![p] = [@ EXCEPT !.pc = "poll", !.job = j,
                                              !.token = job[j].fence + 1]]
    BY <1>9 DEF ClaimRecovery
  <2>3. /\ "poll" \in Program(p) \ {"fail", "provider", "capture", "recoverCapture"}
        /\ "poll" \notin Resting
    BY <1>1 DEF Resting, ReconcilerPCs
  <2> QED
    BY <1>1, <2>1, <2>2, <2>3, TakeUpFencedChange, Zenon
<1>10. CASE NothingToRecover(p) \/ RecoverCapture(p) \/ Abandon(p)
  BY <1>1, <1>10, DoneChange DEF NothingToRecover, RecoverCapture, Abandon
<1>11. CASE PollTask(p)
  BY <1>3, <1>11, Zenon DEF PollTask, Resting
<1>12. CASE Recover(p) \/ RecoverStore(p)
  BY <1>3, <1>12, Zenon DEF Recover, RecoverStore, RecoverTo, Resting
<1>13. CASE RecoverComplete(p)
  <2>1. CASE Goto(p, "abandon")
    BY <1>3, <1>13, <2>1, Zenon DEF RecoverComplete, Resting
  <2>2. ASSUME NEW c \in Charges, SetRow(p, Completed(Row(p), c)), Goto(p, "recoverCapture")
        PROVE  ProcsChange
    <3>1. proc[p].job \in Sources
      BY <1>1, <1>13, Zenon DEF RecoverComplete, Resting
    <3>2. job'[proc[p].job].status = "succeeded"
      BY <2>2, <3>1 DEF SetRow, Row, Completed, ProcsOK, JobRow
    <3>3. ProcChange(p, proc[p], [proc[p] EXCEPT !.pc = "recoverCapture"])
      BY <1>1, <3>1, <3>2 DEF ProcChange, ProcState, TokenChange, Entry, Resting, ReconcilerPCs
    <3>4. proc' = [proc EXCEPT ![p] = [proc[p] EXCEPT !.pc = "recoverCapture"]]
      BY <2>2, Zenon DEF Goto, ProcsOK
    <3> QED
      BY <1>1, <3>3, <3>4, OneProc, Zenon
  <2> QED
    BY <1>13, <2>1, <2>2, Zenon DEF RecoverComplete
<1>14. CASE ResolveStep(p)
  BY <1>14, ResolveProcs
<1> QED
  BY <1>6, <1>7, <1>8, <1>9, <1>10, <1>11, <1>12, <1>13, <1>14 DEF ReconcilerStep

\* Every step moves processes in those ways.
LEMMA NextProcs ==
  ASSUME ProcsOK, Next, RowsChange
  PROVE  ProcsChange
<1>1. CASE UNCHANGED proc
  BY <1>1, NoProc, Zenon
<1>2. ASSUME NEW w \in Workers, NEW j \in Sources, Claim(w, j) PROVE ProcsChange
  <2>1. job'[j].fence = job[j].fence + 1 /\ w \in Procs
    BY <1>2, Zenon DEF Claim, ProcsOK, JobRow, Procs
  <2>2. proc' = [proc EXCEPT ![w] = [@ EXCEPT !.pc = "claimed", !.job = j,
                                              !.token = job[j].fence + 1]]
    BY <1>2 DEF Claim
  <2>3. /\ "claimed" \in Program(w) \ {"fail", "provider", "capture", "recoverCapture"}
        /\ "claimed" \notin Resting
    BY LocalStatusFacts DEF Program, WorkerPCs, Resting
  <2> QED
    BY <2>1, <2>2, <2>3, TakeUpFencedChange, Zenon
<1>3. ASSUME NEW w \in Workers, WorkerError(w) PROVE ProcsChange
  <2>1. w \in Procs /\ "release" \in Program(w)
    BY Zenon DEF Procs, Program, WorkerPCs
  <2>2. CASE proc[w].pc \in DOMAIN LocalStatus
    BY <1>3, <2>2, RaiseChange, Zenon DEF WorkerError
  <2>3. CASE proc[w].pc = "fail" /\ Goto(w, "release")
    <3>1. proc[w].job \in Sources
      BY <2>1, <2>3, Zenon DEF ProcsOK, Resting
    <3> QED
      BY <2>1, <2>3, <3>1, GotoChange, Zenon DEF Resting
  <2>4. CASE Done(w)
    BY <2>1, <2>4, DoneChange
  <2> QED
    BY <1>3, <2>2, <2>3, <2>4, Zenon DEF WorkerError
<1>4. ASSUME NEW p \in Reconcilers, ReconcilerError(p) PROVE ProcsChange
  <2>1. p \in Procs /\ "abandon" \in Program(p)
    BY ProcsAssumption, Zenon DEF Procs, Program, ReconcilerPCs
  <2>2. CASE Done(p)
    BY <2>1, <2>2, DoneChange
  <2>3. CASE proc[p].pc \notin Resting /\ Goto(p, "abandon")
    <3>1. proc[p].job \in Sources
      BY <2>1, <2>3, Zenon DEF ProcsOK
    <3> QED
      BY <2>1, <2>3, <3>1, GotoChange, Zenon DEF Resting
  <2> QED
    BY <1>4, <2>2, <2>3, Zenon DEF ReconcilerError, Resting
<1>5. ASSUME NEW o \in Operators, NEW j \in Sources, OperatorStarts(o, j) PROVE ProcsChange
  <2>1. /\ o \in Procs
        /\ "markFailed" \in Program(o) \ {"fail", "provider", "capture", "recoverCapture"}
        /\ "markFailed" \notin Resting
    BY ProcsAssumption DEF Procs, Program, OperatorPCs, Resting
  <2>2. /\ proc[o].pc \in Resting
        /\ proc' = [proc EXCEPT ![o] = [@ EXCEPT !.pc = "markFailed", !.job = j]]
    BY <1>5 DEF OperatorStarts, Resting
  <2> QED
    BY <2>1, <2>2, TakeUpChange, Zenon
<1>6. ASSUME NEW o \in Operators, ResolveStep(o) PROVE ProcsChange
  BY <1>6, ResolveProcs
<1>7. ASSUME NEW p \in Procs, Crash(p) PROVE ProcsChange
  BY <1>7, DoneChange DEF Crash
<1> QED
  BY <1>1, <1>2, <1>3, <1>4, <1>5, <1>6, <1>7, WorkerProcs, ReconcilerProcs, Zenon
  DEF Next, Accept, Cancel, OrphanLeaseLapses, HolderPauses, ProviderFinishes, HoldExpires,
      Credit, genVars

-----------------------------------------------------------------------------
(* What a step does to the provider and to the wallet. *)

\* Only a worker at the provider call sends a request, and it leaves the call.
PostsChange ==
  \A j \in Sources :
    \/ posted'[j] = posted[j]
    \/ /\ posted'[j] = posted[j] + 1
       /\ \E w \in Workers : /\ proc[w].pc = "provider"
                             /\ proc[w].job = j
                             /\ proc'[w].pc # "provider"

\* Every step of the workflow respects PostsChange: the only request to the
\* provider is the one the executor sends.
LEMMA NextPosts ==
  ASSUME ProcsOK, posted \in [Sources -> Nat], Next
  PROVE  posted' \in [Sources -> Nat] /\ PostsChange
<1>1. CASE UNCHANGED posted
  BY <1>1, Zenon DEF PostsChange
<1>2. ASSUME NEW w \in Workers, PostAccepted(w) \/ PostRefused(w) \/ PostAnswerLost(w)
      PROVE  posted' \in [Sources -> Nat] /\ PostsChange
  <2>1. /\ proc[w].pc = "provider"
        /\ posted' = [posted EXCEPT ![proc[w].job] = @ + 1]
    BY <1>2, Zenon DEF PostAccepted, PostRefused, PostAnswerLost
  <2>2. w \in Procs /\ proc[w].job \in Sources
    BY <2>1, Zenon DEF Procs, ProcsOK, Resting
  <2>3. proc'[w].pc # "provider"
    <3>1. CASE PostAccepted(w)
      BY <2>2, <3>1, Zenon DEF PostAccepted, Goto, ProcsOK, ProcState
    <3>2. CASE Raise(w, TRUE) \/ Raise(w, FALSE)
      <4> DEFINE local == LocalStatus[proc[w].pc]
                 s(u) == [proc[w] EXCEPT !.pc = "fail", !.expected = local,
                                         !.unknown = (local = "submitted" /\ u)]
      <4>1. PICK u \in BOOLEAN : Raise(w, u)
        BY <3>2, Zenon
      <4>2. proc[w] \in ProcState /\ s(u).pc = "fail" /\ At("idle").pc = "idle"
        BY <2>2 DEF ProcsOK, ProcState, At
      <4>3. proc' = [proc EXCEPT ![w] = IF local = "succeeded" THEN At("idle") ELSE s(u)]
        BY <4>1 DEF Raise, ProcsOK
      <4> HIDE DEF s, local
      <4>4. proc'[w] = IF local = "succeeded" THEN At("idle") ELSE s(u)
        BY <2>2, <4>3 DEF ProcsOK
      <4> QED
        BY <4>2, <4>4
    <3> QED
      BY <1>2, <3>1, <3>2, Zenon DEF PostRefused, PostAnswerLost
  <2> QED
    BY <2>1, <2>2, <2>3 DEF PostsChange
<1>3. ASSUME NEW p, ResolveStep(p) PROVE UNCHANGED posted
  BY <1>3 DEF ResolveStep, MarkFailed, ReleaseFailed, ResolveFailed
<1>4. ASSUME NEW p \in Reconcilers, ReconcilerStep(p) PROVE UNCHANGED posted
  BY <1>3, <1>4, Zenon
  DEF ReconcilerStep, ReconcileStalled, Select, SelectionDone, SettleSucceeded,
      SettleUnsuccessful, ReleaseExpired, MarkResolved, ClaimRecovery, NothingToRecover,
      PollTask, Recover, RecoverStore, RecoverTo, RecoverComplete, RecoverCapture, Abandon
<1>5. ASSUME NEW w \in Workers, WorkerStep(w)
      PROVE  UNCHANGED posted \/ PostAccepted(w) \/ PostRefused(w) \/ PostAnswerLost(w)
  BY <1>5, Zenon
  DEF WorkerStep, Queue, Submit, Run, Store, Transition, EnsureLive, Admit, Saturate, Requeue,
      RecordTask, AwaitVideo, AwaitTimesOut, RecordRequest, CompleteJob, CaptureHold,
      Rejected, Fail, ReleaseHold
<1> QED
  BY <1>1, <1>2, <1>3, <1>4, <1>5, Zenon
  DEF Next, Accept, Cancel, OrphanLeaseLapses, HolderPauses, ProviderFinishes, HoldExpires,
      Credit, genVars, Claim, WorkerError, ReconcilerError, OperatorStarts, Crash

\* Jobs being captured have succeeded, and succeeded jobs have usage.
CaptureReady ==
  /\ \A p \in Procs : proc[p].pc \in {"capture", "recoverCapture"} =>
       job[proc[p].job].status = "succeeded"
  /\ \A j \in Sources : job[j].status = "succeeded" => job[j].usage \in Charges
  /\ \A j \in Sources : job[j].usage \in Charges \cup {NoAmount}

\* Who may release the hold of a job: its worker after a failure, the settlement
\* pass, and resolve_failed.
Releases(p, j) ==
  \/ proc[p].pc \in {"release", "releaseExpired", "releaseFailed"} /\ proc[p].job = j
  \/ p \in Reconcilers /\ j \in todo[p] /\ job[j].status # "succeeded"

\* The wallet changes only by its own operations, and a capture charges the
\* usage of a succeeded job.
WalletChange ==
  \/ UNCHANGED billingVars
  \/ \E j \in Sources : \E a \in Amounts : Hold(j, a)
  \/ \E j \in Sources : job[j].status = "succeeded" /\ Capture(j, job[j].usage)
  \/ \E j \in Sources : \E p \in Procs : Release(j) /\ Releases(p, j)
  \/ \E j \in Sources : HoldLapses(j)
  \/ \E g \in Grants : Grant(g)

\* Every step of the workflow respects WalletChange: the workers, the loops and
\* the operator reach the wallet through the billing service only.
LEMMA NextWallet ==
  ASSUME ProcsOK, CaptureReady, Next
  PROVE  WalletChange
<1>1. ASSUME NEW p \in Procs, ResolveStep(p) PROVE WalletChange
  <2>1. proc[p].job \in Sources
    BY <1>1, Zenon DEF ResolveStep, MarkFailed, ReleaseFailed, ResolveFailed, ProcsOK, Resting
  <2> QED
    BY <1>1, <2>1, Zenon DEF ResolveStep, MarkFailed, ReleaseFailed, ResolveFailed, WalletChange, Releases
<1>2. ASSUME NEW p \in Reconcilers, NEW j \in Sources, SettleSucceeded(p, j) \/ SettleUnsuccessful(p, j)
      PROVE  WalletChange
  <2>1. CASE SettleSucceeded(p, j)
    BY <2>1, Zenon DEF SettleSucceeded, WalletChange
  <2>2. CASE SettleUnsuccessful(p, j)
    BY <2>2, Zenon DEF SettleUnsuccessful, WalletChange, Releases, Procs
  <2> QED
    BY <1>2, <2>1, <2>2
<1>3. ASSUME NEW p \in Procs, ReleaseExpired(p) \/ RecoverCapture(p) \/ CaptureHold(p) \/ ReleaseHold(p)
      PROVE  WalletChange
  <2>1. proc[p].job \in Sources
    BY <1>3, Zenon DEF ReleaseExpired, RecoverCapture, CaptureHold, ReleaseHold, ProcsOK, Resting
  <2>2. CASE ReleaseExpired(p) \/ ReleaseHold(p)
    BY <2>1, <2>2, Zenon DEF ReleaseExpired, ReleaseHold, WalletChange, Releases
  <2>3. CASE RecoverCapture(p) \/ CaptureHold(p)
    <3>1. job[proc[p].job].status = "succeeded"
      BY <2>3, Zenon DEF RecoverCapture, CaptureHold, CaptureReady
    <3> QED
      BY <2>1, <2>3, <3>1, Zenon DEF RecoverCapture, CaptureHold, WalletChange
  <2> QED
    BY <1>3, <2>2, <2>3
<1>4. ASSUME NEW p \in Reconcilers, ReconcilerStep(p) PROVE WalletChange
  <2>1. p \in Procs
    BY Zenon DEF Procs
  <2>2. CASE UNCHANGED billingVars
    BY <2>2 DEF WalletChange
  <2> QED
    BY <1>1, <1>2, <1>3, <1>4, <2>1, <2>2, Zenon
    DEF ReconcilerStep, ReconcileStalled, Select, SelectionDone, MarkResolved, ClaimRecovery,
        NothingToRecover, PollTask, Recover, RecoverStore, RecoverTo, RecoverComplete, Abandon
<1>5. ASSUME NEW w \in Workers, WorkerStep(w) PROVE WalletChange
  <2>1. w \in Procs
    BY Zenon DEF Procs
  <2>2. CASE UNCHANGED billingVars
    BY <2>2 DEF WalletChange
  <2> QED
    BY <1>3, <1>5, <2>1, <2>2, Zenon
    DEF WorkerStep, Queue, Submit, Run, Store, Transition, EnsureLive, Admit, Saturate,
        Requeue, PostAccepted, PostRefused, PostAnswerLost, RecordTask, AwaitVideo,
        AwaitTimesOut, RecordRequest, CompleteJob, Rejected, Fail
<1>6. ASSUME NEW j \in Sources, NEW a \in Amounts, Accept(j, a) PROVE WalletChange
  BY <1>6 DEF Accept, WalletChange
<1>7. ASSUME NEW j \in Sources, HoldExpires(j) PROVE WalletChange
  BY <1>7, Zenon DEF HoldExpires, WalletChange
<1>8. ASSUME NEW g \in Grants, Credit(g) PROVE WalletChange
  BY <1>8, Zenon DEF Credit, WalletChange
<1>9. CASE UNCHANGED billingVars
  BY <1>9, Zenon DEF WalletChange
<1>10. ASSUME NEW o \in Operators, ResolveStep(o) PROVE WalletChange
  BY <1>1, <1>10 DEF Procs
<1> QED
  BY <1>4, <1>5, <1>6, <1>7, <1>8, <1>9, <1>10, Zenon
  DEF Next, Cancel, OrphanLeaseLapses, HolderPauses, ProviderFinishes, Claim, WorkerError,
      ReconcilerError, OperatorStarts, Crash

-----------------------------------------------------------------------------
(* The inductive invariant. *)

\* Before submission no request exists; a worker about to send one is alone
\* in that, and its job has left those statuses for good.
SubmissionInv ==
  /\ posted \in [Sources -> Nat]
  /\ \A j \in Sources : job[j].status \in PreSubmission => posted[j] = 0
  /\ \A w \in Workers : proc[w].pc = "provider" =>
       job[proc[w].job].status \notin PreSubmission /\ posted[proc[w].job] = 0
  /\ \A v, w \in Workers :
       (proc[v].pc = "provider" /\ proc[w].pc = "provider" /\ proc[v].job = proc[w].job) => v = w
  /\ AtMostOneSubmission

\* Fences grow with every claim, so two processes never hold the same one.
FenceInv ==
  /\ \A p \in Procs : proc[p].job \in Sources => proc[p].token <= job[proc[p].job].fence
  /\ \A p, q \in Procs :
       (proc[p].job \in Sources /\ proc[q].job = proc[p].job
          /\ proc[p].token = proc[q].token /\ proc[p].token # 0) => p = q
  /\ \A j \in Sources : job[j].live => job[j].token # 0

ChargeInv ==
  /\ resv \in [Sources -> Reservation]
  /\ CaptureReady
  /\ ChargedOnlyOnSuccess

GenInv == ProcsOK /\ SubmissionInv /\ FenceInv /\ ChargeInv

\* Types and programs are kept.
LEMMA ProcsOKPreserved ==
  ASSUME RowsChange, ProcsChange
  PROVE  ProcsOK'
<1>1. ASSUME NEW p \in Procs PROVE ProcChange(p, proc[p], proc'[p])
  BY Zenon DEF ProcsChange
<1>2. /\ \A w \in Workers : w \in Procs /\ Program(w) = WorkerPCs
      /\ \A p \in Reconcilers : p \in Procs /\ Program(p) = ReconcilerPCs
      /\ \A o \in Operators : o \in Procs /\ Program(o) = OperatorPCs
  BY ProcsAssumption DEF Procs, Program
<1> QED
  BY <1>1, <1>2, Zenon DEF ProcsOK, RowsChange, ProcsChange, ProcChange

\* The submission invariant is kept.
LEMMA SubmissionPreserved ==
  ASSUME ProcsOK, SubmissionInv, RowsChange, ProcsChange, PostsChange,
         posted' \in [Sources -> Nat]
  PROVE  SubmissionInv'
<1>1. ASSUME NEW j \in Sources
      PROVE  job'[j].status \in PreSubmission => job[j].status \in PreSubmission
  BY Zenon DEF RowsChange, RowChange
<1>2. ASSUME NEW w \in Workers, proc'[w].pc = "provider"
      PROVE  /\ proc'[w].job \in Sources
             /\ \/ proc[w].pc = "provider" /\ proc'[w].job = proc[w].job
                \/ /\ job[proc'[w].job].status = "queued"
                   /\ job'[proc'[w].job].status = "submitted"
  BY <1>2, Zenon DEF ProcsChange, ProcChange, Entry, Procs, Resting
<1>3. ASSUME NEW j \in Sources, job'[j].status \in PreSubmission PROVE posted'[j] = 0
  BY <1>1, <1>3 DEF SubmissionInv, PostsChange
<1>4. ASSUME NEW w \in Workers, proc'[w].pc = "provider"
      PROVE  job'[proc'[w].job].status \notin PreSubmission /\ posted'[proc'[w].job] = 0
  <2>1. CASE proc[w].pc = "provider" /\ proc'[w].job = proc[w].job
    BY <1>1, <1>2, <1>4, <2>1 DEF SubmissionInv, PostsChange
  <2>2. CASE /\ job[proc'[w].job].status = "queued"
             /\ job'[proc'[w].job].status = "submitted"
    BY <1>2, <1>4, <2>2 DEF SubmissionInv, PostsChange, PreSubmission
  <2> QED
    BY <1>2, <1>4, <2>1, <2>2, Zenon
<1>5. ASSUME NEW v \in Workers, NEW w \in Workers, v # w,
             proc'[v].pc = "provider", proc'[w].pc = "provider", proc'[v].job = proc'[w].job
      PROVE  FALSE
  <2>1. proc'[v] = proc[v] \/ proc'[w] = proc[w]
    BY <1>5, Zenon DEF ProcsChange, Procs
  <2>2. ASSUME NEW a \in Workers, NEW b \in Workers, a # b, proc'[a] = proc[a],
               proc'[a].pc = "provider", proc'[b].pc = "provider", proc'[a].job = proc'[b].job
        PROVE  FALSE
    <3>1. job[proc[a].job].status \notin PreSubmission
      BY <2>2, Zenon DEF SubmissionInv
    <3>2. proc[b].pc = "provider" /\ proc'[b].job = proc[b].job
      BY <1>2, <2>2, <3>1, Zenon DEF PreSubmission
    <3> QED
      BY <2>2, <3>2, Zenon DEF SubmissionInv
  <2> QED
    BY <1>5, <2>1, <2>2, Zenon
<1>6. ASSUME NEW j \in Sources PROVE posted'[j] <= 1
  BY DEF SubmissionInv, PostsChange, AtMostOneSubmission
<1> QED
  BY <1>3, <1>4, <1>5, <1>6, Zenon DEF SubmissionInv, AtMostOneSubmission

\* Fences stay unique.
LEMMA FencePreserved ==
  ASSUME ProcsOK, FenceInv, RowsChange, ProcsChange
  PROVE  FenceInv'
<1>1. ASSUME NEW j \in Sources
      PROVE  /\ job[j].fence \in Nat
             /\ job'[j].fence \in Nat
             /\ job[j].fence <= job'[j].fence
             /\ LeaseChange(job[j], job'[j])
  BY DEF ProcsOK, RowsChange, RowChange, LeaseChange, JobRow
<1>2. ASSUME NEW p \in Procs PROVE proc[p].token \in Nat /\ proc'[p].token \in Nat
  BY Zenon DEF ProcsOK, ProcsChange, ProcState
<1>3. ASSUME NEW p \in Procs PROVE TokenChange(proc[p], proc'[p])
  BY Zenon DEF ProcsChange, ProcChange
<1>4. ASSUME NEW p \in Procs, proc'[p].job \in Sources
      PROVE  proc'[p].token <= job'[proc'[p].job].fence
  <2> DEFINE j == proc'[p].job
  <2>1. j \in Sources /\ TokenChange(proc[p], proc'[p])
    BY <1>3, <1>4, Zenon
  <2>2. job[j].fence \in Nat /\ job'[j].fence \in Nat /\ job[j].fence <= job'[j].fence
    BY <1>1, <2>1, Zenon
  <2>3. proc[p].job = j => proc[p].token <= job[j].fence
    BY <2>1, Zenon DEF FenceInv
  <2>4. proc[p].token \in Nat /\ proc'[p].token \in Nat
    BY <1>2
  <2> HIDE DEF j
  <2>5. \/ proc[p].job = j /\ proc'[p].token = proc[p].token
        \/ proc'[p].token = 0
        \/ job'[j].fence = proc'[p].token
    BY <2>1, Zenon DEF TokenChange, j
  <2>6. proc'[p].token <= job'[j].fence
    BY <2>2, <2>3, <2>4, <2>5
  <2> QED
    BY <2>6 DEF j
<1>5. ASSUME NEW p \in Procs, NEW q \in Procs, p # q, proc'[p].job \in Sources,
             proc'[q].job = proc'[p].job, proc'[p].token = proc'[q].token, proc'[p].token # 0
      PROVE  FALSE
  <2>1. proc'[p] = proc[p] \/ proc'[q] = proc[q]
    BY <1>5, Zenon DEF ProcsChange
  <2>2. ASSUME NEW a \in Procs, NEW b \in Procs, a # b, proc'[a] = proc[a],
               proc'[a].job \in Sources, proc'[b].job = proc'[a].job,
               proc'[a].token = proc'[b].token, proc'[a].token # 0
        PROVE  FALSE
    <3>1. proc[a].token <= job[proc[a].job].fence
      BY <2>2, Zenon DEF FenceInv
    <3>2. proc'[b].job = proc[b].job /\ proc'[b].token = proc[b].token
      BY <1>1, <1>2, <1>3, <2>2, <3>1 DEF TokenChange
    <3> QED
      BY <2>2, <3>2, Zenon DEF FenceInv
  <2> QED
    BY <1>5, <2>1, <2>2, Zenon
<1>6. ASSUME NEW j \in Sources, job'[j].live PROVE job'[j].token # 0
  BY <1>1, <1>6 DEF LeaseChange, FenceInv
<1> QED
  BY <1>4, <1>5, <1>6, Zenon DEF FenceInv

\* Charges stay tied to succeeded jobs: usage is written once, and success is
\* final.
LEMMA ChargePreserved ==
  ASSUME ProcsOK, ChargeInv, RowsChange, ProcsChange, WalletChange
  PROVE  ChargeInv'
<1>1. ASSUME NEW j \in Sources
      PROVE  /\ job[j].status = "succeeded" =>
                  job'[j].status = "succeeded" /\ job'[j].usage = job[j].usage
             /\ job'[j].status = "succeeded" => job'[j].usage \in Charges
             /\ job'[j].usage \in Charges \cup {NoAmount}
  BY Zenon DEF RowsChange, RowChange, UsageChange, ChargeInv, CaptureReady, Terminal
<1>2. ASSUME NEW p \in Procs, proc'[p].pc \in {"capture", "recoverCapture"}
      PROVE  job'[proc'[p].job].status = "succeeded"
  <2>1. proc'[p].job \in Sources
    BY <1>2, Zenon DEF ProcsChange, ProcChange, Resting
  <2>2. \/ proc[p].pc \in {"capture", "recoverCapture"} /\ proc'[p].job = proc[p].job
        \/ job'[proc'[p].job].status = "succeeded"
    BY <1>2, Zenon DEF ProcsChange, ProcChange, Entry
  <2>3. proc[p].pc \in {"capture", "recoverCapture"} => job[proc[p].job].status = "succeeded"
    BY Zenon DEF ChargeInv, CaptureReady
  <2> QED
    BY <1>1, <2>1, <2>2, <2>3, Zenon
<1>3. /\ resv' \in [Sources -> Reservation]
      /\ \A j \in Sources : resv'[j].status = "committed" =>
           \/ resv[j].status = "committed" /\ resv'[j].captured = resv[j].captured
           \/ job[j].status = "succeeded" /\ resv'[j].captured = job[j].usage
  <2> USE DEF ChargeInv
  <2>1. CASE UNCHANGED billingVars
    BY <2>1, Zenon DEF billingVars
  <2>2. ASSUME NEW j \in Sources, NEW a \in Amounts, Hold(j, a) PROVE <1>3!1 /\ <1>3!2
    BY <2>2, AmountsAssumption DEF Hold, Reservation, ReservationStatus
  <2>3. ASSUME NEW j \in Sources, job[j].status = "succeeded", Capture(j, job[j].usage)
        PROVE  <1>3!1 /\ <1>3!2
    <3>1. job[j].usage \in Nat
      BY <2>3, ChargesAssumption, Zenon DEF CaptureReady
    <3> QED
      BY <2>3, <3>1, Zenon DEF Capture, Reservation, ReservationStatus
  <2>4. ASSUME NEW j \in Sources, Release(j) PROVE <1>3!1 /\ <1>3!2
    BY <2>4 DEF Release, Reservation, ReservationStatus
  <2>5. ASSUME NEW j \in Sources, HoldLapses(j) PROVE <1>3!1 /\ <1>3!2
    BY <2>5, Zenon DEF HoldLapses, Reservation, ReservationStatus
  <2>6. ASSUME NEW g \in Grants, Grant(g) PROVE <1>3!1 /\ <1>3!2
    BY <2>6, Zenon DEF Grant
  <2> QED
    BY <2>1, <2>2, <2>3, <2>4, <2>5, <2>6, Zenon DEF WalletChange
<1>4. ChargedOnlyOnSuccess'
  BY <1>1, <1>3, Zenon DEF ChargeInv, ChargedOnlyOnSuccess
<1> QED
  BY <1>1, <1>2, <1>3, <1>4, Zenon DEF ChargeInv, CaptureReady

\* The initial state satisfies the invariant.
LEMMA InitGenInv == Init => GenInv
<1> SUFFICES ASSUME Init PROVE GenInv
  OBVIOUS
<1> USE DEF Init
<1>1. ProcsOK
  <2>1. NoRow \in JobRow
    BY Zenon DEF NoRow, JobRow, Statuses
  <2>2. ASSUME NEW p \in Procs
        PROVE  /\ At(Home(p)) \in ProcState
               /\ At(Home(p)).pc = Home(p)
               /\ At(Home(p)).token = 0
               /\ Home(p) \in Resting
    BY Zenon DEF At, Home, ProcState, Statuses, WorkerPCs, ReconcilerPCs, Resting
  <2>3. /\ \A w \in Workers : w \in Procs /\ Home(w) \in WorkerPCs
        /\ \A p \in Reconcilers : p \in Procs /\ Home(p) \in ReconcilerPCs
        /\ \A o \in Operators : o \in Procs /\ Home(o) \in OperatorPCs
    BY ProcsAssumption DEF Procs, Home, WorkerPCs, ReconcilerPCs, OperatorPCs
  <2>4. job \in [Sources -> JobRow] /\ proc \in [Procs -> ProcState]
    BY <2>1, <2>2
  <2> QED
    BY <2>2, <2>3, <2>4, Zenon DEF ProcsOK, Resting
<1>2. ASSUME NEW p \in Procs PROVE proc[p].pc \in {"idle", "stalled"} /\ proc[p].job = NoJob
  BY Zenon DEF At, Home
<1>3. SubmissionInv
  <2>1. posted \in [Sources -> Nat] /\ \A j \in Sources : posted[j] = 0
    OBVIOUS
  <2>2. \A w \in Workers : proc[w].pc # "provider"
    BY <1>2 DEF Procs
  <2> QED
    BY <2>1, <2>2 DEF SubmissionInv, AtMostOneSubmission
<1>4. FenceInv
  BY <1>2, JobsAssumption, Zenon DEF FenceInv, NoRow
<1>5. ChargeInv
  BY <1>2, Zenon DEF ChargeInv, CaptureReady, ChargedOnlyOnSuccess, BillingInit, NoReservation,
              Reservation, ReservationStatus, NoRow
<1> QED
  BY <1>1, <1>3, <1>4, <1>5 DEF GenInv

\* Every step preserves the invariant, and changes rows, processes, the
\* provider and the wallet only in the ways listed above.
LEMMA NextGenInv ==
  ASSUME GenInv, [Next]_vars
  PROVE  GenInv'
<1>1. CASE Next
  <2>1. RowsChange
    BY <1>1, NextRows, Zenon DEF GenInv
  <2>2. ProcsChange
    BY <1>1, <2>1, NextProcs DEF GenInv
  <2>3. posted' \in [Sources -> Nat] /\ PostsChange
    BY <1>1, NextPosts, Zenon DEF GenInv, SubmissionInv
  <2>4. WalletChange
    BY <1>1, NextWallet DEF GenInv, ChargeInv
  <2> QED
    BY <2>1, <2>2, <2>3, <2>4, ProcsOKPreserved, SubmissionPreserved, FencePreserved,
       ChargePreserved DEF GenInv
<1>2. CASE UNCHANGED vars
  BY <1>2, Zenon
  DEF vars, genVars, billingVars, GenInv, ProcsOK, SubmissionInv, AtMostOneSubmission,
      FenceInv, ChargeInv, CaptureReady, ChargedOnlyOnSuccess
<1> QED
  BY <1>1, <1>2

\* The generation workflow always satisfies its inductive invariant.
THEOREM GenerationInvariant == Spec => []GenInv
BY InitGenInv, NextGenInv, PTL DEF Spec

\* A job's chargeable request is sent at most once, with any number of
\* workers, reconcilers, operators and faults.
THEOREM AtMostOneSubmissionAlways == Spec => []AtMostOneSubmission
<1>1. GenInv => AtMostOneSubmission
  BY Zenon DEF GenInv, SubmissionInv
<1> QED
  BY <1>1, GenerationInvariant, PTL

\* Two processes never pass the fence of the same row.
THEOREM LeaseExclusiveAlways == Spec => []LeaseExclusive
<1>1. GenInv => LeaseExclusive
  BY DEF GenInv, FenceInv, LeaseExclusive, Fenced, Row
<1> QED
  BY <1>1, GenerationInvariant, PTL

\* Only succeeded jobs are charged, by the amount of their usage.
THEOREM ChargedOnlyOnSuccessAlways == Spec => []ChargedOnlyOnSuccess
<1>1. GenInv => ChargedOnlyOnSuccess
  BY DEF GenInv, ChargeInv
<1> QED
  BY <1>1, GenerationInvariant, PTL

\* Submission is one-way, terminal statuses are final and fences grow.
THEOREM SubmissionIsOneWayAlways == Spec => SubmissionIsOneWay
<1>1. ASSUME GenInv, [Next]_vars PROVE [OneWayStep]_vars
  <2>1. CASE Next
    <3>1. RowsChange
      BY <2>1, <1>1, NextRows DEF GenInv
    <3>2. ASSUME NEW j \in Sources PROVE job[j].fence \in Nat
      BY <1>1, Zenon DEF GenInv, ProcsOK, JobRow
    <3>3. ASSUME NEW j \in Sources PROVE job'[j].fence >= job[j].fence
      BY <3>1, <3>2 DEF RowsChange, RowChange, LeaseChange
    <3> QED
      BY <3>1, <3>3, Zenon DEF RowsChange, RowChange, OneWayStep
  <2> QED
    BY <1>1, <2>1
<1> QED
  BY <1>1, GenerationInvariant, PTL DEF Spec, SubmissionIsOneWay

\* The workflow uses the wallet as its specification says: every step is a
\* step of module Billing or leaves the wallet alone.
THEOREM WorkflowImplementsBilling == Spec => BillingSpec
<1>1. Init => BillingInit
  BY Zenon DEF Init
<1>2. ASSUME GenInv, [Next]_vars PROVE [BillingNext]_billingVars
  <2>1. CASE Next
    <3>1. WalletChange
      BY <1>2, <2>1, NextWallet DEF GenInv, ChargeInv
    <3>2. \A j \in Sources : job[j].status = "succeeded" => job[j].usage \in Charges
      BY <1>2, Zenon DEF GenInv, ChargeInv, CaptureReady
    <3> QED
      BY <3>1, <3>2, Zenon DEF WalletChange, BillingNext
  <2>2. CASE UNCHANGED vars
    BY <2>2 DEF vars
  <2> QED
    BY <1>2, <2>1, <2>2
<1> QED
  BY <1>1, <1>2, GenerationInvariant, PTL DEF Spec, BillingSpec

\* So what is proved of the wallet holds throughout the workflow: the
\* reserved projection is the sum of the holds of the jobs.
THEOREM WorkflowKeepsProjection == Spec => []ReservedIsSumOfHolds
BY WorkflowImplementsBilling, ReservedIsSumOfHoldsAlways, PTL

-----------------------------------------------------------------------------
(* Type correctness. *)

RestOK ==
  /\ todo \in [Reconcilers -> SUBSET Sources]
  /\ remote \in [Sources -> {"none", "working", "succeeded", "failed"}]
  /\ faults \in 0..MaxFaults

\* The selections, the provider's state and the fault counter keep their types.
LEMMA NextRest ==
  ASSUME ProcsOK, RestOK, Next
  PROVE  RestOK'
<1> USE DEF RestOK
<1>1. ASSUME UNCHANGED <<todo, remote, faults>> PROVE RestOK'
  BY <1>1, Zenon
<1>2. ASSUME Fault, UNCHANGED remote, todo' \in [Reconcilers -> SUBSET Sources] PROVE RestOK'
  BY <1>2, BoundsAssumption DEF Fault
<1>3. ASSUME NEW w \in Workers, WorkerStep(w) PROVE RestOK'
  <2>1. CASE PostAccepted(w) \/ PostRefused(w) \/ PostAnswerLost(w)
    BY <2>1, Zenon DEF PostAccepted, PostRefused, PostAnswerLost
  <2> QED
    BY <1>1, <1>3, <2>1, Zenon
    DEF WorkerStep, Queue, Submit, Run, Store, Transition, EnsureLive, Admit, Saturate, Requeue,
        RecordTask, AwaitVideo, AwaitTimesOut, RecordRequest, CompleteJob, CaptureHold,
        Rejected, Fail, ReleaseHold
<1>4. ASSUME NEW p, ResolveStep(p) PROVE RestOK'
  BY <1>1, <1>4 DEF ResolveStep, MarkFailed, ReleaseFailed, ResolveFailed
<1>5. ASSUME NEW p \in Reconcilers, ReconcilerStep(p) PROVE RestOK'
  <2>1. CASE Select(p)
    BY <2>1, Zenon DEF Select
  <2>2. ASSUME NEW j, Settled1(p, j), UNCHANGED <<remote, faults>> PROVE RestOK'
    BY <2>2, Zenon DEF Settled1
  <2>3. ASSUME Restart(p), UNCHANGED <<remote, faults>> PROVE RestOK'
    BY <2>3 DEF Restart
  <2>4. ASSUME NEW j \in Sources, SettleSucceeded(p, j) \/ SettleUnsuccessful(p, j)
        PROVE  RestOK'
    BY <1>1, <2>2, <2>3, <2>4 DEF SettleSucceeded, SettleUnsuccessful
  <2>5. CASE ReleaseExpired(p) \/ MarkResolved(p)
    BY <2>2, <2>3, <2>5, Zenon DEF ReleaseExpired, MarkResolved
  <2> QED
    BY <1>1, <1>4, <1>5, <2>1, <2>4, <2>5, Zenon
    DEF ReconcilerStep, ReconcileStalled, SelectionDone, ClaimRecovery, NothingToRecover,
        PollTask, Recover, RecoverStore, RecoverTo, RecoverComplete, RecoverCapture, Abandon
<1>6. ASSUME NEW p \in Reconcilers, ReconcilerError(p) PROVE RestOK'
  BY <1>2, <1>6, Zenon DEF ReconcilerError
<1>7. ASSUME NEW p \in Procs, Crash(p) PROVE RestOK'
  <2>1. todo' \in [Reconcilers -> SUBSET Sources]
    BY <1>7, Zenon DEF Crash
  <2> QED
    BY <1>2, <1>7, <2>1, Zenon DEF Crash
<1>8. ASSUME NEW w \in Workers, WorkerError(w) PROVE RestOK'
  BY <1>2, <1>8, Zenon DEF WorkerError
<1>9. ASSUME NEW j \in Sources, HolderPauses(j) \/ ProviderFinishes(j) PROVE RestOK'
  BY <1>2, <1>9 DEF HolderPauses, ProviderFinishes
<1> QED
  BY <1>1, <1>3, <1>4, <1>5, <1>6, <1>7, <1>8, <1>9, Zenon
  DEF Next, Accept, Cancel, OrphanLeaseLapses, HoldExpires, Credit, genVars, Claim,
      OperatorStarts

\* The workflow is type-correct.
THEOREM GenTypeOKAlways == Spec => []GenTypeOK
<1>1. Init => RestOK
  BY BoundsAssumption DEF Init, RestOK
<1>2. ASSUME GenInv, RestOK, [Next]_vars PROVE RestOK'
  <2>1. CASE Next
    BY <1>2, <2>1, NextRest, Zenon DEF GenInv
  <2>2. CASE UNCHANGED vars
    BY <1>2, <2>2, Zenon DEF RestOK, vars, genVars
  <2> QED
    BY <1>2, <2>1, <2>2
<1>3. Spec => []RestOK
  BY <1>1, <1>2, GenerationInvariant, PTL DEF Spec
<1>4. Spec => []BillingTypeOK
  BY WorkflowImplementsBilling, BillingInvariant, PTL DEF BillingInv
<1>5. GenInv /\ RestOK /\ BillingTypeOK => GenTypeOK
  BY Zenon DEF GenInv, ProcsOK, RestOK, SubmissionInv, GenTypeOK
<1> QED
  BY <1>3, <1>4, <1>5, GenerationInvariant, PTL

=============================================================================
