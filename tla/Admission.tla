----------------------------- MODULE Admission ------------------------------
(***************************************************************************)
(* Catalog and wallet together: a job is accepted at the price the catalog *)
(* has in force, holds that price's reservation, runs if its route is      *)
(* still open, and is charged for its usage, whatever seeds and voice      *)
(* provisioning do to the catalog meanwhile.  app/generations/repository.py*)
(* (accept, complete), app/generations/resolver.py, app/billing/pricing.py *)
(* and the pricing half of app/billing/service.py.  The leases, retries    *)
(* and recovery a job goes through in between are module Generation's, and *)
(* so is a wallet that is frozen meanwhile.                                *)
(***************************************************************************)
EXTENDS Billing, Catalog

CONSTANTS UsageUnits    \* metered units a job may come to

ASSUME UnitsAssumption == UsageUnits \subseteq Nat

VARIABLES
  job,      \* generation_jobs: status, product and accepted_price_version_id
  usage,    \* usage_records: units and charge_amount_minor
  terms     \* history: the price row a job was accepted at

vars == <<billingVars, catalogVars, job, usage, terms>>

NoJob == [status |-> "none", model |-> NoVoice, version |-> 0]
NoUsage == [units |-> 0, charge |-> 0]

Init ==
  /\ BillingInit /\ CatalogInit
  /\ job = [s \in Sources |-> NoJob]
  /\ usage = [s \in Sources |-> NoUsage]
  /\ terms = [s \in Sources |-> NoPrice]

\* charge_for_usage.
ChargeForUsage(p, units) == p.minimum + units * p.rate

\* _price_for_reservation: the row the job's foreign key names.
AcceptedPrice(s) == prices[job[s].version]

\* accept: route, decision, job and hold in one transaction.  A request whose
\* idempotency key is known answers with the job it made, and changes nothing.
Accept(s, m, v) ==
  /\ job[s].status = "none"
  /\ RouteOpen(m) /\ Decision(v)
  /\ Hold(s, prices[v].reservation)
  /\ job' = [job EXCEPT ![s] = [status |-> "accepted", model |-> m, version |-> v]]
  /\ terms' = [terms EXCEPT ![s] = prices[v]]
  /\ UNCHANGED <<catalogVars, usage>>

\* resolve: the route is looked up again when the job runs.
Execute(s) ==
  /\ job[s].status = "accepted"
  /\ job' = [job EXCEPT ![s].status = IF RouteOpen(job[s].model) THEN "running" ELSE "failed"]
  /\ UNCHANGED <<billingVars, catalogVars, usage, terms>>

\* complete: the usage row records the charge at the accepted price.
Complete(s, units) ==
  /\ job[s].status = "running"
  /\ job' = [job EXCEPT ![s].status = "succeeded"]
  /\ usage' = [usage EXCEPT ![s] = [units |-> units,
                                    charge |-> ChargeForUsage(AcceptedPrice(s), units)]]
  /\ UNCHANGED <<billingVars, catalogVars, terms>>

\* mark_failed.
Fail(s) ==
  /\ job[s].status = "running"
  /\ job' = [job EXCEPT ![s].status = "failed"]
  /\ UNCHANGED <<billingVars, catalogVars, usage, terms>>

\* capture computes the charge again, and refuses a usage row that differs.
Settle(s) ==
  LET charge == ChargeForUsage(AcceptedPrice(s), usage[s].units) IN
  /\ job[s].status = "succeeded"
  /\ usage[s].charge \in {0, charge}
  /\ Capture(s, charge)
  /\ UNCHANGED <<catalogVars, job, usage, terms>>

\* A failed job's hold is released; a hold that lapsed before it was captured
\* is released by reconciliation.
GiveBack(s) ==
  /\ \/ job[s].status = "failed"
     \/ job[s].status = "succeeded" /\ resv[s].lapsed
  /\ Release(s)
  /\ UNCHANGED <<catalogVars, job, usage, terms>>

WalletStep ==
  /\ \/ \E s \in Sources : HoldLapses(s)
     \/ \E g \in Grants : Grant(g)
  /\ UNCHANGED <<catalogVars, job, usage, terms>>

CatalogStep == CatalogNext /\ UNCHANGED <<billingVars, job, usage, terms>>

Next ==
  \/ \E s \in Sources :
       \/ \E m \in Models : \E v \in Versions : Accept(s, m, v)
       \/ Execute(s)
       \/ \E units \in UsageUnits : Complete(s, units)
       \/ Fail(s) \/ Settle(s) \/ GiveBack(s)
  \/ WalletStep
  \/ CatalogStep

Spec == Init /\ [][Next]_vars

-----------------------------------------------------------------------------
(* Properties. *)

\* The terms a job was accepted at stand: the hold is their reservation, the
\* recorded and the captured charge are what they make of the usage, and so is
\* the charge capture will compute, which must agree with the recorded one or
\* the job is never settled.  Meanwhile seeds add prices, reuse a version for
\* another price or close the route.
AcceptedTermsStand ==
  \A s \in Sources :
    LET p == terms[s]
        due == ChargeForUsage(p, usage[s].units)
    IN
    /\ resv[s].status # "none" => resv[s].amount = p.reservation
    /\ job[s].status = "succeeded" =>
         usage[s].charge = due /\ ChargeForUsage(AcceptedPrice(s), usage[s].units) = due
    /\ resv[s].status = "committed" => resv[s].captured = due

=============================================================================
