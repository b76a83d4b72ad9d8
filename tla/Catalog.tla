------------------------------ MODULE Catalog -------------------------------
(***************************************************************************)
(* The product catalog and what opens its routes: the seed with its        *)
(* immutable price rows and its activation on live evidence                *)
(* (scripts/seed_product_catalog.py, app/catalog/manifest.py), the default *)
(* entitlements and the decision an admission takes                        *)
(* (app/catalog/repository.py), and the provisioning of the tenant's       *)
(* voices (scripts/provision_demo_voice_resources.py,                      *)
(* app/generations/voice_resources.py).                                    *)
(*                                                                         *)
(* A seed is one transaction.  A provisioning run creates a voice at the   *)
(* provider, stores it, tries it out and only then binds it; it may fail   *)
(* between any two of these.  It holds an advisory lock on a connection of *)
(* its own, which may drop while the run goes on.                          *)
(*                                                                         *)
(* Abstractions: one tenant; one provider endpoint, shared by base and     *)
(* voice routes as in the manifest; a deployment for every product; one    *)
(* revision and policy, which later seeds never replace; a price row       *)
(* serves all products.                                                    *)
(***************************************************************************)
EXTENDS Integers, FiniteSets

CONSTANTS
  BaseModels,     \* BASE_LIVE_PRODUCT_KEYS
  VoiceModels,    \* VOICE_TARGETS
  Releases,       \* source trees, each with a manifest
  NoRelease,
  PriceOf,        \* the price row of each release's manifest
  Runs,           \* provisioning runs
  NoRun,
  Voices,         \* bound: voices the provider creates
  NoVoice,
  MaxTime         \* bound: clock

Models == BaseModels \cup VoiceModels
Versions == {PriceOf[n].version : n \in Releases}
NoPrice == [version |-> 0, from |-> 0, reservation |-> 0, minimum |-> 0, rate |-> 0]

\* parse_local_tariff, on the fields the model keeps.
ValidTariff(p) ==
  /\ {p.reservation, p.minimum, p.rate} \subseteq Nat \ {0}
  /\ p.minimum <= p.reservation

ASSUME CatalogConstants ==
  /\ BaseModels \cap VoiceModels = {}
  /\ NoRelease \notin Releases /\ NoRun \notin Runs /\ NoVoice \notin Voices
  /\ \A n \in Releases : PriceOf[n].version \in Nat \ {0}

VARIABLES
  clock,
  seeded,       \* the release seeded last
  evidence,     \* releases with fresh signed live evidence
  endpoint,     \* provider_endpoints.status
  deployment,   \* model_deployments.status, by product
  prices,       \* price_versions, by version; rows and their bindings
  entitled,     \* tenant_model_entitlements
  voice,        \* their voice_resource, for the voice products
  run, lock,    \* provisioning runs and the advisory lock
  made, heard,  \* history: voices created, voices that synthesised
  lost,         \* history: voices whose run failed before it stored them
  overlapped    \* history: the advisory lock was lost once

catalogVars == <<clock, seeded, evidence, endpoint, deployment, prices, entitled,
                 voice, run, lock, made, heard, lost, overlapped>>
seedVars == <<seeded, evidence, prices, entitled>>
voiceVars == <<voice, run, lock, made, heard, lost, overlapped>>

\* "fresh" is the voice a run has created and not yet stored.
NoRunning == [pc |-> "idle", voices |-> [m \in VoiceModels |-> NoVoice], fresh |-> NoVoice]

CatalogInit ==
  /\ clock = 0
  /\ seeded = NoRelease
  /\ evidence = {}
  /\ endpoint = "none"
  /\ deployment = [m \in Models |-> "none"]
  /\ prices = [v \in Versions |-> NoPrice]
  /\ entitled = {}
  /\ voice = [m \in VoiceModels |-> [status |-> "none", id |-> NoVoice]]
  /\ run = [u \in Runs |-> NoRunning]
  /\ lock = NoRun
  /\ made = {} /\ heard = {} /\ lost = {}
  /\ overlapped = FALSE

-----------------------------------------------------------------------------
(* Routes and decisions. *)

\* resolve_audio_voice_binding: a voice product needs an active voice.
HasVoice(m) == m \in VoiceModels => voice[m].status = "active"

\* _resolve_route: an entitled product with an active deployment and endpoint.
RouteOpen(m) ==
  /\ m \in entitled
  /\ deployment[m] = "active" /\ endpoint = "active"
  /\ HasVoice(m)

\* _accepted_decision_statement: the highest version in force.  No code sets an
\* effective_to, so the tests of it are left out.
InForce == {v \in Versions : prices[v] # NoPrice /\ prices[v].from <= clock}
Decision(v) == v \in InForce /\ \A w \in InForce : w <= v

-----------------------------------------------------------------------------
(* Seeds. *)

\* A tick is a day: evidence is good for no longer.
Tick ==
  /\ clock < MaxTime
  /\ clock' = clock + 1
  /\ evidence' = {}
  /\ UNCHANGED <<seeded, endpoint, deployment, prices, entitled, voiceVars>>

\* provider_smoke --live signs evidence for a tree.
Evidence(n) ==
  /\ n \notin evidence
  /\ evidence' = evidence \cup {n}
  /\ UNCHANGED <<clock, seeded, endpoint, deployment, prices, entitled, voiceVars>>

\* validate_activation_evidence: fresh, signed, passed, and of this very tree.
Evidenced(n) == n \in evidence

\* Mutant: a price row is written over.
PricesOverwritten(n) == prices' = [prices EXCEPT ![PriceOf[n].version] = PriceOf[n]]

\* _upsert_price_versions and _upsert_price_bindings: insert only; a row that
\* differs fails the seed.
UpsertPrices(n) ==
  LET p == PriceOf[n] IN
  /\ ValidTariff(p)
  /\ prices[p.version] \in {NoPrice, p}
  /\ prices' = [prices EXCEPT ![p.version] = p]

\* Mutant: the upsert leaves the status of an existing deployment alone.
DeploymentsKept(open) ==
  [m \in Models |-> IF m \in open THEN "active"
                    ELSE IF deployment[m] = "none" THEN "disabled" ELSE deployment[m]]

\* _upsert_deployments writes "disabled" over the rows of the manifest's products
\* and endpoints, which are all the rows here; activate_base_routes then opens some.
UpsertDeployments(open) ==
  [m \in Models |-> IF m \in open THEN "active" ELSE "disabled"]

\* seed_catalog without --activate.
Seed(n) ==
  /\ UpsertPrices(n)
  /\ seeded' = n
  /\ endpoint' = "degraded"
  /\ deployment' = UpsertDeployments({})
  /\ UNCHANGED <<clock, evidence, entitled, voiceVars>>

\* seed_catalog --activate: the same seed, then activate_base_routes.
SeedActivate(n) ==
  /\ Evidenced(n)
  /\ UpsertPrices(n)
  /\ seeded' = n
  /\ endpoint' = "active"
  /\ deployment' = UpsertDeployments(BaseModels)
  /\ UNCHANGED <<clock, evidence, entitled, voiceVars>>

\* grant_default_entitlements, when the tenant is registered.
GrantDefaults ==
  /\ entitled = {}
  /\ seeded # NoRelease
  /\ entitled' = Models
  /\ UNCHANGED <<clock, seeded, evidence, endpoint, deployment, prices, voiceVars>>

-----------------------------------------------------------------------------
(* Voices. *)

\* A binding that may be used again; the target model it is also compared with is
\* a constant of the source.
StoredVoice(m) == IF voice[m].status \in {"active", "provisioning"} THEN voice[m].id ELSE NoVoice
Missing(u) == {m \in VoiceModels : run[u].voices[m] = NoVoice}

\* _tenant_provision_lock and _load_tenant_bindings: a run with nothing missing
\* and every binding active goes straight to the binding, unless it revalidates.
StartRun(u, revalidate) ==
  LET stored == [m \in VoiceModels |-> StoredVoice(m)]
      live == \/ revalidate
              \/ \E m \in VoiceModels : stored[m] = NoVoice \/ voice[m].status # "active"
  IN
  /\ run[u].pc = "idle"
  /\ lock = NoRun
  /\ VoiceModels \subseteq entitled
  /\ lock' = u
  /\ run' = [run EXCEPT ![u] = [pc |-> IF live THEN "create" ELSE "bind",
                                voices |-> stored, fresh |-> NoVoice]]
  /\ UNCHANGED <<clock, endpoint, deployment, seedVars, voice, made, heard, lost, overlapped>>

\* _create_custom_voice, _create_voice_design: the provider makes a voice.
CreateVoice(u, m, v) ==
  /\ run[u].pc = "create" /\ m \in Missing(u)
  /\ v \notin made
  /\ made' = made \cup {v}
  /\ run' = [run EXCEPT ![u] = [pc |-> "store", voices |-> [@.voices EXCEPT ![m] = v],
                                fresh |-> v]]
  /\ UNCHANGED <<clock, endpoint, deployment, seedVars, voice, lock, heard, lost, overlapped>>

\* Mutant: voices are stored only when they are bound.
StoreVoiceLater(u) ==
  /\ run[u].pc = "store"
  /\ run' = [run EXCEPT ![u] = [@ EXCEPT !.pc = "create", !.fresh = NoVoice]]
  /\ UNCHANGED <<clock, endpoint, deployment, seedVars, voice, lock, made, heard, lost, overlapped>>

\* _persist_provisioning_resource.
StoreVoice(u) ==
  /\ run[u].pc = "store"
  /\ voice' = [m \in VoiceModels |-> IF run[u].voices[m] = run[u].fresh
                                    THEN [status |-> "provisioning", id |-> run[u].fresh]
                                    ELSE voice[m]]
  /\ run' = [run EXCEPT ![u] = [@ EXCEPT !.pc = "create", !.fresh = NoVoice]]
  /\ UNCHANGED <<clock, endpoint, deployment, seedVars, lock, made, heard, lost, overlapped>>

\* Mutant: a voice that was stored before is not tried out.
HearNew(u) ==
  /\ run[u].pc = "create" /\ Missing(u) = {}
  /\ heard' = heard \cup {run[u].voices[m] :
                            m \in {k \in VoiceModels : voice[k].status # "provisioning"}}
  /\ run' = [run EXCEPT ![u].pc = "bind"]
  /\ UNCHANGED <<clock, endpoint, deployment, seedVars, voice, lock, made, lost, overlapped>>

\* The live check: every voice synthesises on its target model.
Hear(u) ==
  /\ run[u].pc = "create" /\ Missing(u) = {}
  /\ heard' = heard \cup {run[u].voices[m] : m \in VoiceModels}
  /\ run' = [run EXCEPT ![u].pc = "bind"]
  /\ UNCHANGED <<clock, endpoint, deployment, seedVars, voice, lock, made, lost, overlapped>>

Unlock(u) == lock' = IF lock = u THEN NoRun ELSE lock

\* _persist_bindings: bindings, deployments and the endpoint in one transaction.
Bind(u) ==
  /\ run[u].pc = "bind"
  /\ voice' = [m \in VoiceModels |-> [status |-> "active", id |-> run[u].voices[m]]]
  /\ deployment' = [m \in Models |-> IF m \in VoiceModels THEN "active" ELSE deployment[m]]
  /\ endpoint' = "active"
  /\ run' = [run EXCEPT ![u] = NoRunning]
  /\ Unlock(u)
  /\ UNCHANGED <<clock, seedVars, made, heard, lost, overlapped>>

\* A provider error, a crash, an ambiguous answer: the run is over.
FailRun(u) ==
  /\ run[u].pc # "idle"
  /\ lost' = IF run[u].pc = "store" THEN lost \cup {run[u].fresh} ELSE lost
  /\ run' = [run EXCEPT ![u] = NoRunning]
  /\ Unlock(u)
  /\ UNCHANGED <<clock, endpoint, deployment, seedVars, voice, made, heard, overlapped>>

\* The connection that holds the advisory lock drops; the run does not notice.
LockDrops ==
  /\ lock # NoRun /\ ~overlapped
  /\ lock' = NoRun
  /\ overlapped' = TRUE
  /\ UNCHANGED <<clock, endpoint, deployment, seedVars, voice, run, made, heard, lost>>

RunStep(u) ==
  \/ \E revalidate \in BOOLEAN : StartRun(u, revalidate)
  \/ \E m \in VoiceModels : \E v \in Voices : CreateVoice(u, m, v)
  \/ StoreVoice(u) \/ Hear(u) \/ Bind(u) \/ FailRun(u)

CatalogNext ==
  \/ Tick
  \/ \E n \in Releases : Evidence(n) \/ Seed(n) \/ SeedActivate(n)
  \/ GrantDefaults
  \/ \E u \in Runs : RunStep(u)
  \/ LockDrops

CatalogSpec == CatalogInit /\ [][CatalogNext]_catalogVars

-----------------------------------------------------------------------------
(* Properties. *)

\* A voice route opens only with a voice that has synthesised on it: not after
\* a run that failed half way and was repeated, not after two runs that
\* overlapped because the advisory lock was lost, not after a re-seed.
BoundVoiceWasHeard ==
  \A m \in VoiceModels : voice[m].status = "active" => voice[m].id \in heard

\* Unless the advisory lock is lost, a paid provider voice is forgotten only
\* when the run that made it fails before it stores it; a repeated run takes up
\* what an earlier one left.
Kept == {voice[m].id : m \in VoiceModels}
        \cup {run[u].fresh : u \in Runs}

VoicesAreKept == ~overlapped => made \subseteq Kept \cup lost

\* A base route is open only while the release seeded last was activated on
\* evidence of its own: a later seed without evidence closes it, also when
\* provisioning has opened the endpoint for the voices in between.
EvidencedStep ==
  \A m \in BaseModels :
    deployment'[m] = "active" /\ (deployment[m] # "active" \/ seeded' # seeded)
      => seeded' \in evidence

BaseRoutesEvidenced == [][EvidencedStep]_catalogVars

=============================================================================
