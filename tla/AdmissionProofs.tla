--------------------------- MODULE AdmissionProofs ---------------------------
(***************************************************************************)
(* Proofs about the catalog, the provisioning of voices, and the jobs that *)
(* are accepted and settled meanwhile, for every set of products, releases *)
(* and runs and any number of jobs.  The first part is about the catalog   *)
(* on its own; the second shows that a job is settled at the terms it was  *)
(* accepted at and that the first part holds while jobs run.  The third is *)
(* about the outbox, whose relays and consumers hand accepted work over.   *)
(***************************************************************************)
EXTENDS Admission, Outbox, TLAPS

\* A positive number below a bounded one is within the bound.
LEMMA Between ==
  ASSUME NEW k \in Nat, NEW a \in Nat, NEW b \in Nat, k # 0, k <= a, a <= b
  PROVE  k \in 1 .. b
OBVIOUS

-----------------------------------------------------------------------------
(* The inductive invariant of the catalog. *)

AnyVoice == Voices \cup {NoVoice}

VoiceTypeOK ==
  /\ voice \in [VoiceModels -> [status : {"none", "provisioning", "active"}, id : AnyVoice]]
  /\ run \in [Runs -> [pc : {"idle", "create", "store", "bind"},
                       voices : [VoiceModels -> AnyVoice], fresh : AnyVoice]]
  /\ lock \in Runs \cup {NoRun}
  /\ made \subseteq Voices
  /\ overlapped \in BOOLEAN

\* What is bound, or about to be, was heard.
HeardOK ==
  /\ BoundVoiceWasHeard
  /\ \A u \in Runs : run[u].pc = "bind" => \A m \in VoiceModels : run[u].voices[m] \in heard

\* A run that has the lock for itself knows every stored voice; only the one it
\* has just created is not stored.
Knows(u) ==
  /\ lock = u
  /\ \A m \in VoiceModels :
       \/ run[u].voices[m] = voice[m].id
       \/ run[u].pc = "store" /\ run[u].voices[m] = run[u].fresh /\ voice[m].id = NoVoice

RunOK(u) ==
  /\ run[u].pc # "store" => run[u].fresh = NoVoice
  /\ run[u].pc = "store" => \E m \in VoiceModels : run[u].voices[m] = run[u].fresh
  /\ ~overlapped /\ run[u].pc # "idle" => Knows(u)

KeptOK ==
  /\ \A m \in VoiceModels : voice[m].status = "none" => voice[m].id = NoVoice
  /\ \A u \in Runs : RunOK(u)
  /\ VoicesAreKept

CatalogInv == VoiceTypeOK /\ HeardOK /\ KeptOK

\* The first state satisfies the invariant.
LEMMA CatalogInitially ==
  ASSUME CatalogInit
  PROVE  CatalogInv
<1>1. VoiceTypeOK
  BY Zenon DEF CatalogInit, VoiceTypeOK, NoRunning, AnyVoice
<1>2. HeardOK
  BY DEF CatalogInit, HeardOK, BoundVoiceWasHeard, NoRunning
<1>3. KeptOK
  BY DEF CatalogInit, KeptOK, RunOK, VoicesAreKept, NoRunning
<1> QED
  BY <1>1, <1>2, <1>3 DEF CatalogInv

\* Only steps of runs, and the loss of the lock, touch the voices.
LEMMA VoicesUntouched ==
  ASSUME CatalogInv, UNCHANGED voiceVars
  PROVE  CatalogInv'
BY DEF voiceVars, CatalogInv, VoiceTypeOK, HeardOK, BoundVoiceWasHeard, KeptOK, RunOK, Knows,
       VoicesAreKept, Kept

-----------------------------------------------------------------------------
(* Steps of a provisioning run. *)

\* StartRun reads what is stored; nobody else is running, or the lock was lost.
LEMMA StartRunStep ==
  ASSUME CatalogInv, NEW u \in Runs, NEW revalidate \in BOOLEAN, StartRun(u, revalidate)
  PROVE  CatalogInv'
<1> USE DEF CatalogInv
<1> DEFINE stored == [m \in VoiceModels |-> StoredVoice(m)]
           live == \/ revalidate
                   \/ \E m \in VoiceModels : stored[m] = NoVoice \/ voice[m].status # "active"
           next == [pc |-> IF live THEN "create" ELSE "bind", voices |-> stored, fresh |-> NoVoice]
<1>1. /\ lock = NoRun /\ lock' = u /\ run' = [run EXCEPT ![u] = next] /\ run[u].pc = "idle"
      /\ UNCHANGED <<voice, made, heard, lost, overlapped>>
  BY DEF StartRun
<1>2. \A m \in VoiceModels : stored[m] = voice[m].id /\ voice[m].id \in AnyVoice
  BY DEF VoiceTypeOK, KeptOK, StoredVoice
<1>3. /\ stored \in [VoiceModels -> AnyVoice]
      /\ next.pc \in {"create", "bind"} /\ next.voices = stored /\ next.fresh = NoVoice
      /\ next.pc = "bind" => \A m \in VoiceModels : voice[m].status = "active"
  BY <1>2
<1> HIDE DEF stored, live
<1>4. next \in [pc : {"idle", "create", "store", "bind"}, voices : [VoiceModels -> AnyVoice],
              fresh : AnyVoice]
  BY <1>3 DEF AnyVoice
<1> HIDE DEF next
<1>5. VoiceTypeOK'
  BY <1>1, <1>4 DEF VoiceTypeOK
<1>6. HeardOK'
  BY <1>1, <1>2, <1>3 DEF VoiceTypeOK, HeardOK, BoundVoiceWasHeard
<1>7. \A x \in Runs : RunOK(x)'
  <2>1. RunOK(u)'
    BY <1>1, <1>2, <1>3 DEF VoiceTypeOK, RunOK, Knows
  <2>2. ASSUME NEW x \in Runs \ {u} PROVE RunOK(x)'
    <3>1. ~overlapped => run[x].pc = "idle"
      BY <1>1, CatalogConstants DEF KeptOK, RunOK, Knows
    <3> QED
      BY <1>1, <3>1 DEF VoiceTypeOK, KeptOK, RunOK, Knows
  <2> QED
    BY <2>1, <2>2
<1>8. VoicesAreKept'
  <2>1. \A x \in Runs : run'[x].fresh = run[x].fresh
    BY <1>1, <1>3 DEF VoiceTypeOK, KeptOK, RunOK
  <2> QED
    BY <1>1, <2>1 DEF KeptOK, VoicesAreKept, Kept
<1> QED
  BY <1>1, <1>5, <1>6, <1>7, <1>8 DEF KeptOK

\* While the lock is kept, other runs than the one that works are idle.
LEMMA Alone ==
  ASSUME CatalogInv, ~overlapped, NEW u \in Runs, run[u].pc # "idle", NEW x \in Runs \ {u}
  PROVE  run[x].pc = "idle"
BY DEF CatalogInv, KeptOK, RunOK, Knows

\* CreateVoice: the new voice is the run's fresh one.
LEMMA CreateVoiceStep ==
  ASSUME CatalogInv, NEW u \in Runs, NEW m \in VoiceModels, NEW v \in Voices,
         CreateVoice(u, m, v)
  PROVE  CatalogInv'
<1> USE DEF CatalogInv
<1> DEFINE next == [pc |-> "store", voices |-> [run[u].voices EXCEPT ![m] = v], fresh |-> v]
<1>1. /\ run[u].pc = "create" /\ run[u].voices[m] = NoVoice
      /\ made' = made \cup {v} /\ run' = [run EXCEPT ![u] = next]
      /\ UNCHANGED <<voice, lock, heard, lost, overlapped>>
  BY DEF CreateVoice, Missing
<1>2. /\ next.pc = "store" /\ next.fresh = v /\ next.voices[m] = v
      /\ \A k \in VoiceModels \ {m} : next.voices[k] = run[u].voices[k]
      /\ next \in [pc : {"idle", "create", "store", "bind"}, voices : [VoiceModels -> AnyVoice],
                 fresh : AnyVoice]
  BY DEF VoiceTypeOK, AnyVoice
<1> HIDE DEF next
<1>3. VoiceTypeOK'
  BY <1>1, <1>2 DEF VoiceTypeOK
<1>4. HeardOK'
  BY <1>1, <1>2 DEF VoiceTypeOK, HeardOK, BoundVoiceWasHeard
<1>5. \A x \in Runs : RunOK(x)'
  <2>1. RunOK(u)'
    BY <1>1, <1>2 DEF VoiceTypeOK, KeptOK, RunOK, Knows
  <2>2. ASSUME NEW x \in Runs \ {u} PROVE RunOK(x)'
    BY <1>1 DEF VoiceTypeOK, KeptOK, RunOK, Knows
  <2> QED
    BY <2>1, <2>2
<1>6. VoicesAreKept'
  <2>1. run'[u].fresh = v /\ run[u].fresh = NoVoice
    BY <1>1, <1>2 DEF VoiceTypeOK, KeptOK, RunOK
  <2>2. \A x \in Runs \ {u} : run'[x].fresh = run[x].fresh
    BY <1>1 DEF VoiceTypeOK
  <2>3. NoVoice \notin made
    BY CatalogConstants DEF VoiceTypeOK
  <2>4. \A w \in Kept : w = NoVoice \/ w \in Kept'
    BY <1>1, <2>1, <2>2 DEF Kept
  <2>5. v \in Kept'
    BY <2>1 DEF Kept
  <2> QED
    BY <1>1, <2>3, <2>4, <2>5 DEF KeptOK, VoicesAreKept
<1> QED
  BY <1>1, <1>3, <1>4, <1>5, <1>6 DEF KeptOK

\* StoreVoice: the fresh voice takes the place of none.
LEMMA StoreVoiceStep ==
  ASSUME CatalogInv, NEW u \in Runs, StoreVoice(u)
  PROVE  CatalogInv'
<1> USE DEF CatalogInv
<1> DEFINE fresh == run[u].fresh
           stored == [status |-> "provisioning", id |-> fresh]
           next == [run[u] EXCEPT !.pc = "create", !.fresh = NoVoice]
<1>1. /\ run[u].pc = "store"
      /\ voice' = [m \in VoiceModels |-> IF run[u].voices[m] = fresh THEN stored ELSE voice[m]]
      /\ run' = [run EXCEPT ![u] = next]
      /\ UNCHANGED <<lock, made, heard, lost, overlapped>>
  BY DEF StoreVoice
<1>2. /\ next.pc = "create" /\ next.fresh = NoVoice /\ next.voices = run[u].voices
      /\ next \in [pc : {"idle", "create", "store", "bind"}, voices : [VoiceModels -> AnyVoice],
                 fresh : AnyVoice]
  BY Zenon DEF VoiceTypeOK, AnyVoice
<1>3. fresh \in AnyVoice
  BY DEF VoiceTypeOK
<1> HIDE DEF next, fresh
<1>4. VoiceTypeOK'
  BY <1>1, <1>2, <1>3 DEF VoiceTypeOK
<1>5. \A m \in VoiceModels : IF run[u].voices[m] = fresh
                              THEN voice'[m].status = "provisioning" /\ voice'[m].id = fresh
                              ELSE voice'[m] = voice[m]
  BY <1>1
<1>6. HeardOK'
  BY <1>1, <1>2, <1>5 DEF VoiceTypeOK, HeardOK, BoundVoiceWasHeard
<1>7. \A m \in VoiceModels : voice'[m].status = "none" => voice'[m].id = NoVoice
  BY <1>5 DEF KeptOK
<1>8. \A x \in Runs : RunOK(x)'
  <2>1. RunOK(u)'
    BY <1>1, <1>2, <1>5 DEF VoiceTypeOK, KeptOK, RunOK, Knows, fresh
  <2>2. ASSUME NEW x \in Runs \ {u} PROVE RunOK(x)'
    <3>1. run'[x] = run[x] /\ (~overlapped => run[x].pc = "idle")
      BY <1>1, Alone DEF VoiceTypeOK
    <3> QED
      BY <1>1, <3>1 DEF KeptOK, RunOK
  <2> QED
    BY <2>1, <2>2
<1>9. VoicesAreKept'
  <2> SUFFICES ASSUME ~overlapped, NEW w \in made PROVE w \in Kept' \cup lost'
    BY <1>1 DEF VoicesAreKept
  <2>1. w # NoVoice /\ w \in Kept \cup lost
    BY CatalogConstants DEF VoiceTypeOK, KeptOK, VoicesAreKept
  <2>2. Knows(u)
    BY <1>1, Zenon DEF KeptOK, RunOK
  <2>3. fresh \in Kept'
    BY <1>1, <1>5, Zenon DEF KeptOK, RunOK, Kept, fresh
  <2>4. ASSUME NEW m \in VoiceModels, w = voice[m].id PROVE w \in Kept'
    <3>1. voice'[m].id = w
      BY <1>5, <2>1, <2>2, <2>4 DEF Knows, fresh
    <3> QED
      BY <3>1 DEF Kept
  <2>5. ASSUME NEW x \in Runs, w = run[x].fresh PROVE w \in Kept'
    <3>1. CASE x = u
      BY <2>3, <2>5, <3>1 DEF fresh
    <3>2. CASE x # u
      <4>1. run'[x].fresh = w
        BY <1>1, <2>5, <3>2 DEF VoiceTypeOK
      <4> QED
        BY <4>1 DEF Kept
    <3> QED
      BY <3>1, <3>2
  <2> QED
    BY <1>1, <2>1, <2>4, <2>5 DEF Kept
<1> QED
  BY <1>4, <1>6, <1>7, <1>8, <1>9 DEF KeptOK

\* Hear: every voice of the run has synthesised.
LEMMA HearStep ==
  ASSUME CatalogInv, NEW u \in Runs, Hear(u)
  PROVE  CatalogInv'
<1> USE DEF CatalogInv
<1> DEFINE next == [run[u] EXCEPT !.pc = "bind"]
<1>1. /\ run[u].pc = "create" /\ heard' = heard \cup {run[u].voices[m] : m \in VoiceModels}
      /\ run' = [run EXCEPT ![u] = next] /\ UNCHANGED <<voice, lock, made, lost, overlapped>>
  BY DEF Hear, VoiceTypeOK
<1>2. /\ next.pc = "bind" /\ next.voices = run[u].voices /\ next.fresh = run[u].fresh
      /\ next \in [pc : {"idle", "create", "store", "bind"}, voices : [VoiceModels -> AnyVoice],
                 fresh : AnyVoice]
  BY DEF VoiceTypeOK
<1> HIDE DEF next
<1>3. VoiceTypeOK'
  BY <1>1, <1>2 DEF VoiceTypeOK
<1>4. HeardOK'
  BY <1>1, <1>2 DEF VoiceTypeOK, HeardOK, BoundVoiceWasHeard
<1>5. \A x \in Runs : RunOK(x)'
  BY <1>1, <1>2 DEF VoiceTypeOK, KeptOK, RunOK, Knows
<1>6. VoicesAreKept'
  <2>1. \A x \in Runs : run'[x].fresh = run[x].fresh
    BY <1>1, <1>2 DEF VoiceTypeOK
  <2> QED
    BY <1>1, <2>1, Zenon DEF KeptOK, VoicesAreKept, Kept
<1> QED
  BY <1>1, <1>3, <1>4, <1>5, <1>6 DEF KeptOK

\* A run that is over, bound or failed, leaves the lock to others.
LEMMA RunOver ==
  ASSUME CatalogInv, NEW u \in Runs, run' = [run EXCEPT ![u] = NoRunning], Unlock(u),
         UNCHANGED <<made, overlapped>>, \A x \in Runs \ {u} : ~overlapped => run[x].pc = "idle"
  PROVE  /\ run' \in [Runs -> [pc : {"idle", "create", "store", "bind"},
                               voices : [VoiceModels -> AnyVoice], fresh : AnyVoice]]
         /\ lock' \in Runs \cup {NoRun}
         /\ run'[u].pc = "idle"
         /\ \A x \in Runs \ {u} : run'[x] = run[x]
         /\ \A x \in Runs : RunOK(x)'
<1> USE DEF CatalogInv
<1>1. /\ NoRunning.pc = "idle" /\ NoRunning.fresh = NoVoice
      /\ NoRunning \in [pc : {"idle", "create", "store", "bind"},
                        voices : [VoiceModels -> AnyVoice], fresh : AnyVoice]
  BY DEF NoRunning, AnyVoice
<1>2. run'[u] = NoRunning /\ \A x \in Runs \ {u} : run'[x] = run[x]
  BY DEF VoiceTypeOK
<1>3. RunOK(u)'
  BY <1>1, <1>2 DEF RunOK
<1>4. \A x \in Runs \ {u} : RunOK(x)'
  BY <1>2 DEF KeptOK, RunOK
<1> QED
  BY <1>1, <1>2, <1>3, <1>4 DEF VoiceTypeOK, Unlock

\* Bind: what is bound was heard, and nothing stored is replaced.
LEMMA BindStep ==
  ASSUME CatalogInv, NEW u \in Runs, Bind(u)
  PROVE  CatalogInv'
<1> USE DEF CatalogInv
<1>1. /\ run[u].pc = "bind" /\ run' = [run EXCEPT ![u] = NoRunning] /\ Unlock(u)
      /\ voice' = [m \in VoiceModels |-> [status |-> "active", id |-> run[u].voices[m]]]
      /\ UNCHANGED <<made, heard, lost, overlapped>>
  BY DEF Bind
<1>2. \A x \in Runs \ {u} : ~overlapped => run[x].pc = "idle"
  BY <1>1, Alone
<1>3. /\ run' \in [Runs -> [pc : {"idle", "create", "store", "bind"},
                            voices : [VoiceModels -> AnyVoice], fresh : AnyVoice]]
      /\ lock' \in Runs \cup {NoRun} /\ run'[u].pc = "idle"
      /\ \A x \in Runs \ {u} : run'[x] = run[x]
      /\ \A x \in Runs : RunOK(x)'
  BY <1>1, <1>2, RunOver, Zenon
<1>4. \A m \in VoiceModels : voice'[m].status = "active" /\ voice'[m].id = run[u].voices[m]
  BY <1>1
<1>5. VoiceTypeOK'
  BY <1>1, <1>3 DEF VoiceTypeOK
<1>6. HeardOK'
  <2>1. \A m \in VoiceModels : run[u].voices[m] \in heard
    BY <1>1 DEF HeardOK
  <2>2. \A x \in Runs : run'[x].pc = "bind" => run'[x] = run[x]
    BY <1>3
  <2> QED
    BY <1>1, <1>4, <2>1, <2>2 DEF HeardOK, BoundVoiceWasHeard
<1>7. VoicesAreKept'
  <2> SUFFICES ASSUME ~overlapped, NEW w \in made PROVE w \in Kept' \cup lost'
    BY <1>1 DEF VoicesAreKept
  <2>1. w # NoVoice /\ w \in Kept \cup lost
    BY CatalogConstants DEF VoiceTypeOK, KeptOK, VoicesAreKept
  <2>2. Knows(u) /\ run[u].fresh = NoVoice
    BY <1>1, Zenon DEF KeptOK, RunOK
  <2>3. ASSUME NEW m \in VoiceModels, w = voice[m].id PROVE w \in Kept'
    <3>1. voice'[m].id = w
      BY <1>1, <1>4, <2>2, <2>3, Zenon DEF Knows
    <3> QED
      BY <3>1 DEF Kept
  <2>4. ASSUME NEW x \in Runs, w = run[x].fresh PROVE w \in Kept'
    <3>1. run'[x].fresh = w
      BY <1>3, <2>1, <2>2, <2>4
    <3> QED
      BY <3>1 DEF Kept
  <2> QED
    BY <1>1, <2>1, <2>3, <2>4 DEF Kept
<1> QED
  BY <1>3, <1>4, <1>5, <1>6, <1>7, Zenon DEF KeptOK

\* FailRun: only a voice that was not stored yet is lost.
LEMMA FailRunStep ==
  ASSUME CatalogInv, NEW u \in Runs, FailRun(u)
  PROVE  CatalogInv'
<1> USE DEF CatalogInv
<1>1. /\ run[u].pc # "idle" /\ run' = [run EXCEPT ![u] = NoRunning] /\ Unlock(u)
      /\ lost' = IF run[u].pc = "store" THEN lost \cup {run[u].fresh} ELSE lost
      /\ UNCHANGED <<voice, made, heard, overlapped>>
  BY DEF FailRun
<1>2. \A x \in Runs \ {u} : ~overlapped => run[x].pc = "idle"
  BY <1>1, Alone
<1>3. /\ run' \in [Runs -> [pc : {"idle", "create", "store", "bind"},
                            voices : [VoiceModels -> AnyVoice], fresh : AnyVoice]]
      /\ lock' \in Runs \cup {NoRun} /\ run'[u].pc = "idle"
      /\ \A x \in Runs \ {u} : run'[x] = run[x]
      /\ \A x \in Runs : RunOK(x)'
  BY <1>1, <1>2, RunOver, Zenon
<1>4. VoiceTypeOK'
  BY <1>1, <1>3 DEF VoiceTypeOK
<1>5. HeardOK'
  BY <1>1, <1>3 DEF HeardOK, BoundVoiceWasHeard
<1>6. VoicesAreKept'
  <2> SUFFICES ASSUME ~overlapped, NEW w \in made PROVE w \in Kept' \cup lost'
    BY <1>1 DEF VoicesAreKept
  <2>1. w # NoVoice /\ w \in Kept \cup lost
    BY CatalogConstants DEF VoiceTypeOK, KeptOK, VoicesAreKept
  <2>2. ASSUME NEW m \in VoiceModels, w = voice[m].id PROVE w \in Kept'
    BY <1>1, <2>2 DEF Kept
  <2>3. ASSUME NEW x \in Runs, w = run[x].fresh PROVE w \in Kept' \cup lost'
    <3>1. CASE x = u
      BY <1>1, <2>1, <2>3, <3>1, Zenon DEF KeptOK, RunOK
    <3>2. CASE x # u
      BY <1>3, <2>3, <3>2 DEF Kept
    <3> QED
      BY <3>1, <3>2
  <2> QED
    BY <1>1, <2>1, <2>2, <2>3 DEF Kept
<1> QED
  BY <1>1, <1>3, <1>4, <1>5, <1>6, Zenon DEF KeptOK

\* LockDrops: from now on runs may overlap.
LEMMA LockDropsStep ==
  ASSUME CatalogInv, LockDrops
  PROVE  CatalogInv'
BY Zenon DEF LockDrops, CatalogInv, VoiceTypeOK, HeardOK, BoundVoiceWasHeard, KeptOK, RunOK, VoicesAreKept

-----------------------------------------------------------------------------
(* Theorems about the catalog. *)

\* Every step keeps the invariant.
LEMMA CatalogStepKeeps ==
  ASSUME CatalogInv, [CatalogNext]_catalogVars
  PROVE  CatalogInv'
<1>1. CASE Tick \/ GrantDefaults \/ \E n \in Releases : Evidence(n) \/ Seed(n) \/ SeedActivate(n)
  <2>1. UNCHANGED voiceVars
    BY <1>1 DEF Tick, GrantDefaults, Evidence, Seed, SeedActivate
  <2> QED
    BY <2>1, VoicesUntouched
<1>2. ASSUME NEW u \in Runs, RunStep(u) PROVE CatalogInv'
  BY <1>2, StartRunStep, CreateVoiceStep, StoreVoiceStep, HearStep, BindStep, FailRunStep
  DEF RunStep
<1>3. CASE LockDrops
  BY <1>3, LockDropsStep
<1>4. CASE UNCHANGED catalogVars
  BY <1>4, VoicesUntouched DEF catalogVars, voiceVars
<1> QED
  BY <1>1, <1>2, <1>3, <1>4 DEF CatalogNext

\* The inductive invariant of voices and provisioning runs.
THEOREM CatalogInvariant == CatalogSpec => []CatalogInv
<1>1. CatalogInit => CatalogInv
  BY CatalogInitially
<1>2. CatalogInv /\ [CatalogNext]_catalogVars => CatalogInv'
  BY CatalogStepKeeps
<1> QED
  BY <1>1, <1>2, PTL DEF CatalogSpec

\* A voice route is bound only to a voice that has synthesised.
THEOREM BoundVoiceWasHeardAlways == CatalogSpec => []BoundVoiceWasHeard
<1>1. CatalogInv => BoundVoiceWasHeard
  BY DEF CatalogInv, HeardOK
<1> QED
  BY <1>1, CatalogInvariant, PTL

\* While the advisory lock is kept, provisioning forgets no stored voice.
THEOREM VoicesAreKeptAlways == CatalogSpec => []VoicesAreKept
<1>1. CatalogInv => VoicesAreKept
  BY DEF CatalogInv, KeptOK
<1> QED
  BY <1>1, CatalogInvariant, PTL

\* Only a seed of a release with evidence opens a base route or leaves it open.
THEOREM BaseRoutesEvidencedAlways == CatalogSpec => BaseRoutesEvidenced
<1>1. ASSUME [CatalogNext]_catalogVars PROVE [EvidencedStep]_catalogVars
  <2> SUFFICES ASSUME CatalogNext PROVE EvidencedStep
    BY <1>1
  <2>1. ASSUME NEW n \in Releases, Seed(n) \/ SeedActivate(n) PROVE EvidencedStep
    BY <2>1 DEF Seed, SeedActivate, UpsertDeployments, Evidenced, EvidencedStep, Models
  <2>2. ASSUME NEW u \in Runs, Bind(u) PROVE EvidencedStep
    BY <2>2, CatalogConstants, Zenon DEF Bind, EvidencedStep, Models, seedVars
  <2>3. ASSUME UNCHANGED <<deployment, seeded>> PROVE EvidencedStep
    BY <2>3 DEF EvidencedStep
  <2> QED
    BY <2>1, <2>2, <2>3, Zenon
    DEF CatalogNext, Tick, GrantDefaults, Evidence, RunStep, StartRun, CreateVoice, StoreVoice,
        Hear, FailRun, LockDrops, seedVars
<1> QED
  BY <1>1, PTL DEF CatalogSpec, BaseRoutesEvidenced

-----------------------------------------------------------------------------
(* The inductive invariant of the jobs. *)

JobStatus == {"none", "accepted", "running", "succeeded", "failed"}

\* Price rows that were written are valid tariffs.
PricesOK ==
  /\ prices = [v \in Versions |-> prices[v]]
  /\ \A v \in Versions : prices[v] # NoPrice => ValidTariff(prices[v])

TermsTypeOK ==
  /\ resv \in [Sources -> Reservation]
  /\ job = [s \in Sources |-> job[s]]
  /\ \A s \in Sources : job[s] = [status |-> job[s].status, model |-> job[s].model,
                                  version |-> job[s].version]
  /\ \A s \in Sources : job[s].status \in JobStatus
  /\ usage \in [Sources -> [units : Nat, charge : Nat]]
  /\ terms = [s \in Sources |-> terms[s]]

\* An accepted job names the row it was accepted at; hold, recorded charge and
\* captured charge follow from that row.
TermsOK(s) ==
  /\ job[s].status = "none" => resv[s].status = "none"
  /\ job[s].status # "none" =>
       /\ job[s].version \in Versions
       /\ prices[job[s].version] # NoPrice
       /\ terms[s] = prices[job[s].version]
  /\ resv[s].status # "none" => resv[s].amount = terms[s].reservation
  /\ job[s].status = "succeeded" => usage[s].charge = ChargeForUsage(terms[s], usage[s].units)
  /\ resv[s].status = "committed" =>
       /\ job[s].status = "succeeded"
       /\ resv[s].captured = ChargeForUsage(terms[s], usage[s].units)

TermsInv == PricesOK /\ TermsTypeOK /\ \A s \in Sources : TermsOK(s)

\* The charge of a valid tariff is an amount.
LEMMA ChargeType ==
  ASSUME NEW p, ValidTariff(p), NEW units \in Nat
  PROVE  ChargeForUsage(p, units) \in Nat
<1>1. p.minimum \in Nat /\ p.rate \in Nat
  BY DEF ValidTariff
<1>2. units * p.rate \in Nat
  BY <1>1
<1> QED
  BY <1>1, <1>2 DEF ChargeForUsage

\* The first state satisfies the invariant.
LEMMA TermsInitially ==
  ASSUME Init
  PROVE  TermsInv
<1>1. PricesOK
  BY DEF Init, CatalogInit, PricesOK
<1>2. TermsTypeOK
  BY DEF Init, BillingInit, TermsTypeOK, NoReservation, Reservation, ReservationStatus, NoAmount,
         NoJob, NoUsage, JobStatus
<1>3. \A s \in Sources : TermsOK(s)
  BY Zenon DEF Init, BillingInit, TermsOK, NoReservation, NoJob
<1> QED
  BY <1>1, <1>2, <1>3 DEF TermsInv

\* The catalog never changes a price row that was written: seeds insert, or
\* fail.
LEMMA PricesStand ==
  ASSUME PricesOK, CatalogNext
  PROVE  PricesOK' /\ \A v \in Versions : prices[v] # NoPrice => prices'[v] = prices[v]
<1>1. CASE prices' = prices
  BY <1>1 DEF PricesOK
<1>2. ASSUME NEW n \in Releases, UpsertPrices(n)
      PROVE  PricesOK' /\ \A v \in Versions : prices[v] # NoPrice => prices'[v] = prices[v]
  <2> DEFINE w == PriceOf[n].version
  <2>1. w \in Versions /\ w \in Nat \ {0}
    BY CatalogConstants DEF Versions
  <2>2. PriceOf[n] # NoPrice
    BY <2>1 DEF NoPrice
  <2>3. ValidTariff(PriceOf[n]) /\ prices[w] \in {NoPrice, PriceOf[n]}
    BY <1>2 DEF UpsertPrices
  <2>4. prices' = [prices EXCEPT ![w] = PriceOf[n]]
    BY <1>2 DEF UpsertPrices
  <2>5. prices'[w] = PriceOf[n] /\ \A v \in Versions \ {w} : prices'[v] = prices[v]
    BY <2>1, <2>4 DEF PricesOK
  <2>6. prices' = [v \in Versions |-> prices'[v]]
    BY <2>1, <2>4 DEF PricesOK
  <2> QED
    BY <2>1, <2>2, <2>3, <2>5, <2>6 DEF PricesOK
<1> QED
  BY <1>1, <1>2, Zenon
  DEF CatalogNext, Tick, Evidence, Seed, SeedActivate, GrantDefaults, RunStep, StartRun,
      CreateVoice, StoreVoice, Hear, Bind, FailRun, LockDrops, seedVars

-----------------------------------------------------------------------------
(* Steps. *)

\* The terms of a job hold as long as its rows and the price table stand.
LEMMA TermsStand ==
  ASSUME NEW t \in Sources, TermsOK(t), job'[t] = job[t], resv'[t] = resv[t],
         usage'[t] = usage[t], terms'[t] = terms[t], prices' = prices
  PROVE  TermsOK(t)'
BY Zenon DEF TermsOK

\* accept: the job, its hold and its terms come from one price row.
LEMMA AcceptStep ==
  ASSUME TermsInv, NEW s \in Sources, NEW m \in Models, NEW v \in Versions, Accept(s, m, v)
  PROVE  TermsInv'
<1> USE DEF TermsInv
<1> DEFINE hold == [status |-> "pending", amount |-> prices[v].reservation,
                    lapsed |-> FALSE, captured |-> NoAmount]
           next == [status |-> "accepted", model |-> m, version |-> v]
<1>1. /\ job[s].status = "none" /\ prices[v] # NoPrice
      /\ resv' = [resv EXCEPT ![s] = hold] /\ job' = [job EXCEPT ![s] = next]
      /\ terms' = [terms EXCEPT ![s] = prices[v]] /\ prices' = prices /\ usage' = usage
  BY DEF Accept, Decision, InForce, Hold, catalogVars
<1>2. hold \in Reservation /\ hold.status = "pending" /\ hold.amount = prices[v].reservation
  BY <1>1, Zenon DEF PricesOK, ValidTariff, Reservation, ReservationStatus, NoAmount
<1>3. /\ next.status = "accepted" /\ next.version = v
      /\ next = [status |-> next.status, model |-> next.model, version |-> next.version]
  OBVIOUS
<1> HIDE DEF hold, next
<1>4. /\ resv'[s] = hold /\ job'[s] = next /\ terms'[s] = prices[v]
      /\ \A t \in Sources \ {s} : resv'[t] = resv[t] /\ job'[t] = job[t] /\ terms'[t] = terms[t]
  BY <1>1 DEF TermsTypeOK
<1>5. TermsTypeOK'
  <2>1. job' = [t \in Sources |-> job'[t]] /\ terms' = [t \in Sources |-> terms'[t]]
    BY <1>1, Zenon DEF TermsTypeOK
  <2>2. resv' \in [Sources -> Reservation] /\ usage' \in [Sources -> [units : Nat, charge : Nat]]
    BY <1>1, <1>2 DEF TermsTypeOK
  <2>3. \A t \in Sources : job'[t] = [status |-> job'[t].status, model |-> job'[t].model,
                                      version |-> job'[t].version]
    BY <1>3, <1>4 DEF TermsTypeOK
  <2>4. \A t \in Sources : job'[t].status \in JobStatus
    BY <1>3, <1>4 DEF TermsTypeOK, JobStatus
  <2> QED
    BY <2>1, <2>2, <2>3, <2>4 DEF TermsTypeOK
<1>6. TermsOK(s)'
  BY <1>1, <1>2, <1>3, <1>4, Zenon DEF TermsOK
<1>7. \A t \in Sources \ {s} : TermsOK(t)'
  BY <1>1, <1>4, TermsStand, Zenon
<1>8. PricesOK'
  BY <1>1 DEF PricesOK
<1> QED
  BY <1>5, <1>6, <1>7, <1>8

\* The status of one job changes; its other columns stay.
JobMoves(s, st) == job' = [job EXCEPT ![s].status = st]

\* Execute, Complete and Fail move a job and may record its usage.
LEMMA JobStep ==
  ASSUME TermsInv, NEW s \in Sources, NEW st \in JobStatus \ {"none"}, JobMoves(s, st),
         job[s].status \in {"accepted", "running"},
         UNCHANGED <<billingVars, catalogVars, terms>>,
         NEW use \in [units : Nat, charge : Nat], usage' = [usage EXCEPT ![s] = use],
         st = "succeeded" => use.charge = ChargeForUsage(terms[s], use.units)
  PROVE  TermsInv'
<1> USE DEF TermsInv
<1> DEFINE next == [job[s] EXCEPT !.status = st]
<1>1. /\ next.status = st /\ next.version = job[s].version
      /\ next = [status |-> next.status, model |-> next.model, version |-> next.version]
  BY DEF TermsTypeOK
<1>2. job' = [job EXCEPT ![s] = next]
  BY DEF JobMoves
<1> HIDE DEF next
<1>3. /\ job'[s] = next /\ usage'[s] = use /\ resv' = resv /\ prices' = prices
      /\ \A t \in Sources \ {s} : job'[t] = job[t] /\ usage'[t] = usage[t]
  BY <1>2, Zenon DEF TermsTypeOK, billingVars, catalogVars
<1>4. TermsTypeOK'
  <2>1. job' = [t \in Sources |-> job'[t]]
    BY <1>2 DEF TermsTypeOK
  <2>2. usage' \in [Sources -> [units : Nat, charge : Nat]]
    BY DEF TermsTypeOK
  <2>3. \A t \in Sources : job'[t] = [status |-> job'[t].status, model |-> job'[t].model,
                                      version |-> job'[t].version]
    BY <1>1, <1>3, Zenon DEF TermsTypeOK
  <2>4. \A t \in Sources : job'[t].status \in JobStatus
    BY <1>1, <1>3, Zenon DEF TermsTypeOK
  <2> QED
    BY <1>3, <2>1, <2>2, <2>3, <2>4, Zenon DEF TermsTypeOK
<1>5. TermsOK(s)'
  <2>1. resv[s].status # "committed"
    BY Zenon DEF TermsOK
  <2> QED
    BY <1>1, <1>3, <2>1, Zenon DEF TermsOK
<1>6. \A t \in Sources \ {s} : TermsOK(t)'
  BY <1>3, TermsStand, Zenon DEF billingVars
<1>7. PricesOK'
  BY <1>3 DEF PricesOK
<1> QED
  BY <1>4, <1>5, <1>6, <1>7, Zenon

\* Execute, Complete and Fail.
LEMMA WorkStep ==
  ASSUME TermsInv, NEW s \in Sources,
         Execute(s) \/ Fail(s) \/ \E units \in UsageUnits : Complete(s, units)
  PROVE  TermsInv'
<1>0. /\ usage \in [Sources -> [units : Nat, charge : Nat]]
      /\ TermsOK(s) /\ PricesOK
  BY DEF TermsInv, TermsTypeOK
<1>1. CASE Execute(s) \/ Fail(s)
  <2>1. PICK st \in {"running", "failed"} : JobMoves(s, st)
    BY <1>1 DEF Execute, Fail, JobMoves
  <2>2. /\ job[s].status \in {"accepted", "running"} /\ UNCHANGED <<billingVars, catalogVars, terms>>
        /\ usage' = [usage EXCEPT ![s] = usage[s]]
    BY <1>0, <1>1 DEF Execute, Fail
  <2>3. usage[s] \in [units : Nat, charge : Nat] /\ st \in JobStatus \ {"none"} /\ st # "succeeded"
    BY <1>0 DEF JobStatus
  <2> QED
    BY <2>1, <2>2, <2>3, JobStep, Zenon
<1>2. CASE \E units \in UsageUnits : Complete(s, units)
  <2> PICK units \in UsageUnits : Complete(s, units)
    BY <1>2
  <2> DEFINE charge == ChargeForUsage(AcceptedPrice(s), units)
             use == [units |-> units, charge |-> charge]
  <2>1. /\ job[s].status = "running" /\ JobMoves(s, "succeeded")
        /\ UNCHANGED <<billingVars, catalogVars, terms>> /\ usage' = [usage EXCEPT ![s] = use]
    BY DEF Complete, JobMoves
  <2>2. AcceptedPrice(s) = terms[s] /\ ValidTariff(terms[s])
    BY <1>0, <2>1, Zenon DEF TermsOK, AcceptedPrice, PricesOK
  <2>3. units \in Nat /\ charge \in Nat /\ charge = ChargeForUsage(terms[s], units)
    BY <2>2, UnitsAssumption, ChargeType
  <2> HIDE DEF charge
  <2>4. use \in [units : Nat, charge : Nat] /\ use.charge = ChargeForUsage(terms[s], use.units)
    BY <2>3
  <2> HIDE DEF use
  <2>5. "succeeded" \in JobStatus \ {"none"}
    BY DEF JobStatus
  <2> QED
    BY <2>1, <2>4, <2>5, JobStep, Zenon
<1> QED
  BY <1>1, <1>2

\* A pending hold lapses or is settled, a captured one at the charge due.
LEMMA HoldMoves ==
  ASSUME TermsInv, NEW s \in Sources, resv[s].status = "pending",
         NEW next \in Reservation, resv' = [resv EXCEPT ![s] = next],
         next.status # "none", next.amount = resv[s].amount,
         next.status = "committed" =>
           /\ job[s].status = "succeeded"
           /\ next.captured = ChargeForUsage(terms[s], usage[s].units),
         UNCHANGED <<catalogVars, job, usage, terms>>
  PROVE  TermsInv'
<1> USE DEF TermsInv
<1>1. /\ resv'[s] = next /\ prices' = prices /\ job' = job /\ usage' = usage /\ terms' = terms
      /\ \A t \in Sources \ {s} : resv'[t] = resv[t]
  BY Zenon DEF TermsTypeOK, catalogVars
<1>2. TermsTypeOK'
  BY <1>1, Zenon DEF TermsTypeOK
<1>3. TermsOK(s)'
  BY <1>1, Zenon DEF TermsOK
<1>4. \A t \in Sources \ {s} : TermsOK(t)'
  BY <1>1, TermsStand, Zenon
<1>5. PricesOK'
  BY <1>1 DEF PricesOK
<1> QED
  BY <1>2, <1>3, <1>4, <1>5, Zenon

\* Settle captures what the accepted row makes of the usage.
LEMMA SettleStep ==
  ASSUME TermsInv, NEW s \in Sources, Settle(s)
  PROVE  TermsInv'
<1>0. /\ resv[s] \in Reservation /\ usage[s] \in [units : Nat, charge : Nat]
      /\ TermsOK(s) /\ PricesOK
  BY Zenon DEF TermsInv, TermsTypeOK
<1> DEFINE charge == ChargeForUsage(AcceptedPrice(s), usage[s].units)
           next == [resv[s] EXCEPT !.status = "committed", !.captured = charge]
<1>1. /\ job[s].status = "succeeded" /\ CaptureOutcome(s, charge) = "captured"
      /\ resv' = [resv EXCEPT ![s] = next] /\ UNCHANGED <<catalogVars, job, usage, terms>>
  BY DEF Settle, Capture
<1>2. AcceptedPrice(s) = terms[s] /\ ValidTariff(terms[s])
  BY <1>0, <1>1 DEF TermsOK, AcceptedPrice, PricesOK
<1>3. charge \in Nat /\ charge = ChargeForUsage(terms[s], usage[s].units)
  BY <1>0, <1>2, ChargeType, Zenon
<1> HIDE DEF charge
<1>4. resv[s].status = "pending"
  BY <1>0, <1>1 DEF CaptureOutcome, Reservation, ReservationStatus
<1>5. next \in Reservation /\ next.status = "committed" /\ next.amount = resv[s].amount
      /\ next.captured = charge
  BY <1>0, <1>3, Zenon DEF Reservation, ReservationStatus
<1> HIDE DEF next
<1> QED
  BY <1>1, <1>3, <1>4, <1>5, HoldMoves, Zenon

\* GiveBack and HoldLapses leave amount and terms alone.
LEMMA HoldStep ==
  ASSUME TermsInv, NEW s \in Sources, GiveBack(s) \/ HoldLapses(s),
         UNCHANGED <<catalogVars, job, usage, terms>>
  PROVE  TermsInv'
<1>0. resv[s] \in Reservation
  BY DEF TermsInv, TermsTypeOK
<1>1. CASE GiveBack(s)
  <2> DEFINE next == [resv[s] EXCEPT !.status = "released"]
  <2>1. ReleaseOutcome(s) = "released" /\ resv' = [resv EXCEPT ![s] = next]
    BY <1>1 DEF GiveBack, Release
  <2>2. resv[s].status = "pending"
    BY <1>0, <2>1 DEF ReleaseOutcome, Reservation, ReservationStatus
  <2>3. next \in Reservation /\ next.status = "released" /\ next.amount = resv[s].amount
    BY <1>0 DEF Reservation, ReservationStatus
  <2> HIDE DEF next
  <2> QED
    BY <2>1, <2>2, <2>3, HoldMoves, Zenon
<1>2. CASE HoldLapses(s)
  <2> DEFINE next == [resv[s] EXCEPT !.lapsed = TRUE]
  <2>1. resv[s].status = "pending" /\ resv' = [resv EXCEPT ![s] = next]
    BY <1>2 DEF HoldLapses
  <2>2. next \in Reservation /\ next.status = "pending" /\ next.amount = resv[s].amount
    BY <1>0, <2>1, Zenon DEF Reservation
  <2> HIDE DEF next
  <2> QED
    BY <2>1, <2>2, HoldMoves, Zenon
<1> QED
  BY <1>1, <1>2

\* Seeds and provisioning leave the rows that jobs name alone.
LEMMA CatalogKeepsTerms ==
  ASSUME TermsInv, CatalogStep
  PROVE  TermsInv'
<1> USE DEF TermsInv
<1>1. resv' = resv /\ job' = job /\ usage' = usage /\ terms' = terms
  BY DEF CatalogStep, billingVars
<1>2. PricesOK' /\ \A v \in Versions : prices[v] # NoPrice => prices'[v] = prices[v]
  BY PricesStand DEF CatalogStep
<1>3. TermsTypeOK'
  BY <1>1 DEF TermsTypeOK
<1>4. \A s \in Sources : TermsOK(s)'
  BY <1>1, <1>2 DEF TermsOK
<1> QED
  BY <1>2, <1>3, <1>4, Zenon

-----------------------------------------------------------------------------
(* Theorems about the jobs, and about both together. *)

\* Every step keeps the invariant.
LEMMA TermsStep ==
  ASSUME TermsInv, [Next]_vars
  PROVE  TermsInv'
<1>1. ASSUME NEW g \in Grants, Grant(g), WalletStep PROVE TermsInv'
  BY <1>1, Zenon DEF Grant, WalletStep, TermsInv, TermsTypeOK, TermsOK, PricesOK, catalogVars
<1>2. CASE UNCHANGED vars
  BY <1>2, Zenon DEF vars, billingVars, catalogVars, TermsInv, TermsTypeOK, TermsOK, PricesOK
<1>3. ASSUME NEW s \in Sources, HoldLapses(s), WalletStep PROVE TermsInv'
  BY <1>3, HoldStep DEF WalletStep
<1>4. CASE WalletStep
  BY <1>1, <1>3, <1>4 DEF WalletStep
<1>5. ASSUME NEW s \in Sources, Settle(s) \/ GiveBack(s) PROVE TermsInv'
  BY <1>5, SettleStep, HoldStep, Zenon DEF GiveBack
<1> QED
  BY <1>2, <1>4, <1>5, AcceptStep, WorkStep, CatalogKeepsTerms DEF Next

\* Jobs, holds, usage and price rows agree in every reachable state.
THEOREM TermsInvariant == Spec => []TermsInv
<1>1. Init => TermsInv
  BY TermsInitially
<1>2. TermsInv /\ [Next]_vars => TermsInv'
  BY TermsStep
<1> QED
  BY <1>1, <1>2, PTL DEF Spec

\* A job is held, recorded and captured at the terms it was accepted at, for
\* any number of jobs, releases, prices and provisioning runs.
THEOREM AcceptedTermsStandAlways == Spec => []AcceptedTermsStand
<1>1. TermsInv => AcceptedTermsStand
  BY Zenon DEF TermsInv, TermsOK, AcceptedTermsStand, AcceptedPrice
<1> QED
  BY <1>1, TermsInvariant, PTL

\* Jobs and wallet only read the catalog: what they do together implements the
\* specification of the catalog.
THEOREM AdmissionImplementsCatalog == Spec => CatalogSpec
<1>1. Init => CatalogInit
  BY DEF Init
<1>2. [Next]_vars => [CatalogNext]_catalogVars
  <2>1. UNCHANGED vars => UNCHANGED catalogVars
    BY DEF vars
  <2>2. WalletStep => UNCHANGED catalogVars
    BY DEF WalletStep
  <2>3. CatalogStep => CatalogNext
    BY DEF CatalogStep
  <2>4. ASSUME NEW s \in Sources,
               \/ \E m \in Models : \E v \in Versions : Accept(s, m, v)
               \/ Execute(s)
               \/ \E units \in UsageUnits : Complete(s, units)
               \/ Fail(s) \/ Settle(s) \/ GiveBack(s)
        PROVE  UNCHANGED catalogVars
    BY <2>4 DEF Accept, Execute, Complete, Fail, Settle, GiveBack
  <2> QED
    BY <2>1, <2>2, <2>3, <2>4 DEF Next
<1> QED
  BY <1>1, <1>2, PTL DEF Spec, CatalogSpec

\* So the properties of the catalog hold while jobs are accepted and settled:
\* voice routes open with a voice that was heard, stored voices are kept and
\* base routes are open on evidence.
THEOREM CatalogHoldsUnderJobs ==
  Spec => []BoundVoiceWasHeard /\ []VoicesAreKept /\ BaseRoutesEvidenced
BY AdmissionImplementsCatalog, BoundVoiceWasHeardAlways, VoicesAreKeptAlways,
   BaseRoutesEvidencedAlways, PTL

-----------------------------------------------------------------------------
(* Outbox. *)

\* A relay in the middle of its batch holds a token of its event, and has sent
\* the copy it is about to mark.
RelaysOK ==
  /\ \A p \in Relays, e \in Events : relay[p].held[e] <= row[e].attempts
  /\ \A p \in Relays : relay[p].pc # "idle" =>
       relay[p].event \in Events /\ relay[p].held[relay[p].event] # 0
  /\ \A p \in Relays : relay[p].pc = "markPublished" =>
       msg[<<relay[p].event, relay[p].held[relay[p].event]>>].state # "none"

\* A busy consumer holds a copy, and what it executes is busy and its alone.
ConsumersOK ==
  /\ \A c \in Consumers : consumer[c].pc # "idle" => <<consumer[c].event, consumer[c].copy>> \in Copies
  /\ \A c \in Consumers : consumer[c].pc = "execute" => work[consumer[c].event] = "busy"
  /\ ExecutedByOne
  /\ \A e \in Events : row[e].status = "none" => work[e] = "none"

OutboxInv == OutboxTypeOK /\ RelaysOK /\ ConsumersOK /\ PublishedIsSent

RowStates == {"none", "pending", "published", "failed"}

\* The updates of a row: by the acceptance, by a mark that ends a lease, and by
\* one that also puts the next attempt off.
Opened(r, s, b) == [r EXCEPT !.status = s, !.due = b]
Closed(r, s) == [r EXCEPT !.status = s, !.token = 0]
PutOff(r, s, b) == [r EXCEPT !.status = s, !.token = 0, !.due = b]

\* What each update of an outbox row changes, and that it leaves a row.
LEMMA RowUpdates ==
  ASSUME NEW r \in OutboxRow, NEW s \in RowStates, NEW b \in BOOLEAN
  PROVE  /\ Opened(r, s, b) \in OutboxRow
         /\ Opened(r, s, b).status = s
         /\ Opened(r, s, b).attempts = r.attempts
         /\ Opened(r, s, b).token = r.token
         /\ Closed(r, s) \in OutboxRow
         /\ Closed(r, s).status = s
         /\ Closed(r, s).attempts = r.attempts
         /\ Closed(r, s).token = 0
         /\ PutOff(r, s, b) \in OutboxRow
         /\ PutOff(r, s, b).status = s
         /\ PutOff(r, s, b).attempts = r.attempts
         /\ PutOff(r, s, b).token = 0
         /\ ClaimedRow(r) \in OutboxRow
         /\ ClaimedRow(r).status = r.status
         /\ ClaimedRow(r).attempts = r.attempts + 1
         /\ ClaimedRow(r).token = r.attempts + 1
<1>1. \A q \in OutboxRow, t \in RowStates :
        /\ [q EXCEPT !.status = t] \in OutboxRow
        /\ [q EXCEPT !.status = t].status = t
        /\ [q EXCEPT !.status = t].attempts = q.attempts
        /\ [q EXCEPT !.status = t].token = q.token
  BY DEF OutboxRow, RowStates
<1>2. \A q \in OutboxRow, n \in Nat :
        /\ [q EXCEPT !.token = n] \in OutboxRow
        /\ [q EXCEPT !.token = n].status = q.status
        /\ [q EXCEPT !.token = n].attempts = q.attempts
        /\ [q EXCEPT !.token = n].token = n
  BY DEF OutboxRow
<1>3. \A q \in OutboxRow, d \in BOOLEAN :
        /\ [q EXCEPT !.due = d] \in OutboxRow
        /\ [q EXCEPT !.due = d].status = q.status
        /\ [q EXCEPT !.due = d].attempts = q.attempts
        /\ [q EXCEPT !.due = d].token = q.token
  BY DEF OutboxRow
<1>4. \A q \in OutboxRow, n \in Nat :
        /\ [q EXCEPT !.attempts = n] \in OutboxRow
        /\ [q EXCEPT !.attempts = n].status = q.status
        /\ [q EXCEPT !.attempts = n].attempts = n
        /\ [q EXCEPT !.attempts = n].token = q.token
  BY DEF OutboxRow
<1>5. 0 \in Nat /\ r.attempts + 1 \in Nat /\ FALSE \in BOOLEAN
  BY DEF OutboxRow
<1> DEFINE q1 == [r EXCEPT !.status = s]
           q2 == [q1 EXCEPT !.token = 0]
           q3 == [r EXCEPT !.attempts = r.attempts + 1]
           q4 == [q3 EXCEPT !.token = r.attempts + 1]
<1>6. q1 \in OutboxRow /\ q1.status = s /\ q1.attempts = r.attempts /\ q1.token = r.token
  BY <1>1, Zenon
<1>7. q2 \in OutboxRow /\ q2.status = s /\ q2.attempts = r.attempts /\ q2.token = 0
  <2> HIDE DEF q1
  <2> QED BY <1>2, <1>5, <1>6, Zenon
<1>8. q3 \in OutboxRow /\ q3.status = r.status /\ q3.attempts = r.attempts + 1
  BY <1>4, <1>5, Zenon
<1>9. q4 \in OutboxRow /\ q4.status = r.status /\ q4.attempts = r.attempts + 1
        /\ q4.token = r.attempts + 1
  <2> HIDE DEF q3
  <2> QED BY <1>2, <1>5, <1>8, Zenon
<1>10. /\ [q1 EXCEPT !.due = b] \in OutboxRow
       /\ [q1 EXCEPT !.due = b].status = s
       /\ [q1 EXCEPT !.due = b].attempts = r.attempts
       /\ [q1 EXCEPT !.due = b].token = r.token
  <2> HIDE DEF q1
  <2> QED BY <1>3, <1>6, Zenon
<1>11. /\ [q2 EXCEPT !.due = b] \in OutboxRow
       /\ [q2 EXCEPT !.due = b].status = s
       /\ [q2 EXCEPT !.due = b].attempts = r.attempts
       /\ [q2 EXCEPT !.due = b].token = 0
  <2> HIDE DEF q2
  <2> QED BY <1>3, <1>7, Zenon
<1>12. /\ [q4 EXCEPT !.due = FALSE] \in OutboxRow
       /\ [q4 EXCEPT !.due = FALSE].status = r.status
       /\ [q4 EXCEPT !.due = FALSE].attempts = r.attempts + 1
       /\ [q4 EXCEPT !.due = FALSE].token = r.attempts + 1
  <2> HIDE DEF q4
  <2> QED BY <1>3, <1>5, <1>9, Zenon
<1>13. ClaimedRow(r) = [q4 EXCEPT !.due = FALSE]
  BY DEF ClaimedRow
<1>14. /\ Opened(r, s, b) = [q1 EXCEPT !.due = b]
       /\ Closed(r, s) = q2
       /\ PutOff(r, s, b) = [q2 EXCEPT !.due = b]
  BY DEF Opened, Closed, PutOff
<1> HIDE DEF q1, q2, q3, q4
<1> QED
  BY <1>7, <1>10, <1>11, <1>12, <1>13, <1>14, Zenon

\* The relay gives up the token of its event and goes on with one whose token it
\* holds, or is idle.
LEMMA NextEventKeeps ==
  ASSUME OutboxInv, NEW p \in Relays, relay[p].pc # "idle", NextEvent(p)
  PROVE  /\ relay' \in [Relays -> RelayState]
         /\ \A e \in Events : relay'[p].held[e] <= relay[p].held[e]
         /\ relay'[p].pc \in {"idle", "publish"}
         /\ relay'[p].pc # "idle" =>
              relay'[p].event \in Events /\ relay'[p].held[relay'[p].event] # 0
         /\ \A q \in Relays : q # p => relay'[q] = relay[q]
         /\ relay'[p].held[relay[p].event] = 0
<1> DEFINE rest == [relay[p].held EXCEPT ![relay[p].event] = 0]
           left == {e \in Events : rest[e] # 0}
           next == IF left = {} THEN IdleRelay
                   ELSE [pc |-> "publish", event |-> CHOOSE e \in left : TRUE, held |-> rest]
<1>1. relay \in [Relays -> RelayState] /\ relay[p].held \in [Events -> Nat]
  BY DEF OutboxInv, OutboxTypeOK, RelayState
<1>2. relay' = [relay EXCEPT ![p] = next]
  BY Zenon DEF NextEvent
<1>3. /\ rest \in [Events -> Nat] /\ \A e \in Events : rest[e] <= relay[p].held[e]
      /\ relay[p].event \in Events /\ rest[relay[p].event] = 0
  <2>1. ASSUME NEW f \in [Events -> Nat], NEW x \in Events
        PROVE  /\ [f EXCEPT ![x] = 0] \in [Events -> Nat] /\ [f EXCEPT ![x] = 0][x] = 0
               /\ \A e \in Events : [f EXCEPT ![x] = 0][e] <= f[e]
    OBVIOUS
  <2>2. relay[p].event \in Events
    BY Zenon DEF OutboxInv, RelaysOK
  <2> QED BY <1>1, <2>1, <2>2, Zenon
<1>4. CASE left = {}
  <2>1. next = IdleRelay
    BY <1>4, Zenon
  <2>2. /\ IdleRelay \in RelayState /\ IdleRelay.pc = "idle"
        /\ \A e \in Events : IdleRelay.held[e] = 0
    BY Zenon DEF IdleRelay, RelayState
  <2>3. \A e \in Events : 0 <= relay[p].held[e]
    BY <1>1
  <2> HIDE DEF next
  <2> QED BY <1>1, <1>2, <1>3, <2>1, <2>2, <2>3, Zenon
<1>5. CASE left # {}
  <2> DEFINE n == CHOOSE e \in left : TRUE
  <2>1. n \in left
    BY <1>5, Zenon
  <2> HIDE DEF n
  <2>2. n \in Events /\ rest[n] # 0
    BY <2>1
  <2>3. next = [pc |-> "publish", event |-> n, held |-> rest]
    BY <1>5, Zenon DEF n
  <2> HIDE DEF next, left, rest
  <2>4. /\ next \in RelayState /\ next.pc = "publish" /\ next.event = n /\ next.held = rest
    BY <1>3, <2>2, <2>3, Zenon DEF RelayState
  <2>5. relay'[p] = next /\ relay' \in [Relays -> RelayState] /\ \A q \in Relays : q # p => relay'[q] = relay[q]
    BY <1>1, <1>2, <2>4, Zenon
  <2> QED BY <1>3, <2>2, <2>4, <2>5, Zenon
<1> QED BY <1>4, <1>5, Zenon

\* A mark is a step of a busy relay, which goes on to its next event.
LEMMA Marks ==
  ASSUME NEW p \in Relays, MarkPublished(p) \/ MarkRetry(p)
  PROVE  relay[p].pc # "idle" /\ NextEvent(p)
<1>1. NextEvent(p) /\ (relay[p].pc = "markPublished" \/ relay[p].pc = "markRetry")
  BY Zenon DEF MarkPublished, MarkRetry
<1> QED BY <1>1

\* A step at the rows: they stay rows, attempts never fall and stay in bounds, and a
\* lease stands unless its own holder ends it, or a claim once it has lapsed.
LEMMA RowsMove ==
  ASSUME OutboxInv, [OutboxNext]_outboxVars
  PROVE  /\ row' \in [Events -> OutboxRow]
         /\ \A e \in Events : /\ row[e].attempts <= row'[e].attempts
                              /\ row'[e].attempts <= MaxAttempts
                              /\ row'[e].token <= row'[e].attempts
                              /\ row'[e].status = "none" => row[e].status = "none"
                              /\ row'[e].status = "published" =>
                                   \/ row[e].status = "published"
                                   \/ \E p \in Relays : relay[p].pc = "markPublished" /\ relay[p].event = e
         /\ LeaseKeptStep
<1> DEFINE Good(e) == /\ row'[e] \in OutboxRow
                      /\ row[e].attempts <= row'[e].attempts
                      /\ row'[e].attempts <= MaxAttempts
                      /\ row'[e].token <= row'[e].attempts
                      /\ row'[e].status = "none" => row[e].status = "none"
                      /\ row'[e].status = "published" =>
                           \/ row[e].status = "published"
                           \/ \E p \in Relays : relay[p].pc = "markPublished" /\ relay[p].event = e
           Owner(e, p) == /\ relay[p].event = e /\ relay[p].held[e] = row[e].token
                          /\ relay'[p] # relay[p]
           Busy == \A p \in Relays : relay[p].pc # "idle" => relay'[p] = relay[p]
           Unmoved(e) == row[e].token # 0 /\ row'[e].token # row[e].token =>
                           (\E p \in Relays : Owner(e, p)) \/ (row[e].due /\ Busy)
           All == /\ row' \in [Events -> OutboxRow]
                  /\ \A e \in Events : Good(e) /\ Unmoved(e)
<1>0. /\ row \in [Events -> OutboxRow]
      /\ \A e \in Events : /\ row[e] \in OutboxRow /\ row[e].attempts \in Nat /\ row[e].token \in Nat
                           /\ row[e].attempts <= MaxAttempts /\ row[e].token <= row[e].attempts
      /\ MaxAttempts \in Nat
  BY OutboxConstants DEF OutboxInv, OutboxTypeOK, OutboxRow
<1>1. \A e \in Events : row'[e] = row[e] => Good(e) /\ Unmoved(e)
  <2> HIDE DEF Owner, Busy
  <2> QED BY <1>0
<1>2. ASSUME UNCHANGED row PROVE All
  BY <1>0, <1>1, <1>2, Zenon
<1>3. ASSUME NEW e \in Events, Commit(e) PROVE All
  <2>1. row[e].status = "none" /\ row' = [row EXCEPT ![e] = Opened(row[e], "pending", TRUE)]
    BY <1>0, <1>3 DEF Commit, Opened
  <2>2. "pending" \in RowStates /\ TRUE \in BOOLEAN
    BY DEF RowStates
  <2> DEFINE r == Opened(row[e], "pending", TRUE)
  <2>3. r \in OutboxRow /\ r.status = "pending" /\ r.attempts = row[e].attempts /\ r.token = row[e].token
    BY <1>0, <2>2, RowUpdates, Zenon
  <2> HIDE DEF r
  <2>4. row' = [row EXCEPT ![e] = r]
    BY <2>1 DEF r
  <2>5. row'[e] = r /\ row' \in [Events -> OutboxRow] /\ \A x \in Events : x # e => row'[x] = row[x]
    BY <1>0, <2>3, <2>4
  <2>6. Good(e) /\ Unmoved(e)
    <3> HIDE DEF Owner, Busy
    <3> QED BY <1>0, <2>3, <2>5
  <2> HIDE DEF Good, Unmoved
  <2> QED
    BY <1>1, <2>5, <2>6, Zenon
<1>4. ASSUME NEW e \in Events, BecomesDue(e) PROVE All
  <2>1. row' = [row EXCEPT ![e] = [row[e] EXCEPT !.due = TRUE]]
    BY <1>0, <1>4 DEF BecomesDue
  <2> DEFINE r == [row[e] EXCEPT !.due = TRUE]
  <2>2. \A d \in BOOLEAN : LET q == [row[e] EXCEPT !.due = d] IN
          q \in OutboxRow /\ q.status = row[e].status /\ q.attempts = row[e].attempts /\ q.token = row[e].token
    BY <1>0 DEF OutboxRow
  <2>3. r \in OutboxRow /\ r.status = row[e].status /\ r.attempts = row[e].attempts /\ r.token = row[e].token
    BY <2>2, Zenon
  <2> HIDE DEF r
  <2>4. row' = [row EXCEPT ![e] = r]
    BY <2>1 DEF r
  <2>5. row'[e] = r /\ row' \in [Events -> OutboxRow] /\ \A x \in Events : x # e => row'[x] = row[x]
    BY <1>0, <2>3, <2>4
  <2>6. Good(e) /\ Unmoved(e)
    <3> HIDE DEF Owner, Busy
    <3> QED BY <1>0, <2>3, <2>5
  <2> HIDE DEF Good, Unmoved
  <2> QED
    BY <1>1, <2>5, <2>6, Zenon
<1>5. ASSUME NEW p \in Relays, ClaimBatch(p) PROVE All
  <2>1. PICK batch \in SUBSET Claimable :
          row' = [e \in Events |-> IF e \in batch THEN ClaimedRow(row[e])
                                   ELSE IF e \in Exhausted THEN ExpiredRow(row[e])
                                   ELSE row[e]]
    BY <1>5, Zenon DEF ClaimBatch
  <2>2. Busy
    <3>1. relay[p].pc = "idle" /\ \E n : relay' = [relay EXCEPT ![p] = n]
      BY <1>5, Zenon DEF ClaimBatch
    <3>2. relay \in [Relays -> RelayState]
      BY Zenon DEF OutboxInv, OutboxTypeOK
    <3> QED BY <3>1, <3>2
  <2>3. ASSUME \A e \in Events : row'[e] \in OutboxRow PROVE row' \in [Events -> OutboxRow]
    BY <2>1, <2>3
  <2>4. ASSUME NEW e \in Events, e \in batch PROVE Good(e) /\ Unmoved(e)
    <3>1. row'[e] = ClaimedRow(row[e]) /\ row[e].due /\ row[e].attempts < MaxAttempts
      BY <2>1, <2>4, Zenon DEF Claimable, Due
    <3>2. /\ ClaimedRow(row[e]) \in OutboxRow /\ ClaimedRow(row[e]).status = row[e].status
          /\ ClaimedRow(row[e]).attempts = row[e].attempts + 1
          /\ ClaimedRow(row[e]).token = row[e].attempts + 1
      <4>1. "none" \in RowStates /\ TRUE \in BOOLEAN
        BY DEF RowStates
      <4> QED BY <1>0, <4>1, RowUpdates, Zenon
    <3> HIDE DEF Owner, Busy
    <3> QED
      BY <1>0, <2>2, <3>1, <3>2
  <2>5. ASSUME NEW e \in Events, e \notin batch, e \in Exhausted PROVE Good(e) /\ Unmoved(e)
    <3>1. row'[e] = ExpiredRow(row[e]) /\ row[e].due
      BY <2>1, <2>5, Zenon DEF Exhausted, Due
    <3>2. /\ ExpiredRow(row[e]) \in OutboxRow /\ ExpiredRow(row[e]).status = "failed"
          /\ ExpiredRow(row[e]).attempts = row[e].attempts
          /\ ExpiredRow(row[e]).token = 0
      <4>1. "failed" \in RowStates /\ TRUE \in BOOLEAN
        BY DEF RowStates
      <4>2. ExpiredRow(row[e]) = Closed(row[e], "failed")
        BY DEF ExpiredRow, Closed
      <4>3. /\ Closed(row[e], "failed") \in OutboxRow /\ Closed(row[e], "failed").status = "failed"
            /\ Closed(row[e], "failed").attempts = row[e].attempts /\ Closed(row[e], "failed").token = 0
        BY <1>0, <4>1, RowUpdates, Zenon
      <4> QED BY <4>2, <4>3, Zenon
    <3> HIDE DEF Owner, Busy
    <3> QED
      BY <1>0, <2>2, <3>1, <3>2
  <2>6. ASSUME NEW e \in Events, e \notin batch, e \notin Exhausted PROVE row'[e] = row[e]
    BY <2>1, <2>6
  <2> QED
    BY <1>1, <2>3, <2>4, <2>5, <2>6, Zenon
<1>6. ASSUME NEW p \in Relays, MarkPublished(p) \/ MarkRetry(p), HoldsLease(p) PROVE All
  <2> DEFINE e == relay[p].event
  <2>1. /\ e \in Events /\ row[e].token = relay[p].held[e] /\ row[e].status = "pending"
    BY <1>6, Marks, Zenon DEF HoldsLease, OutboxInv, RelaysOK
  <2>2. \E s \in RowStates, b \in BOOLEAN :
          /\ s # "none" /\ (s = "published" => relay[p].pc = "markPublished")
          /\ \/ row' = [row EXCEPT ![e] = Closed(row[e], s)]
             \/ row' = [row EXCEPT ![e] = PutOff(row[e], s, b)]
    <3>1. CASE MarkPublished(p)
      <4>1. /\ row' = [row EXCEPT ![e] = Closed(row[e], "published")]
            /\ relay[p].pc = "markPublished"
        BY <1>0, <1>6, <2>1, <3>1 DEF MarkPublished, Closed
      <4>2. "published" \in RowStates /\ TRUE \in BOOLEAN /\ "published" # "none"
        BY DEF RowStates
      <4> QED BY <4>1, <4>2, Zenon
    <3>2. CASE MarkRetry(p)
      <4>0. PICK retryable \in BOOLEAN : row' = [row EXCEPT ![e] =
              [@ EXCEPT !.status = IF retryable /\ row[e].attempts < MaxAttempts
                                     THEN "pending" ELSE "failed",
                        !.token = 0, !.due = FALSE]]
        BY <1>6, <3>2, Zenon DEF MarkRetry
      <4> DEFINE s == IF retryable /\ row[e].attempts < MaxAttempts THEN "pending" ELSE "failed"
      <4>1. row' = [row EXCEPT ![e] = PutOff(row[e], s, FALSE)]
        BY <1>0, <2>1, <4>0 DEF PutOff
      <4>2. s \in RowStates /\ FALSE \in BOOLEAN /\ s # "published" /\ s # "none"
        BY DEF RowStates
      <4> HIDE DEF s
      <4> QED BY <4>1, <4>2, Zenon
    <3> QED BY <1>6, <3>1, <3>2, Zenon
  <2>3. PICK s \in RowStates, b \in BOOLEAN :
          /\ s # "none" /\ (s = "published" => relay[p].pc = "markPublished")
          /\ \/ row' = [row EXCEPT ![e] = Closed(row[e], s)]
             \/ row' = [row EXCEPT ![e] = PutOff(row[e], s, b)]
    BY <2>2, Zenon
  <2> DEFINE r1 == Closed(row[e], s)
             r2 == PutOff(row[e], s, b)
  <2>4. /\ r1 \in OutboxRow /\ r1.status = s /\ r1.attempts = row[e].attempts /\ r1.token = 0
        /\ r2 \in OutboxRow /\ r2.status = s /\ r2.attempts = row[e].attempts /\ r2.token = 0
    <3>1. row[e] \in OutboxRow
      BY <1>0, <2>1, Zenon
    <3> QED BY <3>1, RowUpdates, Zenon
  <2> HIDE DEF r1, r2
  <2>5. \E r \in {r1, r2} : row' = [row EXCEPT ![e] = r]
    BY <2>3, Zenon DEF r1, r2
  <2>6. /\ row'[e] \in OutboxRow /\ row'[e].status = s /\ row'[e].attempts = row[e].attempts
        /\ row'[e].token = 0
        /\ row' \in [Events -> OutboxRow] /\ \A x \in Events : x # e => row'[x] = row[x]
    BY <1>0, <2>1, <2>4, <2>5
  <2>7. Good(e) /\ Unmoved(e)
    <3>1. 0 <= row[e].attempts /\ row[e].attempts <= row[e].attempts
      BY <1>0, <2>1
    <3>2. Owner(e, p)
      <4>1. relay[p].pc # "idle" /\ NextEvent(p)
        BY <1>6, Marks, Zenon
      <4>2. relay'[p].held[e] = 0
        BY <4>1, NextEventKeeps, Zenon
      <4>3. relay[p].held[e] # 0
        BY <4>1, Zenon DEF OutboxInv, RelaysOK
      <4> QED BY <2>1, <4>2, <4>3, Zenon
    <3> HIDE DEF Owner, Busy
    <3> QED BY <1>0, <2>1, <2>3, <2>6, <3>1, <3>2, Zenon
  <2> HIDE DEF Good, Unmoved
  <2> QED
    BY <1>1, <2>6, <2>7, Zenon
<1>7. ASSUME NEW p \in Relays, MarkPublished(p) \/ MarkRetry(p), ~HoldsLease(p) PROVE All
  BY <1>2, <1>7 DEF MarkPublished, MarkRetry
<1>8. All
  <2>1. ASSUME NEW p \in Relays, PublishConfirmed(p) \/ PublishRaises(p) \/ RelayCrash(p) PROVE All
    BY <1>2, <2>1, Zenon DEF PublishConfirmed, PublishRaises, RelayCrash
  <2>2. ASSUME NEW c \in Consumers, ConsumerStep(c) \/ ConsumerFails(c) \/ ConsumerRejects(c) PROVE All
    BY <1>2, <2>2, Zenon
    DEF ConsumerStep, ConsumerFails, ConsumerRejects, Deliver, Lookup, ClaimWork, Executed, Saturated
  <2>3. ASSUME NEW e \in Events, WorkEnds(e) PROVE All
    BY <1>2, <2>3, Zenon DEF WorkEnds
  <2>4. CASE UNCHANGED outboxVars
    BY <1>2, <2>4, Zenon DEF outboxVars
  <2> QED
    BY <1>3, <1>4, <1>5, <1>6, <1>7, <2>1, <2>2, <2>3, <2>4, Zenon DEF OutboxNext, RelayStep
<1> QED
  BY <1>8, Zenon DEF LeaseKeptStep

\* No step takes a message away from the broker: acknowledged and dead copies
\* are still known to have been sent.
LEMMA MessagesStay ==
  ASSUME OutboxInv, [OutboxNext]_outboxVars
  PROVE  /\ msg' \in [Copies -> [state : {"none", "ready", "unacked", "acked", "dead"},
                                  tries : 0 .. DeliveryLimit]]
         /\ \A m \in Copies : msg[m].state # "none" => msg'[m].state # "none"
<1> DEFINE Entry == [state : {"none", "ready", "unacked", "acked", "dead"}, tries : 0 .. DeliveryLimit]
           All == msg' \in [Copies -> Entry] /\ \A m \in Copies : msg[m].state # "none" => msg'[m].state # "none"
<1>0. msg \in [Copies -> Entry] /\ DeliveryLimit \in Nat
  BY OutboxConstants DEF OutboxInv, OutboxTypeOK
<1>1. ASSUME UNCHANGED msg PROVE All
  BY <1>0, <1>1
<1>2. ASSUME NEW m \in Copies, NEW n \in Entry, n.state # "none", msg' = [msg EXCEPT ![m] = n]
      PROVE  All
  BY <1>0, <1>2
<1>3. ASSUME NEW p \in Relays, relay[p].pc = "publish", Enqueue(relay[p].event, relay[p].held[relay[p].event])
      PROVE  All
  <2>1. <<relay[p].event, relay[p].held[relay[p].event]>> \in Copies
    <3>1. /\ relay[p].event \in Events /\ relay[p].held[relay[p].event] # 0
          /\ relay[p].held[relay[p].event] <= row[relay[p].event].attempts
          /\ row[relay[p].event].attempts <= MaxAttempts
      BY <1>3, Zenon DEF OutboxInv, OutboxTypeOK, RelaysOK
    <3>2. relay[p].held[relay[p].event] \in Nat /\ row[relay[p].event].attempts \in Nat /\ MaxAttempts \in Nat
      BY <3>1, OutboxConstants DEF OutboxInv, OutboxTypeOK, RelayState, OutboxRow
    <3> QED BY <3>1, <3>2 DEF Copies
  <2>2. [state |-> "ready", tries |-> 0] \in Entry /\ [state |-> "ready", tries |-> 0].state # "none"
    BY <1>0
  <2> QED BY <1>2, <1>3, <2>1, <2>2, Zenon DEF Enqueue
<1>4. ASSUME NEW m \in Copies, NEW s \in {"unacked", "acked", "dead"}, msg' = [msg EXCEPT ![m].state = s]
      PROVE  All
  <2>1. [msg[m] EXCEPT !.state = s] \in Entry /\ [msg[m] EXCEPT !.state = s].state # "none"
    BY <1>0
  <2>2. msg' = [msg EXCEPT ![m] = [msg[m] EXCEPT !.state = s]]
    BY <1>0, <1>4
  <2> QED BY <1>2, <2>1, <2>2, Zenon
<1>5. ASSUME NEW c \in Consumers, consumer[c].pc # "idle" PROVE Held(c) \in Copies
  BY <1>5, Zenon DEF OutboxInv, ConsumersOK, Held
<1>6. ASSUME NEW c \in Consumers, consumer[c].pc # "idle", Ack(c) PROVE All
  BY <1>4, <1>5, <1>6, Zenon DEF Ack
<1>7. ASSUME NEW c \in Consumers, consumer[c].pc # "idle", Nack(c) PROVE All
  <2> DEFINE n == IF msg[Held(c)].tries < DeliveryLimit
                    THEN [state |-> "ready", tries |-> msg[Held(c)].tries + 1]
                    ELSE [msg[Held(c)] EXCEPT !.state = "dead"]
  <2>1. Held(c) \in Copies
    BY <1>5, <1>7, Zenon
  <2>2. msg' = [msg EXCEPT ![Held(c)] = n]
    BY <1>0, <1>7, <2>1 DEF Nack
  <2>3. msg[Held(c)] \in Entry
    BY <1>0, <2>1, Zenon
  <2>4. \A x \in Entry : [x EXCEPT !.state = "dead"] \in Entry /\ [x EXCEPT !.state = "dead"].state # "none"
    OBVIOUS
  <2>5. \A x \in Entry : x.tries < DeliveryLimit =>
          [state |-> "ready", tries |-> x.tries + 1] \in Entry
    BY <1>0
  <2>6. n \in Entry /\ n.state # "none"
    BY <2>3, <2>4, <2>5
  <2> HIDE DEF n
  <2> QED BY <1>2, <2>1, <2>2, <2>6, Zenon
<1>8. ASSUME NEW c \in Consumers, NEW m \in Copies, Deliver(c, m) PROVE All
  BY <1>4, <1>8, Zenon DEF Deliver
<1>9. ASSUME NEW c \in Consumers, Lookup(c) PROVE All
  <2>1. consumer[c].pc # "idle"
    BY <1>9 DEF Lookup
  <2> QED BY <1>1, <1>6, <1>9, <2>1, Zenon DEF Lookup
<1>10. ASSUME NEW c \in Consumers, ClaimWork(c) PROVE All
  <2>1. consumer[c].pc # "idle"
    BY <1>10 DEF ClaimWork
  <2> QED BY <1>1, <1>6, <1>10, <2>1, Zenon DEF ClaimWork
<1>11. ASSUME NEW c \in Consumers, Executed(c) \/ Saturated(c) \/ ConsumerFails(c) PROVE All
  <2>1. consumer[c].pc # "idle"
    BY <1>11, Zenon DEF Executed, Saturated, ConsumerFails
  <2> QED BY <1>6, <1>7, <1>11, <2>1, Zenon DEF Executed, Saturated, ConsumerFails
<1>12. ASSUME NEW p \in Relays, RelayStep(p) \/ RelayCrash(p) PROVE All
  BY <1>1, <1>3, <1>12, Zenon
  DEF RelayStep, RelayCrash, ClaimBatch, PublishConfirmed, PublishRaises, MarkPublished, MarkRetry
<1>13. ASSUME NEW e \in Events, Commit(e) \/ BecomesDue(e) \/ WorkEnds(e) PROVE All
  BY <1>1, <1>13, Zenon DEF Commit, BecomesDue, WorkEnds
<1>14. CASE UNCHANGED outboxVars
  BY <1>1, <1>14, Zenon DEF outboxVars
<1>15. ASSUME NEW c \in Consumers, ConsumerRejects(c) PROVE All
  BY <1>4, <1>5, <1>15, Zenon DEF ConsumerRejects
<1> QED
  BY <1>8, <1>9, <1>10, <1>11, <1>12, <1>13, <1>14, <1>15, Zenon DEF OutboxNext, ConsumerStep

\* Every step keeps the types of the relays and what they hold.
LEMMA RelaysKeep ==
  ASSUME OutboxInv, [OutboxNext]_outboxVars
  PROVE  relay' \in [Relays -> RelayState] /\ RelaysOK'
<1> DEFINE H(p) == \A e \in Events : relay'[p].held[e] <= row'[e].attempts
           B(p) == relay'[p].pc # "idle" =>
                     relay'[p].event \in Events /\ relay'[p].held[relay'[p].event] # 0
           M(p) == relay'[p].pc = "markPublished" =>
                     msg'[<<relay'[p].event, relay'[p].held[relay'[p].event]>>].state # "none"
           All == relay' \in [Relays -> RelayState] /\ \A p \in Relays : H(p) /\ B(p) /\ M(p)
<1>0. /\ relay \in [Relays -> RelayState]
      /\ \A p \in Relays : relay[p].held \in [Events -> Nat]
      /\ \A e \in Events : row[e].attempts \in Nat /\ row'[e].attempts \in Nat
                           /\ row[e].attempts <= row'[e].attempts /\ row[e].attempts <= MaxAttempts
      /\ MaxAttempts \in Nat
  <2>1. /\ relay \in [Relays -> RelayState] /\ row \in [Events -> OutboxRow] /\ MaxAttempts \in Nat
        /\ \A e \in Events : row[e].attempts <= MaxAttempts
    BY OutboxConstants DEF OutboxInv, OutboxTypeOK
  <2>2. /\ row' \in [Events -> OutboxRow]
        /\ \A e \in Events : row[e].attempts <= row'[e].attempts
    BY RowsMove, Zenon
  <2> QED BY <2>1, <2>2 DEF RelayState, OutboxRow
<1>1. \A p \in Relays, e \in Events : relay[p].held[e] <= row[e].attempts
  BY Zenon DEF OutboxInv, RelaysOK
<1>2. \A p \in Relays, e \in Events : relay[p].held[e] <= row'[e].attempts
  BY <1>0, <1>1
<1>3. ASSUME NEW p \in Relays, relay[p].pc # "idle"
      PROVE  /\ relay[p].event \in Events /\ relay[p].held[relay[p].event] # 0
             /\ <<relay[p].event, relay[p].held[relay[p].event]>> \in Copies
  <2>1. relay[p].event \in Events /\ relay[p].held[relay[p].event] # 0
    BY <1>3, Zenon DEF OutboxInv, RelaysOK
  <2> QED BY <1>0, <1>1, <2>1 DEF Copies
<1>4. ASSUME NEW p \in Relays, relay'[p] = relay[p] PROVE H(p) /\ B(p) /\ M(p)
  <2>1. relay[p].pc = "markPublished" =>
          msg[<<relay[p].event, relay[p].held[relay[p].event]>>].state # "none"
    BY Zenon DEF OutboxInv, RelaysOK
  <2>2. M(p)
    <3>1. SUFFICES ASSUME relay'[p].pc = "markPublished"
                   PROVE  msg'[<<relay'[p].event, relay'[p].held[relay'[p].event]>>].state # "none"
      BY Zenon
    <3>2. relay[p].pc # "idle"
      BY <1>4, <3>1
    <3> QED BY <1>3, <1>4, <2>1, <3>1, <3>2, MessagesStay, Zenon
  <2> QED BY <1>2, <1>3, <1>4, <2>2, Zenon
<1>5. ASSUME NEW p \in Relays, H(p), B(p), M(p), relay' \in [Relays -> RelayState],
             \A q \in Relays : q # p => relay'[q] = relay[q]
      PROVE  All
  BY <1>4, <1>5, Zenon
<1>6. ASSUME UNCHANGED relay PROVE All
  BY <1>0, <1>4, <1>6, Zenon
<1>7. ASSUME NEW p \in Relays, ClaimBatch(p) PROVE All
  <2>1. PICK batch \in SUBSET Claimable :
          /\ row' = [e \in Events |-> IF e \in batch THEN ClaimedRow(row[e])
                                      ELSE IF e \in Exhausted THEN ExpiredRow(row[e])
                                      ELSE row[e]]
          /\ relay' = [relay EXCEPT ![p] =
               [pc |-> IF batch = {} THEN "idle" ELSE "publish",
                event |-> IF batch = {} THEN NoEvent ELSE CHOOSE e \in batch : TRUE,
                held |-> [e \in Events |-> IF e \in batch THEN row[e].attempts + 1 ELSE 0]]]
    BY <1>7, Zenon DEF ClaimBatch
  <2> DEFINE n == CHOOSE e \in batch : TRUE
             h == [e \in Events |-> IF e \in batch THEN row[e].attempts + 1 ELSE 0]
             r == [pc |-> IF batch = {} THEN "idle" ELSE "publish",
                   event |-> IF batch = {} THEN NoEvent ELSE n, held |-> h]
  <2>2. batch # {} => n \in batch
    BY Zenon
  <2>3. batch \subseteq Events
    BY Zenon DEF Claimable
  <2>4. relay' = [relay EXCEPT ![p] = r]
    BY <2>1, Zenon
  <2> HIDE DEF n
  <2>5. h \in [Events -> Nat] /\ \A e \in batch : h[e] # 0
    BY <1>0, <2>3
  <2>6. \A e \in Events : h[e] <= row'[e].attempts
    <3>1. ASSUME NEW e \in batch PROVE row'[e].attempts = row[e].attempts + 1
      <4>1. row'[e] = ClaimedRow(row[e]) /\ row[e] \in OutboxRow
        BY <2>1, <2>3, Zenon DEF OutboxInv, OutboxTypeOK
      <4>2. "none" \in RowStates /\ TRUE \in BOOLEAN
        BY DEF RowStates
      <4> QED BY <4>1, <4>2, RowUpdates, Zenon
    <3> QED BY <1>0, <2>3, <3>1
  <2> HIDE DEF h
  <2>7. /\ r \in RelayState /\ r.held = h /\ r.pc # "markPublished"
        /\ r.pc # "idle" => r.event = n /\ n \in batch
    BY <2>2, <2>3, <2>5, Zenon DEF RelayState
  <2> HIDE DEF r
  <2>8. relay'[p] = r /\ relay' \in [Relays -> RelayState] /\ \A q \in Relays : q # p => relay'[q] = relay[q]
    BY <1>0, <2>4, <2>7, Zenon
  <2>9. H(p) /\ B(p) /\ M(p)
    BY <2>3, <2>5, <2>6, <2>7, <2>8, Zenon
  <2> QED BY <1>5, <2>8, <2>9, Zenon
<1>8. ASSUME NEW p \in Relays, MarkPublished(p) \/ MarkRetry(p) PROVE All
  <2>1. relay[p].pc # "idle" /\ NextEvent(p)
    BY <1>8, Marks, Zenon
  <2>2. /\ relay' \in [Relays -> RelayState]
        /\ \A e \in Events : relay'[p].held[e] <= relay[p].held[e]
        /\ relay'[p].pc \in {"idle", "publish"}
        /\ B(p)
        /\ \A q \in Relays : q # p => relay'[q] = relay[q]
    BY <2>1, NextEventKeeps, Zenon
  <2>3. relay'[p].held \in [Events -> Nat]
    BY <2>2 DEF RelayState
  <2>4. H(p)
    BY <1>0, <1>2, <2>2, <2>3
  <2>5. M(p)
    BY <2>2, Zenon
  <2> QED BY <1>5, <2>2, <2>4, <2>5, Zenon
<1>9. ASSUME NEW p \in Relays, relay[p].pc = "publish", NEW s \in {"markPublished", "markRetry"},
             relay' = [relay EXCEPT ![p].pc = s],
             s = "markPublished" => Enqueue(relay[p].event, relay[p].held[relay[p].event])
      PROVE  All
  <2>1. /\ relay' \in [Relays -> RelayState] /\ \A q \in Relays : q # p => relay'[q] = relay[q]
        /\ relay'[p].event = relay[p].event /\ relay'[p].held = relay[p].held /\ relay'[p].pc = s
    BY <1>0, <1>9 DEF RelayState
  <2>2. H(p) /\ B(p)
    <3>1. relay[p].pc # "idle"
      BY <1>9
    <3> QED BY <1>2, <1>3, <2>1, <3>1, Zenon
  <2>3. M(p)
    <3>1. SUFFICES ASSUME s = "markPublished"
                   PROVE  msg'[<<relay[p].event, relay[p].held[relay[p].event]>>].state # "none"
      BY <2>1, Zenon
    <3>2. <<relay[p].event, relay[p].held[relay[p].event]>> \in Copies
      BY <1>3, <1>9
    <3> QED BY <1>9, <3>1, <3>2 DEF Enqueue, OutboxInv, OutboxTypeOK
  <2> QED BY <1>5, <2>1, <2>2, <2>3, Zenon
<1>10. ASSUME NEW p \in Relays, PublishConfirmed(p) \/ PublishRaises(p) PROVE All
  <2>1. "markRetry" # "markPublished"
    OBVIOUS
  <2> QED BY <1>9, <1>10, <2>1, Zenon DEF PublishConfirmed, PublishRaises
<1>11. ASSUME NEW p \in Relays, RelayCrash(p) PROVE All
  <2>1. /\ IdleRelay \in RelayState /\ IdleRelay.pc = "idle"
        /\ \A e \in Events : IdleRelay.held[e] = 0
    BY Zenon DEF IdleRelay, RelayState
  <2>2. /\ relay'[p] = IdleRelay /\ relay' \in [Relays -> RelayState]
        /\ \A q \in Relays : q # p => relay'[q] = relay[q]
    BY <1>0, <1>11, <2>1, Zenon DEF RelayCrash
  <2>3. H(p) /\ B(p) /\ M(p)
    <3>1. \A e \in Events : 0 <= row'[e].attempts
      BY <1>0
    <3>2. "idle" # "markPublished"
      OBVIOUS
    <3> QED BY <1>0, <2>1, <2>2, <3>1, <3>2, Zenon
  <2> QED BY <1>5, <2>2, <2>3, Zenon
<1>12. All
  <2>1. ASSUME NEW e \in Events, Commit(e) \/ BecomesDue(e) \/ WorkEnds(e) PROVE All
    BY <1>6, <2>1, Zenon DEF Commit, BecomesDue, WorkEnds
  <2>2. ASSUME NEW c \in Consumers, ConsumerStep(c) \/ ConsumerFails(c) \/ ConsumerRejects(c) PROVE All
    BY <1>6, <2>2, Zenon
    DEF ConsumerStep, ConsumerFails, ConsumerRejects, Deliver, Lookup, ClaimWork, Executed, Saturated
  <2>3. CASE UNCHANGED outboxVars
    BY <1>6, <2>3, Zenon DEF outboxVars
  <2> QED
    BY <1>7, <1>8, <1>10, <1>11, <2>1, <2>2, <2>3, Zenon DEF OutboxNext, RelayStep
<1> QED
  BY <1>12, Zenon DEF RelaysOK

\* Every step keeps the types of the consumers and of the work, what a busy
\* consumer holds, and the work of one event with one consumer.
LEMMA ConsumersKeep ==
  ASSUME OutboxInv, [OutboxNext]_outboxVars
  PROVE  /\ consumer' \in [Consumers -> ConsumerState]
         /\ work' \in [Events -> {"none", "waiting", "busy", "over"}]
         /\ crashes' \in 0 .. MaxFaults
         /\ ConsumersOK'
<1> DEFINE States == {"none", "waiting", "busy", "over"}
           All == /\ consumer' \in [Consumers -> ConsumerState]
                  /\ work' \in [Events -> States]
                  /\ crashes' \in 0 .. MaxFaults
                  /\ ConsumersOK'
<1>0. /\ consumer \in [Consumers -> ConsumerState] /\ work \in [Events -> States]
      /\ crashes \in 0 .. MaxFaults /\ MaxFaults \in Nat
  BY OutboxConstants, Zenon DEF OutboxInv, OutboxTypeOK
<1>1. ASSUME NEW c \in Consumers, consumer[c].pc # "idle"
      PROVE  /\ consumer[c].event \in Events /\ Held(c) \in Copies
             /\ <<consumer[c].event, consumer[c].copy>> \in Copies
  BY <1>1, Zenon DEF Copies, Held, OutboxInv, ConsumersOK
<1>2. ASSUME NEW c \in Consumers, consumer[c].pc = "execute"
      PROVE  /\ consumer[c].event \in Events /\ work[consumer[c].event] = "busy"
             /\ \A d \in Consumers : d # c /\ consumer[d].pc = "execute" => consumer[d].event # consumer[c].event
  <2>1. consumer[c].pc # "idle"
    BY <1>2
  <2> QED BY <1>1, <1>2, <2>1, Zenon DEF OutboxInv, ConsumersOK, ExecutedByOne
<1>3. \A e \in Events : row'[e].status = "none" => row[e].status = "none" /\ work[e] = "none"
  BY RowsMove, Zenon DEF OutboxInv, ConsumersOK
\* A step of one consumer at its own event.
<1>4. ASSUME NEW c \in Consumers, NEW n \in ConsumerState, consumer' = [consumer EXCEPT ![c] = n],
             crashes' \in 0 .. MaxFaults,
             n.pc # "idle" => <<n.event, n.copy>> \in Copies,
             n.pc = "execute" => /\ work'[n.event] = "busy"
                                 /\ \A d \in Consumers : consumer[d].pc = "execute" => consumer[d].event # n.event,
             \/ UNCHANGED work
             \/ /\ consumer[c].pc # "idle" /\ work[consumer[c].event] # "none"
                /\ \A d \in Consumers : d # c /\ consumer[d].pc = "execute" => consumer[d].event # consumer[c].event
                /\ \E s \in States : work' = [work EXCEPT ![consumer[c].event] = s]
      PROVE  All
  <2>1. /\ consumer' \in [Consumers -> ConsumerState] /\ consumer'[c] = n
        /\ \A d \in Consumers : d # c => consumer'[d] = consumer[d]
    BY <1>0, <1>4, Zenon
  <2>2. /\ work' \in [Events -> States]
        /\ \A e \in Events : work'[e] # work[e] => work[e] # "none"
        /\ \A d \in Consumers : d # c /\ consumer[d].pc = "execute" =>
             work'[consumer[d].event] = work[consumer[d].event]
    <3>1. CASE UNCHANGED work
      BY <1>0, <3>1
    <3>2. ASSUME NEW s \in States, consumer[c].pc # "idle", work[consumer[c].event] # "none",
                 \A d \in Consumers : d # c /\ consumer[d].pc = "execute" =>
                   consumer[d].event # consumer[c].event,
                 work' = [work EXCEPT ![consumer[c].event] = s]
          PROVE  /\ work' \in [Events -> States]
                 /\ \A e \in Events : work'[e] # work[e] => work[e] # "none"
                 /\ \A d \in Consumers : d # c /\ consumer[d].pc = "execute" =>
                      work'[consumer[d].event] = work[consumer[d].event]
      <4>1. consumer[c].event \in Events
        BY <1>1, <3>2, Zenon
      <4>2. work' \in [Events -> States] /\ \A e \in Events : e # consumer[c].event => work'[e] = work[e]
        BY <1>0, <3>2, <4>1, Zenon
      <4> QED BY <1>2, <3>2, <4>2, Zenon
    <3> QED BY <1>4, <3>1, <3>2, Zenon
  <2>3. \A d \in Consumers : consumer'[d].pc # "idle" => <<consumer'[d].event, consumer'[d].copy>> \in Copies
    BY <1>1, <1>4, <2>1, Zenon
  <2>4. \A d \in Consumers : consumer'[d].pc = "execute" => work'[consumer'[d].event] = "busy"
    BY <1>2, <1>4, <2>1, <2>2, Zenon
  <2>5. ExecutedByOne'
    <3>1. ASSUME NEW d \in Consumers, NEW f \in Consumers, d # f,
                 consumer'[d].pc = "execute", consumer'[f].pc = "execute"
          PROVE  consumer'[d].event # consumer'[f].event
      BY <1>2, <1>4, <2>1, <3>1, Zenon
    <3> QED BY <3>1, Zenon DEF ExecutedByOne
  <2>6. \A e \in Events : row'[e].status = "none" => work'[e] = "none"
    BY <1>3, <2>2, Zenon
  <2>7. ConsumersOK'
    BY <2>3, <2>4, <2>5, <2>6, Zenon DEF ConsumersOK
  <2> QED BY <1>4, <2>1, <2>2, <2>7, Zenon
<1>5. ASSUME UNCHANGED <<consumer, work>>, crashes' \in 0 .. MaxFaults PROVE All
  <2>1. ConsumersOK'
    BY <1>3, <1>5, Zenon DEF OutboxInv, ConsumersOK, ExecutedByOne
  <2> QED BY <1>0, <1>5, <2>1, Zenon
\* A consumer that leaves its copy.
<1>6. ASSUME NEW c \in Consumers, consumer' = [consumer EXCEPT ![c] = IdleConsumer],
             crashes' \in 0 .. MaxFaults,
             \/ UNCHANGED work
             \/ /\ consumer[c].pc = "execute"
                /\ \E s \in States : work' = [work EXCEPT ![consumer[c].event] = s]
      PROVE  All
  <2>1. IdleConsumer \in ConsumerState /\ ~(IdleConsumer.pc # "idle") /\ ~(IdleConsumer.pc = "execute")
    BY DEF IdleConsumer, ConsumerState
  <2>2. consumer[c].pc = "execute" => consumer[c].pc # "idle" /\ work[consumer[c].event] # "none"
    BY <1>2
  <2> HIDE DEF All, States
  <2> QED BY <1>2, <1>4, <1>6, <2>1, <2>2, Zenon
<1>7. ASSUME NEW c \in Consumers, NEW m \in Copies, Deliver(c, m) PROVE All
  <2>1. m[1] \in Events /\ m[2] \in Nat /\ m = <<m[1], m[2]>>
    BY DEF Copies
  <2> DEFINE n == [pc |-> "lookup", event |-> m[1], copy |-> m[2]]
  <2>2. n \in ConsumerState /\ ~(n.pc = "execute") /\ n.event = m[1] /\ n.copy = m[2]
    BY <2>1, Zenon DEF ConsumerState
  <2>3. consumer' = [consumer EXCEPT ![c] = n] /\ UNCHANGED <<work, crashes>>
    BY <1>7 DEF Deliver
  <2>4. crashes' \in 0 .. MaxFaults
    BY <1>0, <2>3, Zenon
  <2>5. <<n.event, n.copy>> \in Copies
    BY <2>1, <2>2, Zenon
  <2> HIDE DEF n, All
  <2> QED BY <1>4, <2>2, <2>3, <2>4, <2>5, Zenon
<1>8. ASSUME NEW c \in Consumers, NEW s \in {"claim", "execute"}, consumer[c].pc # "idle",
             consumer' = [consumer EXCEPT ![c].pc = s], crashes' = crashes,
             s = "claim" => UNCHANGED work,
             s = "execute" => /\ work[consumer[c].event] = "waiting"
                              /\ work' = [work EXCEPT ![consumer[c].event] = "busy"]
      PROVE  All
  <2> DEFINE n == [consumer[c] EXCEPT !.pc = s]
  <2>1. n \in ConsumerState /\ n.pc = s /\ n.event = consumer[c].event /\ n.copy = consumer[c].copy
    BY <1>0, <1>8 DEF ConsumerState
  <2>2. consumer' = [consumer EXCEPT ![c] = n] /\ crashes' \in 0 .. MaxFaults
    BY <1>0, <1>8
  <2>3. <<consumer[c].event, consumer[c].copy>> \in Copies /\ consumer[c].event \in Events
    BY <1>1, <1>8, Zenon
  <2> HIDE DEF n
  <2>4. CASE s = "claim"
    <3>1. ~(n.pc = "execute")
      BY <2>1, <2>4, Zenon
    <3>2. <<n.event, n.copy>> \in Copies /\ UNCHANGED work
      BY <1>8, <2>1, <2>3, <2>4, Zenon
    <3> HIDE DEF All, States
    <3> QED BY <1>4, <2>1, <2>2, <3>1, <3>2, Zenon
  <2>5. CASE s = "execute"
    <3>1. /\ work[consumer[c].event] = "waiting" /\ "busy" \in States
          /\ work[consumer[c].event] # "none" /\ work[consumer[c].event] # "busy"
          /\ work' = [work EXCEPT ![consumer[c].event] = "busy"]
      BY <1>8, <2>5, Zenon
    <3>2. work'[consumer[c].event] = "busy"
      BY <1>0, <2>3, <3>1, Zenon
    <3>3. \A d \in Consumers : consumer[d].pc = "execute" => consumer[d].event # consumer[c].event
      BY <1>2, <3>1, Zenon
    <3>4. <<n.event, n.copy>> \in Copies /\ work'[n.event] = "busy"
      BY <2>1, <2>3, <3>2, Zenon
    <3>5. \A d \in Consumers : consumer[d].pc = "execute" => consumer[d].event # n.event
      BY <2>1, <3>3, Zenon
    <3>6. \E x \in States : work' = [work EXCEPT ![consumer[c].event] = x]
      BY <3>1, Zenon
    <3>7. \A d \in Consumers : d # c /\ consumer[d].pc = "execute" => consumer[d].event # consumer[c].event
      BY <3>3, Zenon
    <3> HIDE DEF All, States
    <3> QED BY <1>4, <1>8, <2>1, <2>2, <3>1, <3>4, <3>5, <3>6, <3>7, Zenon
  <2> QED BY <2>4, <2>5, Zenon
<1>9. ASSUME NEW c \in Consumers, Lookup(c) \/ ClaimWork(c) PROVE All
  <2>1. crashes' = crashes /\ consumer[c].pc # "idle" /\ crashes' \in 0 .. MaxFaults
        /\ "claim" # "execute" /\ "claim" \in {"claim", "execute"} /\ "execute" \in {"claim", "execute"}
    BY <1>0, <1>9 DEF Lookup, ClaimWork
  <2>2. CASE Ack(c) /\ UNCHANGED work
    BY <1>6, <2>1, <2>2, Zenon DEF Ack
  <2>3. ASSUME consumer' = [consumer EXCEPT ![c].pc = "claim"], UNCHANGED work PROVE All
    <3> HIDE DEF All
    <3> QED BY <1>8, <2>1, <2>3, Zenon
  <2>4. ASSUME consumer' = [consumer EXCEPT ![c].pc = "execute"], work[consumer[c].event] = "waiting",
               work' = [work EXCEPT ![consumer[c].event] = "busy"]
        PROVE  All
    <3> HIDE DEF All
    <3> QED BY <1>8, <2>1, <2>4, Zenon
  <2> HIDE DEF All
  <2> QED BY <1>9, <2>2, <2>3, <2>4, Zenon DEF Lookup, ClaimWork
<1>10. ASSUME NEW c \in Consumers, Executed(c) \/ Saturated(c) \/ ConsumerFails(c) PROVE All
  <2>1. "over" \in States /\ "waiting" \in States
    OBVIOUS
  <2>2. crashes' \in 0 .. MaxFaults
    BY <1>0, <1>10 DEF Executed, Saturated, ConsumerFails
  <2> HIDE DEF All, States
  <2> QED BY <1>6, <1>10, <2>1, <2>2, Zenon DEF Executed, Saturated, ConsumerFails, Ack, Nack
\* A step at the work of an event that nobody executes.
<1>11. ASSUME NEW e \in Events, NEW s \in States, work' = [work EXCEPT ![e] = s],
              UNCHANGED <<consumer, crashes>>, row'[e].status # "none",
              \A c \in Consumers : consumer[c].pc = "execute" => consumer[c].event # e
       PROVE  All
  <2>1. work' \in [Events -> States] /\ \A x \in Events : x # e => work'[x] = work[x]
    BY <1>0, <1>11, Zenon
  <2>2. \A c \in Consumers : consumer[c].pc = "execute" => work'[consumer[c].event] = "busy"
    BY <1>2, <1>11, <2>1, Zenon
  <2>3. \A x \in Events : row'[x].status = "none" => work'[x] = "none"
    BY <1>3, <1>11, <2>1, Zenon
  <2>4. ConsumersOK'
    BY <1>11, <2>2, <2>3, Zenon DEF OutboxInv, ConsumersOK, ExecutedByOne
  <2> QED BY <1>0, <1>11, <2>1, <2>4, Zenon
<1>12. ASSUME NEW e \in Events, WorkEnds(e) PROVE All
  <2>1. "over" \in States /\ work[e] # "none"
    BY <1>12, Zenon DEF WorkEnds
  <2> HIDE DEF All, States
  <2> QED BY <1>3, <1>11, <1>12, <2>1, Zenon DEF WorkEnds
<1>13. ASSUME NEW e \in Events, Commit(e) PROVE All
  <2>1. /\ "waiting" \in States /\ row[e].status = "none"
        /\ row' = [row EXCEPT ![e] = Opened(row[e], "pending", TRUE)] /\ row \in [Events -> OutboxRow]
    BY <1>13 DEF Commit, Opened, OutboxInv, OutboxTypeOK
  <2>2. "pending" \in RowStates /\ TRUE \in BOOLEAN /\ row[e] \in OutboxRow
    BY <2>1 DEF RowStates
  <2> DEFINE r == Opened(row[e], "pending", TRUE)
  <2>3. r \in OutboxRow /\ r.status = "pending" /\ row' = [row EXCEPT ![e] = r]
    BY <2>1, <2>2, RowUpdates, Zenon
  <2> HIDE DEF r
  <2>4. row'[e].status # "none"
    <3>1. row \in [Events -> OutboxRow]
      BY <2>1, Zenon
    <3> QED BY <2>3, <3>1
  <2>5. work[e] = "none" /\ "none" # "busy"
    BY <2>1, Zenon DEF OutboxInv, ConsumersOK
  <2>6. \A c \in Consumers : consumer[c].pc = "execute" => consumer[c].event # e
    BY <1>2, <2>5, Zenon
  <2> HIDE DEF All, States
  <2> QED BY <1>11, <1>13, <2>1, <2>4, <2>6, Zenon DEF Commit
<1>14. ASSUME NEW p \in Relays, RelayStep(p) \/ RelayCrash(p) PROVE All
  <2>1. CASE RelayStep(p)
    <3>1. UNCHANGED <<consumer, work, crashes>>
      BY <2>1, Zenon
      DEF RelayStep, ClaimBatch, PublishConfirmed, PublishRaises, MarkPublished, MarkRetry
    <3> QED BY <1>0, <1>5, <3>1, Zenon
  <2>2. CASE RelayCrash(p)
    <3>1. UNCHANGED <<consumer, work>> /\ crashes' \in 0 .. MaxFaults
      BY <1>0, <2>2 DEF RelayCrash
    <3> QED BY <1>5, <3>1, Zenon
  <2> QED BY <1>14, <2>1, <2>2, Zenon
<1>15. ASSUME NEW e \in Events, BecomesDue(e) PROVE All
  BY <1>0, <1>5, <1>15, Zenon DEF BecomesDue
<1>16. ASSUME UNCHANGED outboxVars PROVE All
  BY <1>0, <1>5, <1>16, Zenon DEF outboxVars
<1>17. ASSUME NEW c \in Consumers, ConsumerRejects(c) PROVE All
  <2> HIDE DEF All, States
  <2> QED BY <1>0, <1>6, <1>17, Zenon DEF ConsumerRejects
<1>18. All
  <2> HIDE DEF All
  <2>1. ASSUME NEW c \in Consumers, ConsumerStep(c) \/ ConsumerFails(c) \/ ConsumerRejects(c) PROVE All
    BY <1>7, <1>9, <1>10, <1>17, <2>1, Zenon DEF ConsumerStep
  <2> QED
    BY <1>12, <1>13, <1>14, <1>15, <1>16, <2>1, Zenon DEF OutboxNext
<1> QED BY <1>18, Zenon

\* The initial rows, relays and consumers are idle.
LEMMA OutboxStarts ==
  ASSUME OutboxInit
  PROVE  OutboxInv
<1>1. /\ NoOutboxRow \in OutboxRow /\ IdleRelay \in RelayState /\ IdleConsumer \in ConsumerState
      /\ NoOutboxRow.status = "none" /\ NoOutboxRow.attempts = 0 /\ NoOutboxRow.token = 0
      /\ IdleRelay.pc = "idle" /\ IdleConsumer.pc = "idle" /\ \A e \in Events : IdleRelay.held[e] = 0
  BY Zenon DEF NoOutboxRow, OutboxRow, IdleRelay, RelayState, IdleConsumer, ConsumerState
<1>2. OutboxTypeOK
  <2>1. /\ 0 \in 0 .. DeliveryLimit /\ 0 \in 0 .. MaxFaults /\ 0 <= MaxAttempts /\ 0 <= 0
    BY OutboxConstants
  <2>2. [state |-> "none", tries |-> 0] \in
          [state : {"none", "ready", "unacked", "acked", "dead"}, tries : 0 .. DeliveryLimit]
    BY <2>1, Zenon
  <2> QED BY <1>1, <2>1, <2>2, Zenon DEF OutboxInit, OutboxTypeOK
<1>3. RelaysOK /\ PublishedIsSent
  <2>1. 0 <= 0 /\ "idle" # "markPublished" /\ "none" # "published"
    OBVIOUS
  <2> QED BY <1>1, <2>1, Zenon DEF OutboxInit, RelaysOK, PublishedIsSent
<1>4. ConsumersOK
  BY <1>1, Zenon DEF OutboxInit, ConsumersOK, ExecutedByOne
<1> QED BY <1>2, <1>3, <1>4 DEF OutboxInv

\* Every step keeps the invariant of the outbox.
LEMMA OutboxStep ==
  ASSUME OutboxInv, [OutboxNext]_outboxVars
  PROVE  OutboxInv'
<1>1. OutboxTypeOK'
  <2>1. /\ row' \in [Events -> OutboxRow]
        /\ \A e \in Events : row'[e].attempts <= MaxAttempts /\ row'[e].token <= row'[e].attempts
    BY RowsMove, Zenon
  <2> QED BY <2>1, RelaysKeep, MessagesStay, ConsumersKeep, Zenon DEF OutboxTypeOK
<1>2. PublishedIsSent'
  <2>1. ASSUME NEW e \in Events, row'[e].status = "published" PROVE Sent(e)'
    <3>1. PICK n \in 1 .. MaxAttempts : msg[<<e, n>>].state # "none"
      <4>1. CASE row[e].status = "published"
        BY <4>1, Zenon DEF OutboxInv, PublishedIsSent, Sent
      <4>2. ASSUME NEW p \in Relays, relay[p].pc = "markPublished", relay[p].event = e
            PROVE  \E n \in 1 .. MaxAttempts : msg[<<e, n>>].state # "none"
        <5>1. /\ relay[p].held[e] # 0 /\ relay[p].held[e] <= row[e].attempts
              /\ msg[<<e, relay[p].held[e]>>].state # "none"
          BY <4>2, Zenon DEF OutboxInv, RelaysOK
        <5>2. /\ relay[p].held[e] \in Nat /\ row[e].attempts \in Nat /\ MaxAttempts \in Nat
              /\ row[e].attempts <= MaxAttempts
          BY OutboxConstants DEF OutboxInv, OutboxTypeOK, RelayState, OutboxRow
        <5>3. relay[p].held[e] \in 1 .. MaxAttempts
          BY <5>1, <5>2, Between, Zenon
        <5> QED BY <5>1, <5>3, Zenon
      <4> QED BY <2>1, <4>1, <4>2, RowsMove, Zenon
    <3>2. <<e, n>> \in Copies
      BY DEF Copies
    <3> QED BY <3>1, <3>2, MessagesStay, Zenon DEF Sent
  <2> QED BY <2>1, Zenon DEF PublishedIsSent
<1> QED BY <1>1, <1>2, RelaysKeep, ConsumersKeep, Zenon DEF OutboxInv

\* The inductive invariant of the outbox holds in every reachable state.
THEOREM OutboxInvariant == OutboxSpec => []OutboxInv
<1>1. OutboxInit => OutboxInv
  BY OutboxStarts
<1>2. OutboxInv /\ [OutboxNext]_outboxVars => OutboxInv'
  BY OutboxStep
<1> QED BY <1>1, <1>2, PTL DEF OutboxSpec

\* A lease that has not lapsed is ended by the relay that holds it.
THEOREM LeaseKeptHolds == OutboxSpec => LeaseKept
<1>1. OutboxInv /\ [OutboxNext]_outboxVars => LeaseKeptStep
  BY RowsMove, Zenon
<1> QED BY <1>1, OutboxInvariant, PTL DEF OutboxSpec, LeaseKept

\* A row marked published stands for a message that the broker took.
THEOREM PublishedIsSentHolds == OutboxSpec => []PublishedIsSent
<1>1. OutboxInv => PublishedIsSent
  BY DEF OutboxInv
<1> QED BY <1>1, OutboxInvariant, PTL

\* Redelivered copies of a message do not run the work of one event twice at once.
THEOREM ExecutedByOneHolds == OutboxSpec => []ExecutedByOne
<1>1. OutboxInv => ExecutedByOne
  BY Zenon DEF OutboxInv, ConsumersOK
<1> QED BY <1>1, OutboxInvariant, PTL

=============================================================================
