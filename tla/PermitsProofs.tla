---------------------------- MODULE PermitsProofs ----------------------------
(***************************************************************************)
(* Proofs about the permit semaphore, for every number of clients, tenants *)
(* and tokens and all limits and times that satisfy PermitsAssumption.     *)
(***************************************************************************)
EXTENDS Permits, FiniteSetTheorems, TLAPS

-----------------------------------------------------------------------------
(* The permits: the inductive invariant. *)

\* No key has more live entries than its limit.
CapacityOK == \A k \in Keys : Cardinality(Live(k)) <= LimitOf(k)

\* A client that is not idle has a token of its own.
TokensOK ==
  /\ \A c \in Clients : Busy(c) => client[c].token \in Tokens
  /\ \A c, d \in Clients :
       (client[c].token = client[d].token /\ client[c].token # NoToken) => c = d

Left(c, lease) == entries[KeyOf(c, lease)][client[c].token]

\* What is left of a client's permits, by how long ago it last renewed them.
Covered(c) ==
  /\ client[c].pc = "tenant" =>
       /\ client[c].renewing = 0
       /\ client[c].since <= Slack
       /\ Left(c, 1) >= TTL - client[c].since
  /\ client[c].pc = "running" =>
       /\ client[c].since <= Interval + Slack
       /\ client[c].renewing # 0 => client[c].since >= Interval
       /\ Left(c, 2) >= TTL - client[c].since
       /\ Left(c, 1) >= TTL - Slack - client[c].since
       /\ client[c].renewing = 2 => Left(c, 1) >= TTL - (client[c].since - Interval)

PermitInv ==
  /\ PermitsTypeOK
  /\ CapacityOK
  /\ TokensOK
  /\ lapses = 0 => \A c \in Clients : Covered(c)

\* The keys of a client, and the numbers.
LEMMA PermitFacts ==
  /\ Slack \in Nat /\ Interval \in Nat /\ TTL \in Nat /\ Slack > 0 /\ Interval > 0 /\ TTL > 0
  /\ Interval + 2 * Slack < TTL
  /\ Limit \in Nat /\ TenantLimit \in Nat /\ Limit > 0 /\ TenantLimit > 0
  /\ NoToken \notin Tokens
  /\ \A c \in Clients : TenantOf[c] \in Keys /\ TenantOf[c] # Shared
  /\ Shared \in Keys
  /\ \A k \in Keys : LimitOf(k) \in Nat
  /\ \A c \in Clients : KeyOf(c, 1) = Shared /\ KeyOf(c, 2) = TenantOf[c]
<1>1. {Limit, TenantLimit, TTL, Interval, Slack} \subseteq Nat \ {0}
  BY PermitsAssumption
<1>2. /\ Slack \in Nat /\ Interval \in Nat /\ TTL \in Nat /\ Slack > 0 /\ Interval > 0 /\ TTL > 0
      /\ Limit \in Nat /\ TenantLimit \in Nat /\ Limit > 0 /\ TenantLimit > 0
  BY <1>1
<1>3. NoToken \notin Tokens /\ Interval + 2 * Slack < TTL
  BY PermitsAssumption DEF NoToken
<1>4. /\ \A c \in Clients : TenantOf[c] \in Keys /\ TenantOf[c] # Shared
      /\ Shared \in Keys
  BY PermitsAssumption DEF Keys
<1>5. \A k \in Keys : LimitOf(k) \in Nat
  BY <1>2 DEF LimitOf
<1>6. \A c \in Clients : KeyOf(c, 1) = Shared /\ KeyOf(c, 2) = TenantOf[c]
  BY DEF KeyOf
<1> QED
  BY <1>2, <1>3, <1>4, <1>5, <1>6, Zenon

\* What the scripts do to the entries.
LEMMA Scripts ==
  ASSUME PermitsTypeOK, NEW k \in Keys, NEW t \in Tokens
  PROVE  /\ PutEntry(k, t) =>
              /\ entries' \in [Keys -> [Tokens -> 0..TTL]]
              /\ entries'[k][t] = TTL
              /\ \A j \in Keys : \A u \in Tokens : (j # k \/ u # t) => entries'[j][u] = entries[j][u]
         /\ Drop(k, t) =>
              /\ entries' \in [Keys -> [Tokens -> 0..TTL]]
              /\ entries'[k][t] = 0
              /\ \A j \in Keys : \A u \in Tokens : (j # k \/ u # t) => entries'[j][u] = entries[j][u]
<1>1. entries \in [Keys -> [Tokens -> 0..TTL]] /\ entries[k] \in [Tokens -> 0..TTL]
  BY DEF PermitsTypeOK
<1>2. ASSUME NEW n \in 0..TTL, entries' = [entries EXCEPT ![k] = [entries[k] EXCEPT ![t] = n]]
      PROVE  /\ entries' \in [Keys -> [Tokens -> 0..TTL]]
             /\ entries'[k][t] = n
             /\ \A j \in Keys : \A u \in Tokens : (j # k \/ u # t) => entries'[j][u] = entries[j][u]
  <2> DEFINE f == [entries[k] EXCEPT ![t] = n]
  <2>1. f \in [Tokens -> 0..TTL] /\ f[t] = n /\ \A u \in Tokens : u # t => f[u] = entries[k][u]
    BY <1>1
  <2>2. entries' = [entries EXCEPT ![k] = f]
    BY <1>2
  <2> HIDE DEF f
  <2>3. /\ entries' \in [Keys -> [Tokens -> 0..TTL]]
        /\ entries'[k] = f /\ \A j \in Keys : j # k => entries'[j] = entries[j]
    BY <1>1, <2>1, <2>2
  <2> QED BY <2>1, <2>3, Zenon
<1>3. TTL \in 0..TTL /\ 0 \in 0..TTL
  BY PermitFacts
<1> QED
  BY <1>2, <1>3, Zenon DEF PutEntry, Drop

\* Time passes for every entry.
Passes == entries' = [k \in Keys |-> [t \in Tokens |-> Elapsed(entries[k][t])]]

\* An entry loses at most the tick that passes.
LEMMA PassingTime ==
  ASSUME PermitsTypeOK, Passes
  PROVE  /\ entries' \in [Keys -> [Tokens -> 0..TTL]]
         /\ \A k \in Keys : \A t \in Tokens :
              entries'[k][t] >= entries[k][t] - 1 /\ entries'[k][t] <= entries[k][t]
<1>1. ASSUME NEW k \in Keys, NEW t \in Tokens
      PROVE  /\ entries'[k][t] = Elapsed(entries[k][t]) /\ entries[k][t] \in 0..TTL
             /\ Elapsed(entries[k][t]) \in 0..TTL
             /\ entries'[k][t] >= entries[k][t] - 1 /\ entries'[k][t] <= entries[k][t]
  <2>1. entries'[k][t] = Elapsed(entries[k][t]) /\ entries[k][t] \in 0..TTL
    BY DEF Passes, PermitsTypeOK
  <2> QED BY <2>1, PermitFacts DEF Elapsed
<1> QED
  BY <1>1 DEF Passes

\* The ways the entries change.
EntriesChange ==
  \/ UNCHANGED entries
  \/ \E k \in Keys : \E t \in Tokens : (CanAcquire(k) \/ entries[k][t] > 0) /\ PutEntry(k, t)
  \/ \E k \in Keys : \E t \in Tokens : Drop(k, t)
  \/ Passes
  \/ entries' = [k \in Keys |-> [t \in Tokens |-> 0]]

\* However they change, the limits of the keys are kept.
LEMMA CapacityKept ==
  ASSUME PermitsTypeOK, CapacityOK, EntriesChange
  PROVE  entries' \in [Keys -> [Tokens -> 0..TTL]] /\ CapacityOK'
<1>0. entries \in [Keys -> [Tokens -> 0..TTL]] /\ IsFiniteSet(Tokens)
  BY PermitsAssumption DEF PermitsTypeOK
<1>1. ASSUME NEW k \in Keys PROVE IsFiniteSet(Live(k)) /\ Cardinality(Live(k)) \in Nat
  BY <1>0, FS_Subset, FS_CardinalityType DEF Live
<1>2. ASSUME NEW k \in Keys, Live(k)' \subseteq Live(k)
      PROVE  Cardinality(Live(k)') <= LimitOf(k)
  <2>1. Cardinality(Live(k)') <= Cardinality(Live(k)) /\ Cardinality(Live(k)') \in Nat
    BY <1>1, <1>2, FS_Subset, FS_CardinalityType
  <2>2. Cardinality(Live(k)) <= LimitOf(k)
    BY DEF CapacityOK
  <2> QED BY <1>1, <2>1, <2>2, PermitFacts
<1>3. ASSUME UNCHANGED entries PROVE entries' \in [Keys -> [Tokens -> 0..TTL]] /\ CapacityOK'
  BY <1>0, <1>2, <1>3 DEF CapacityOK, Live
<1>4. ASSUME NEW k \in Keys, NEW t \in Tokens, CanAcquire(k) \/ entries[k][t] > 0, PutEntry(k, t)
      PROVE  entries' \in [Keys -> [Tokens -> 0..TTL]] /\ CapacityOK'
  <2>1. /\ entries' \in [Keys -> [Tokens -> 0..TTL]]
        /\ \A j \in Keys : \A u \in Tokens : (j # k \/ u # t) => entries'[j][u] = entries[j][u]
    BY <1>4, Scripts, Zenon
  <2>2. ASSUME NEW j \in Keys, j # k PROVE Cardinality(Live(j)') <= LimitOf(j)
    BY <1>2, <2>1, <2>2 DEF Live
  <2>3. Cardinality(Live(k)') <= LimitOf(k)
    <3>1. CASE entries[k][t] > 0
      BY <1>2, <2>1, <3>1 DEF Live
    <3>2. CASE ~(entries[k][t] > 0)
      <4>1. Live(k)' \subseteq Live(k) \cup {t} /\ t \notin Live(k)
        BY <2>1, <3>2 DEF Live
      <4>2. Cardinality(Live(k) \cup {t}) = Cardinality(Live(k)) + 1 /\ IsFiniteSet(Live(k) \cup {t})
        BY <1>1, <4>1, FS_AddElement
      <4>3. Cardinality(Live(k)') <= Cardinality(Live(k) \cup {t}) /\ Cardinality(Live(k)') \in Nat
        BY <4>1, <4>2, FS_Subset, FS_CardinalityType
      <4>4. Cardinality(Live(k)) < LimitOf(k)
        BY <1>4, <3>2 DEF CanAcquire
      <4> QED BY <1>1, <4>2, <4>3, <4>4, PermitFacts
    <3> QED BY <3>1, <3>2
  <2> QED BY <2>1, <2>2, <2>3, Zenon DEF CapacityOK
<1>5. ASSUME NEW k \in Keys, NEW t \in Tokens, Drop(k, t)
      PROVE  entries' \in [Keys -> [Tokens -> 0..TTL]] /\ CapacityOK'
  <2>1. /\ entries' \in [Keys -> [Tokens -> 0..TTL]] /\ entries'[k][t] = 0
        /\ \A j \in Keys : \A u \in Tokens : (j # k \/ u # t) => entries'[j][u] = entries[j][u]
    BY <1>5, Scripts, Zenon
  <2>2. ASSUME NEW j \in Keys PROVE Live(j)' \subseteq Live(j)
    BY <2>1 DEF Live
  <2> QED BY <1>2, <2>1, <2>2 DEF CapacityOK
<1>6. ASSUME Passes PROVE entries' \in [Keys -> [Tokens -> 0..TTL]] /\ CapacityOK'
  <2>1. /\ entries' \in [Keys -> [Tokens -> 0..TTL]]
        /\ \A k \in Keys : \A t \in Tokens : entries'[k][t] <= entries[k][t]
    BY <1>6, PassingTime, Zenon
  <2>2. ASSUME NEW j \in Keys PROVE Live(j)' \subseteq Live(j)
    <3>1. ASSUME NEW t \in Tokens, entries'[j][t] > 0 PROVE entries[j][t] > 0
      BY <1>0, <2>1, <3>1
    <3> QED BY <3>1 DEF Live
  <2> QED BY <1>2, <2>1, <2>2 DEF CapacityOK
<1>7. ASSUME entries' = [k \in Keys |-> [t \in Tokens |-> 0]]
      PROVE  entries' \in [Keys -> [Tokens -> 0..TTL]] /\ CapacityOK'
  <2>1. entries' \in [Keys -> [Tokens -> 0..TTL]]
    BY <1>7, PermitFacts
  <2>2. ASSUME NEW j \in Keys PROVE Live(j)' \subseteq Live(j)
    BY <1>7 DEF Live
  <2> QED BY <1>2, <2>1, <2>2 DEF CapacityOK
<1> QED
  BY <1>3, <1>4, <1>5, <1>6, <1>7, Zenon DEF EntriesChange

\* Only the entries of token t may change.
Touches(t) == \A k \in Keys : \A u \in Tokens : u # t => entries'[k][u] = entries[k][u]

\* Client c becomes r and only token t is touched, c's own or one that nobody used.
ClientMoves(c, r, t) ==
  /\ r \in Client
  /\ client' = [client EXCEPT ![c] = r]
  /\ t = client[c].token \/ (t \in Tokens /\ Fresh(t))
  /\ r.token \in {NoToken, client[c].token, t}
  /\ r.pc # "idle" => r.token \in Tokens
  /\ Touches(t)
  /\ EntriesChange
  /\ mishaps' \in 0..MaxMishaps
  /\ lapses' = lapses

\* The types of a client's fields.
LEMMA ClientFields ==
  ASSUME PermitsTypeOK, NEW c \in Clients
  PROVE  /\ client[c] \in Client
         /\ client[c].token \in Tokens \cup {NoToken}
         /\ client[c].since \in 0..TTL /\ client[c].since \in Nat
         /\ client[c].renewing \in 0..2
         /\ client[c].active \in SUBSET {1, 2}
         /\ client[c].lost \in BOOLEAN
         /\ client[c].pc \in {"idle", "tenant", "undo", "running", "close2", "close1"}
<1>1. client[c] \in Client
  BY DEF PermitsTypeOK
<1> QED
  BY <1>1, PermitFacts DEF Client

\* What a client has left is a number.
LEMMA LeftFields ==
  ASSUME PermitsTypeOK, NEW c \in Clients, client[c].token \in Tokens
  PROVE  /\ Left(c, 1) \in 0..TTL /\ Left(c, 2) \in 0..TTL
         /\ Left(c, 1) = entries[Shared][client[c].token]
         /\ Left(c, 2) = entries[TenantOf[c]][client[c].token]
<1>1. /\ TenantOf[c] \in Keys /\ Shared \in Keys /\ KeyOf(c, 1) = Shared /\ KeyOf(c, 2) = TenantOf[c]
  BY PermitFacts
<1> QED
  BY <1>1 DEF PermitsTypeOK, Left

\* A move of one client keeps the invariant if it leaves that client covered.
LEMMA MoveKeeps ==
  ASSUME PermitInv, NEW c \in Clients, NEW r, NEW t,
         ClientMoves(c, r, t), lapses = 0 => Covered(c)'
  PROVE  PermitInv'
<1>1. /\ client \in [Clients -> Client] /\ r \in Client
      /\ client' = [client EXCEPT ![c] = r]
  BY Zenon DEF PermitInv, PermitsTypeOK, ClientMoves
<1>2. /\ client' \in [Clients -> Client] /\ client'[c] = r
      /\ \A d \in Clients : d # c => client'[d] = client[d]
  BY <1>1
<1>3. PermitsTypeOK' /\ CapacityOK'
  BY <1>2, CapacityKept, Zenon DEF PermitInv, ClientMoves, PermitsTypeOK
<1>4. ASSUME NEW d \in Clients, d # c
      PROVE  /\ client'[d] = client[d] /\ client[d].token \in Tokens \cup {NoToken}
             /\ Busy(d) => client[d].token \in Tokens
             /\ client[d].token # NoToken => client[d].token # t /\ client[d].token # r.token
  <2>1. /\ client'[d] = client[d] /\ client[d].token \in Tokens \cup {NoToken}
        /\ Busy(d) => client[d].token \in Tokens
    BY <1>2, <1>4, ClientFields, Zenon DEF PermitInv, TokensOK
  <2>2. ASSUME client[d].token # NoToken PROVE client[d].token # t /\ client[d].token # r.token
    <3>1. client[c].token # client[d].token
      BY <1>4, <2>2 DEF PermitInv, TokensOK
    <3>2. client[d].token # t
      BY <3>1 DEF ClientMoves, Fresh
    <3> QED BY <2>2, <3>1, <3>2 DEF ClientMoves
  <2> QED BY <2>1, <2>2, Zenon
<1>5. TokensOK'
  <2>1. ASSUME NEW d \in Clients, Busy(d)' PROVE client'[d].token \in Tokens
    <3>1. CASE d = c
      BY <1>2, <2>1, <3>1 DEF Busy, ClientMoves
    <3>2. CASE d # c
      BY <1>4, <2>1, <3>2 DEF Busy
    <3> QED BY <3>1, <3>2
  <2>2. ASSUME NEW d \in Clients, NEW e \in Clients,
               client'[d].token = client'[e].token, client'[d].token # NoToken
        PROVE  d = e
    <3>1. CASE d # c /\ e # c
      BY <1>2, <2>2, <3>1 DEF PermitInv, TokensOK
    <3>2. CASE d = c /\ e # c
      BY <1>2, <1>4, <2>2, <3>2
    <3>3. CASE d # c /\ e = c
      BY <1>2, <1>4, <2>2, <3>3
    <3> QED BY <3>1, <3>2, <3>3
  <2> QED BY <2>1, <2>2, Zenon DEF TokensOK
<1>6. ASSUME lapses' = 0, NEW d \in Clients PROVE Covered(d)'
  <2>1. lapses = 0
    BY <1>6 DEF ClientMoves
  <2>2. CASE d = c
    BY <2>1, <2>2
  <2>3. ASSUME d # c PROVE Covered(d)'
    <3>1. Covered(d) /\ client'[d] = client[d]
      BY <1>4, <2>1, <2>3 DEF PermitInv
    <3>2. ASSUME Busy(d) PROVE Left(d, 1)' = Left(d, 1) /\ Left(d, 2)' = Left(d, 2)
      <4>1. client[d].token \in Tokens /\ client[d].token # t
        BY <1>4, <2>3, <3>2, PermitFacts
      <4> QED BY <3>1, <4>1, PermitFacts DEF Left, ClientMoves, Touches
    <3>3. CASE Busy(d)
      BY <3>1, <3>2, <3>3, Zenon DEF Covered
    <3>4. CASE ~Busy(d)
      <4>1. client'[d].pc = "idle"
        BY <3>1, <3>4 DEF Busy
      <4> QED BY <4>1 DEF Covered
    <3> QED BY <3>3, <3>4
  <2> QED BY <2>2, <2>3
<1> QED
  BY <1>3, <1>5, <1>6, Zenon DEF PermitInv

\* A script touches the entry it is about and no other.
LEMMA Effects ==
  ASSUME PermitsTypeOK, NEW k \in Keys, NEW t \in Tokens
  PROVE  /\ (CanAcquire(k) /\ PutEntry(k, t)) => Touches(t) /\ EntriesChange
         /\ (entries[k][t] > 0 /\ PutEntry(k, t)) => Touches(t) /\ EntriesChange
         /\ Drop(k, t) => Touches(t) /\ EntriesChange
<1>0. ASSUME PutEntry(k, t) \/ Drop(k, t)
      PROVE  \A j \in Keys : \A u \in Tokens : (j # k \/ u # t) => entries'[j][u] = entries[j][u]
  BY <1>0, Scripts, Zenon
<1>1. (PutEntry(k, t) \/ Drop(k, t)) => Touches(t)
  BY <1>0, Zenon DEF Touches
<1> QED
  BY <1>1, Zenon DEF EntriesChange

\* A step that sends nothing touches nothing.
LEMMA NoEffect ==
  ASSUME UNCHANGED entries, NEW t
  PROVE  Touches(t) /\ EntriesChange
BY Zenon DEF Touches, EntriesChange

\* The counter of mishaps keeps its type.
LEMMA FaultType ==
  ASSUME PermitsTypeOK, Mishap \/ UNCHANGED mishaps
  PROVE  mishaps' \in 0..MaxMishaps
BY PermitsAssumption DEF PermitsTypeOK, Mishap

\* A client that neither asks for its second permit nor runs is covered.
LEMMA CoveredElsewhere ==
  ASSUME NEW c, client'[c].pc \notin {"tenant", "running"}
  PROVE  Covered(c)'
BY DEF Covered

\* The sets that the updates of a client take their values from.
LEMMA UpdateValues ==
  /\ {1} \in SUBSET {1, 2} /\ {1, 2} \in SUBSET {1, 2} /\ {} \in SUBSET {1, 2}
  /\ 0 \in 0..TTL /\ 0 \in 0..2 /\ 1 \in 0..2 /\ 2 \in 0..2
BY PermitFacts

\* The states of a client.
ClientPcs == {"idle", "tenant", "undo", "running", "close2", "close1"}

\* A client with another pc is a client whose other fields are kept.
LEMMA SetPc ==
  ASSUME NEW q \in Client, NEW x \in ClientPcs
  PROVE  LET r == [q EXCEPT !.pc = x]
         IN  /\ r \in Client /\ r.pc = x
             /\ r.token = q.token /\ r.active = q.active /\ r.renewing = q.renewing
             /\ r.since = q.since /\ r.lost = q.lost
BY Zenon DEF Client, ClientPcs

\* A client with another token is a client whose other fields are kept.
LEMMA SetToken ==
  ASSUME NEW q \in Client, NEW x \in Tokens
  PROVE  LET r == [q EXCEPT !.token = x]
         IN  /\ r \in Client /\ r.token = x
             /\ r.pc = q.pc /\ r.active = q.active /\ r.renewing = q.renewing
             /\ r.since = q.since /\ r.lost = q.lost
BY Zenon DEF Client, ClientPcs

\* A client with another active is a client whose other fields are kept.
LEMMA SetActive ==
  ASSUME NEW q \in Client, NEW x \in SUBSET {1, 2}
  PROVE  LET r == [q EXCEPT !.active = x]
         IN  /\ r \in Client /\ r.active = x
             /\ r.pc = q.pc /\ r.token = q.token /\ r.renewing = q.renewing
             /\ r.since = q.since /\ r.lost = q.lost
BY Zenon DEF Client, ClientPcs

\* A client with another renewing is a client whose other fields are kept.
LEMMA SetRenewing ==
  ASSUME NEW q \in Client, NEW x \in 0..2
  PROVE  LET r == [q EXCEPT !.renewing = x]
         IN  /\ r \in Client /\ r.renewing = x
             /\ r.pc = q.pc /\ r.token = q.token /\ r.active = q.active
             /\ r.since = q.since /\ r.lost = q.lost
BY Zenon DEF Client, ClientPcs

\* A client with another since is a client whose other fields are kept.
LEMMA SetSince ==
  ASSUME NEW q \in Client, NEW x \in 0..TTL
  PROVE  LET r == [q EXCEPT !.since = x]
         IN  /\ r \in Client /\ r.since = x
             /\ r.pc = q.pc /\ r.token = q.token /\ r.active = q.active
             /\ r.renewing = q.renewing /\ r.lost = q.lost
BY Zenon DEF Client, ClientPcs

\* A client with another lost is a client whose other fields are kept.
LEMMA SetLost ==
  ASSUME NEW q \in Client, NEW x \in BOOLEAN
  PROVE  LET r == [q EXCEPT !.lost = x]
         IN  /\ r \in Client /\ r.lost = x
             /\ r.pc = q.pc /\ r.token = q.token /\ r.active = q.active
             /\ r.renewing = q.renewing /\ r.since = q.since
BY Zenon DEF Client, ClientPcs

\* Idle is a client.
LEMMA IdleTyped == Idle \in Client
<1> DEFINE E == {}
<1>1. E \in SUBSET {1, 2}
  OBVIOUS
<1>2. Idle = [pc |-> "idle", token |-> NoToken, active |-> E, renewing |-> 0,
              since |-> 0, lost |-> FALSE]
  BY DEF Idle
<1> HIDE DEF E
<1> QED
  BY <1>1, <1>2, UpdateValues DEF Client

\* The client that has its shared permit.
LEMMA IdleUpdate ==
  ASSUME NEW t \in Tokens, NEW r,
         r = [Idle EXCEPT !.pc = "tenant", !.token = t, !.active = {1}]
  PROVE  r \in Client /\ r.token = t /\ r.pc = "tenant" /\ r.since = 0 /\ r.renewing = 0
<1> DEFINE E == {1}
           q1 == [Idle EXCEPT !.pc = "tenant"]
           q2 == [q1 EXCEPT !.token = t]
           q3 == [q2 EXCEPT !.active = E]
<1>1. E \in SUBSET {1, 2} /\ "tenant" \in ClientPcs
  BY DEF ClientPcs
<1>2. r = q3 /\ Idle.since = 0 /\ Idle.renewing = 0
  BY DEF Idle
<1> HIDE DEF E
<1>3. q1 \in Client /\ q1.pc = "tenant" /\ q1.since = Idle.since /\ q1.renewing = Idle.renewing
  BY <1>1, IdleTyped, SetPc, Zenon
<1> HIDE DEF q1
<1>4. /\ q2 \in Client /\ q2.pc = q1.pc /\ q2.token = t
      /\ q2.since = q1.since /\ q2.renewing = q1.renewing
  BY <1>3, SetToken, Zenon
<1> HIDE DEF q2
<1>5. /\ q3 \in Client /\ q3.pc = q2.pc /\ q3.token = q2.token
      /\ q3.since = q2.since /\ q3.renewing = q2.renewing
  BY <1>1, <1>4, SetActive, Zenon
<1> HIDE DEF q3
<1> QED
  BY <1>2, <1>3, <1>4, <1>5

\* The client that has both permits.
LEMMA TakeUpdate ==
  ASSUME NEW q \in Client, NEW r,
         r = [q EXCEPT !.pc = "running", !.active = {1, 2}, !.since = 0]
  PROVE  /\ r \in Client /\ r.token = q.token /\ r.pc = "running" /\ r.since = 0
         /\ r.renewing = q.renewing
<1> DEFINE E == {1, 2}
           q1 == [q EXCEPT !.pc = "running"]
           q2 == [q1 EXCEPT !.active = E]
           q3 == [q2 EXCEPT !.since = 0]
<1>1. E \in SUBSET {1, 2} /\ "running" \in ClientPcs
  BY DEF ClientPcs
<1>2. r = q3
  OBVIOUS
<1> HIDE DEF E
<1>3. q1 \in Client /\ q1.pc = "running" /\ q1.token = q.token /\ q1.renewing = q.renewing
  BY <1>1, SetPc, Zenon
<1> HIDE DEF q1
<1>4. q2 \in Client /\ q2.pc = q1.pc /\ q2.token = q1.token /\ q2.renewing = q1.renewing
  BY <1>1, <1>3, SetActive, Zenon
<1> HIDE DEF q2
<1>5. /\ q3 \in Client /\ q3.pc = q2.pc /\ q3.token = q2.token /\ q3.renewing = q2.renewing
      /\ q3.since = 0
  BY <1>4, SetSince, UpdateValues, Zenon
<1> HIDE DEF q3
<1> QED
  BY <1>2, <1>3, <1>4, <1>5

\* The client that counts a lease as lost.
LEMMA LostUpdate ==
  ASSUME NEW q \in Client, NEW lease
  PROVE  LET r == [q EXCEPT !.renewing = 0, !.lost = TRUE, !.active = @ \ {lease}]
         IN  r \in Client /\ r.token = q.token /\ r.pc = q.pc /\ r.since = q.since /\ r.renewing = 0
<1> DEFINE r == [q EXCEPT !.renewing = 0, !.lost = TRUE, !.active = @ \ {lease}]
           q1 == [q EXCEPT !.renewing = 0]
           q2 == [q1 EXCEPT !.lost = TRUE]
           E == q2.active \ {lease}
           q3 == [q2 EXCEPT !.active = E]
<1>1. r = q3
  OBVIOUS
<1> HIDE DEF r
<1>2. q1 \in Client /\ q1.pc = q.pc /\ q1.token = q.token /\ q1.renewing = 0 /\ q1.since = q.since
  BY SetRenewing, UpdateValues, Zenon
<1> HIDE DEF q1
<1>3. TRUE \in BOOLEAN
  OBVIOUS
<1>4. /\ q2 \in Client /\ q2.pc = q1.pc /\ q2.token = q1.token /\ q2.renewing = q1.renewing
      /\ q2.since = q1.since
  BY <1>2, <1>3, SetLost, Zenon
<1> HIDE DEF q2
<1>5. E \in SUBSET {1, 2}
  BY <1>4 DEF Client
<1> HIDE DEF E
<1>6. /\ q3 \in Client /\ q3.pc = q2.pc /\ q3.token = q2.token /\ q3.renewing = q2.renewing
      /\ q3.since = q2.since
  BY <1>4, <1>5, SetActive, Zenon
<1> HIDE DEF q3
<1>7. r \in Client /\ r.token = q.token /\ r.pc = q.pc /\ r.since = q.since /\ r.renewing = 0
  BY <1>1, <1>2, <1>4, <1>6
<1> QED
  BY <1>7 DEF r

\* The client whose operation ends.
LEMMA EndUpdate ==
  ASSUME NEW q \in Client, NEW r, r = [q EXCEPT !.pc = "close2", !.renewing = 0]
  PROVE  r \in Client /\ r.token = q.token /\ r.pc = "close2"
<1> DEFINE q1 == [q EXCEPT !.pc = "close2"]
           q2 == [q1 EXCEPT !.renewing = 0]
<1>1. r = q2 /\ "close2" \in ClientPcs
  BY DEF ClientPcs
<1>2. q1 \in Client /\ q1.pc = "close2" /\ q1.token = q.token
  BY <1>1, SetPc, Zenon
<1> HIDE DEF q1
<1>3. q2 \in Client /\ q2.pc = q1.pc /\ q2.token = q1.token
  BY <1>2, SetRenewing, UpdateValues, Zenon
<1> HIDE DEF q2
<1> QED
  BY <1>1, <1>2, <1>3

\* The client that has released its tenant's permit.
LEMMA ReleaseUpdate ==
  ASSUME NEW q \in Client, NEW r, r = [q EXCEPT !.pc = "close1", !.active = @ \ {2}]
  PROVE  r \in Client /\ r.token = q.token /\ r.pc = "close1"
<1> DEFINE q1 == [q EXCEPT !.pc = "close1"]
           E == q1.active \ {2}
           q2 == [q1 EXCEPT !.active = E]
<1>1. r = q2 /\ "close1" \in ClientPcs
  BY DEF ClientPcs
<1>2. q1 \in Client /\ q1.pc = "close1" /\ q1.token = q.token
  BY <1>1, SetPc, Zenon
<1> HIDE DEF q1
<1>3. E \in SUBSET {1, 2}
  BY <1>2 DEF Client
<1> HIDE DEF E
<1>4. q2 \in Client /\ q2.pc = q1.pc /\ q2.token = q1.token
  BY <1>2, <1>3, SetActive, Zenon
<1> HIDE DEF q2
<1> QED
  BY <1>1, <1>2, <1>4

\* A client takes the shared permit.
LEMMA AcquireSharedKeeps ==
  ASSUME PermitInv, NEW c \in Clients, AcquireShared(c)
  PROVE  PermitInv'
<1>1. PICK t \in Tokens :
        /\ Fresh(t)
        /\ PutEntry(Shared, t)
        /\ client' = [client EXCEPT ![c] =
                        [Idle EXCEPT !.pc = "tenant", !.token = t, !.active = {1}]]
  BY Zenon DEF AcquireShared
<1>2. PermitsTypeOK /\ CanAcquire(Shared) /\ Shared \in Keys /\ UNCHANGED mishaps /\ lapses' = lapses
  BY PermitFacts DEF PermitInv, AcquireShared
<1>r. PICK r : r = [Idle EXCEPT !.pc = "tenant", !.token = t, !.active = {1}]
  OBVIOUS
<1>3. r \in Client /\ r.token = t /\ r.pc = "tenant" /\ r.since = 0 /\ r.renewing = 0
  BY <1>r, IdleUpdate, Zenon
<1>4. client' = [client EXCEPT ![c] = r]
  BY <1>1, <1>r
<1>5. Touches(t) /\ EntriesChange
  BY <1>1, <1>2, Effects, Zenon
<1>6. mishaps' \in 0..MaxMishaps
  BY <1>2, FaultType
<1>7. ClientMoves(c, r, t)
  BY <1>1, <1>2, <1>3, <1>4, <1>5, <1>6, Zenon DEF ClientMoves
<1>8. Covered(c)'
  <2>1. client'[c] = r
    BY <1>2, <1>4 DEF PermitsTypeOK
  <2>2. entries'[Shared][t] = TTL
    BY <1>1, <1>2, Scripts, Zenon
  <2>3. Left(c, 1)' = TTL
    BY <1>3, <2>1, <2>2, PermitFacts DEF Left
  <2> QED BY <1>3, <2>1, <2>3, PermitFacts DEF Covered
<1> QED
  BY <1>7, <1>8, MoveKeeps

\* The answer to a request for the shared permit is lost.
LEMMA AcquireSharedLostKeeps ==
  ASSUME PermitInv, NEW c \in Clients, AcquireSharedLost(c)
  PROVE  PermitInv'
<1>1. PICK t \in Tokens : Fresh(t) /\ PutEntry(Shared, t)
  BY Zenon DEF AcquireSharedLost
<1>2. PermitsTypeOK /\ CanAcquire(Shared) /\ Shared \in Keys /\ Mishap /\ lapses' = lapses /\ client' = client
  BY PermitFacts DEF PermitInv, AcquireSharedLost
<1>3. client[c] \in Client /\ client[c].token \in Tokens \cup {NoToken} /\ client[c].pc = "idle"
  BY <1>2, ClientFields DEF AcquireSharedLost
<1>4. client' = [client EXCEPT ![c] = client[c]]
  BY <1>2 DEF PermitsTypeOK
<1>5. Touches(t) /\ EntriesChange
  BY <1>1, <1>2, Effects, Zenon
<1>6. mishaps' \in 0..MaxMishaps
  BY <1>2, FaultType
<1>7. ClientMoves(c, client[c], t)
  BY <1>1, <1>2, <1>3, <1>4, <1>5, <1>6, Zenon DEF ClientMoves
<1>8. Covered(c)'
  BY <1>2, <1>3, CoveredElsewhere
<1> QED
  BY <1>7, <1>8, MoveKeeps, Zenon

\* A client takes its tenant's permit and runs.
LEMMA AcquireTenantKeeps ==
  ASSUME PermitInv, NEW c \in Clients, AcquireTenant(c)
  PROVE  PermitInv'
<1> DEFINE t == client[c].token
<1>1. /\ PermitsTypeOK /\ TokensOK /\ client[c].pc = "tenant" /\ TenantOf[c] \in Keys /\ TenantOf[c] # Shared
      /\ Shared \in Keys
      /\ CanAcquire(TenantOf[c]) /\ PutEntry(TenantOf[c], t) /\ UNCHANGED mishaps /\ lapses' = lapses
  BY PermitFacts DEF PermitInv, AcquireTenant
<1>2. t \in Tokens /\ client[c] \in Client
  BY <1>1, ClientFields DEF TokensOK, Busy
<1>r. PICK r : r = [client[c] EXCEPT !.pc = "running", !.active = {1, 2}, !.since = 0]
  OBVIOUS
<1>3. /\ r \in Client /\ r.token = t /\ r.pc = "running" /\ r.since = 0
      /\ r.renewing = client[c].renewing
  BY <1>2, <1>r, TakeUpdate, Zenon
<1>4. client' = [client EXCEPT ![c] = r]
  BY <1>r DEF AcquireTenant
<1>5. Touches(t) /\ EntriesChange
  BY <1>1, <1>2, Effects, Zenon
<1>6. mishaps' \in 0..MaxMishaps
  BY <1>1, FaultType
<1>7. ClientMoves(c, r, t)
  BY <1>1, <1>2, <1>3, <1>4, <1>5, <1>6 DEF ClientMoves
<1>8. ASSUME lapses = 0 PROVE Covered(c)'
  <2>1. client'[c] = r
    BY <1>1, <1>4 DEF PermitsTypeOK
  <2>2. entries'[TenantOf[c]][t] = TTL /\ entries'[Shared][t] = entries[Shared][t]
    BY <1>1, <1>2, Scripts, Zenon
  <2>3. Covered(c)
    BY <1>8 DEF PermitInv
  <2>4. /\ client[c].renewing = 0 /\ client[c].since <= Slack /\ client[c].since \in Nat
        /\ Left(c, 1) \in 0..TTL /\ Left(c, 1) >= TTL - client[c].since
        /\ Left(c, 1) = entries[Shared][t]
    BY <1>1, <1>2, <2>3, ClientFields, LeftFields DEF Covered
  <2>5. Left(c, 1)' = Left(c, 1) /\ Left(c, 2)' = TTL
    BY <1>3, <2>1, <2>2, <2>4, PermitFacts DEF Left
  <2> QED BY <1>3, <2>1, <2>4, <2>5, PermitFacts DEF Covered
<1> QED
  BY <1>7, <1>8, MoveKeeps

\* The tenant's key is full, or the call for its permit raises.
LEMMA TenantFailsKeeps ==
  ASSUME PermitInv, NEW c \in Clients, TenantRefuses(c) \/ AcquireTenantRaises(c)
  PROVE  PermitInv'
<1> DEFINE t == client[c].token
<1>1. /\ PermitsTypeOK /\ TokensOK /\ client[c].pc = "tenant" /\ TenantOf[c] \in Keys
      /\ (CanAcquire(TenantOf[c]) /\ PutEntry(TenantOf[c], t)) \/ UNCHANGED entries
      /\ Mishap \/ UNCHANGED mishaps
      /\ lapses' = lapses
      /\ client' = [client EXCEPT ![c].pc = "undo"]
  BY PermitFacts DEF PermitInv, TenantRefuses, AcquireTenantRaises
<1>2. t \in Tokens /\ client[c] \in Client
  BY <1>1, ClientFields DEF TokensOK, Busy
<1>r. PICK r : r = [client[c] EXCEPT !.pc = "undo"]
  BY Zenon
<1>s. "undo" \in ClientPcs
  BY DEF ClientPcs
<1>3. r \in Client /\ r.token = t /\ r.pc = "undo"
  BY <1>2, <1>r, <1>s, SetPc
<1>4. client' = [client EXCEPT ![c] = r]
  BY <1>1, <1>r
<1>5. Touches(t) /\ EntriesChange
  BY <1>1, <1>2, Effects, NoEffect, Zenon
<1>6. mishaps' \in 0..MaxMishaps
  BY <1>1, FaultType
<1>7. ClientMoves(c, r, t)
  BY <1>1, <1>2, <1>3, <1>4, <1>5, <1>6, Zenon DEF ClientMoves
<1>8. Covered(c)'
  <2>1. client'[c] = r
    BY <1>1, <1>4 DEF PermitsTypeOK
  <2> QED BY <1>3, <2>1, CoveredElsewhere
<1> QED
  BY <1>7, <1>8, MoveKeeps

\* What is known of a client that runs, while nobody stalled.
LEMMA RunningFacts ==
  ASSUME PermitInv, NEW c \in Clients, client[c].pc = "running"
  PROVE  /\ PermitsTypeOK /\ client[c] \in Client /\ client[c].token \in Tokens
         /\ client[c].since \in Nat /\ client[c].since \in 0..TTL
         /\ client[c].renewing \in 0..2
         /\ lapses = 0 =>
              /\ client[c].since <= Interval + Slack
              /\ client[c].renewing # 0 => client[c].since >= Interval
              /\ Left(c, 2) \in 0..TTL /\ Left(c, 2) >= TTL - client[c].since
              /\ Left(c, 1) \in 0..TTL /\ Left(c, 1) >= TTL - Slack - client[c].since
              /\ client[c].renewing = 2 => Left(c, 1) >= TTL - (client[c].since - Interval)
              /\ Left(c, 1) > 0 /\ Left(c, 2) > 0
<1>1. PermitsTypeOK /\ TokensOK
  BY DEF PermitInv
<1>2. /\ client[c] \in Client /\ client[c].token \in Tokens
      /\ client[c].since \in Nat /\ client[c].since \in 0..TTL
      /\ client[c].renewing \in 0..2
  BY <1>1, ClientFields DEF TokensOK, Busy
<1>3. ASSUME lapses = 0
      PROVE  /\ client[c].since <= Interval + Slack
             /\ client[c].renewing # 0 => client[c].since >= Interval
             /\ Left(c, 2) \in 0..TTL /\ Left(c, 2) >= TTL - client[c].since
             /\ Left(c, 1) \in 0..TTL /\ Left(c, 1) >= TTL - Slack - client[c].since
             /\ client[c].renewing = 2 => Left(c, 1) >= TTL - (client[c].since - Interval)
  <2>1. Covered(c)
    BY <1>3 DEF PermitInv
  <2>2. Left(c, 1) \in 0..TTL /\ Left(c, 2) \in 0..TTL
    BY <1>1, <1>2, LeftFields
  <2> QED BY <2>1, <2>2 DEF Covered
<1>4. ASSUME lapses = 0 PROVE Left(c, 1) > 0 /\ Left(c, 2) > 0
  BY <1>2, <1>3, <1>4, PermitFacts
<1> QED
  BY <1>1, <1>2, <1>3, <1>4, Zenon

\* A running client stays covered when the times it has left do not shrink.
LEMMA StaysCovered ==
  ASSUME PermitInv, NEW c \in Clients, client[c].pc = "running", lapses = 0,
         client'[c].pc = "running",
         client'[c].since = client[c].since,
         Left(c, 1)' \in 0..TTL, Left(c, 2)' \in 0..TTL,
         Left(c, 1)' >= Left(c, 1), Left(c, 2)' >= Left(c, 2),
         client'[c].renewing # 0 => client[c].since >= Interval,
         client'[c].renewing = 2 => Left(c, 1)' = TTL
  PROVE  Covered(c)'
<1>1. /\ client[c].since \in Nat
      /\ client[c].since <= Interval + Slack
      /\ Left(c, 2) \in 0..TTL /\ Left(c, 2) >= TTL - client[c].since
      /\ Left(c, 1) \in 0..TTL /\ Left(c, 1) >= TTL - Slack - client[c].since
  BY RunningFacts
<1> QED
  BY <1>1, PermitFacts DEF Covered

\* The renewal loop wakes up.
LEMMA WakeUpKeeps ==
  ASSUME PermitInv, NEW c \in Clients, WakeUp(c)
  PROVE  PermitInv'
<1> DEFINE t == client[c].token
<1>1. /\ client[c].pc = "running" /\ client[c].since >= Interval
      /\ UNCHANGED entries /\ UNCHANGED mishaps /\ lapses' = lapses
      /\ client' = [client EXCEPT ![c].renewing = 1]
  BY DEF WakeUp
<1>2. PermitsTypeOK /\ t \in Tokens /\ client[c] \in Client
  BY <1>1, RunningFacts
<1>r. PICK r : r = [client[c] EXCEPT !.renewing = 1]
  BY Zenon
<1>3. /\ r \in Client /\ r.token = t /\ r.pc = client[c].pc /\ r.renewing = 1
      /\ r.since = client[c].since
  BY <1>2, <1>r, UpdateValues, SetRenewing, Zenon
<1>4. client' = [client EXCEPT ![c] = r]
  BY <1>1, <1>r
<1>5. Touches(t) /\ EntriesChange
  BY <1>1, NoEffect, Zenon
<1>6. mishaps' \in 0..MaxMishaps
  BY <1>1, <1>2, FaultType
<1>7. ClientMoves(c, r, t)
  BY <1>1, <1>2, <1>3, <1>4, <1>5, <1>6, Zenon DEF ClientMoves
<1>8. ASSUME lapses = 0 PROVE Covered(c)'
  <2>1. client'[c] = r
    BY <1>2, <1>4 DEF PermitsTypeOK
  <2>2. Left(c, 1)' = Left(c, 1) /\ Left(c, 2)' = Left(c, 2)
    BY <1>1, <1>3, <2>1 DEF Left
  <2>3. Left(c, 1) \in 0..TTL /\ Left(c, 2) \in 0..TTL
    BY <1>2, LeftFields
  <2> QED BY <1>1, <1>3, <1>8, <2>1, <2>2, <2>3, StaysCovered
<1> QED
  BY <1>7, <1>8, MoveKeeps

\* A renewal resets one of the client's entries and leaves the other.
LEMMA RenewEffect ==
  ASSUME PermitsTypeOK, NEW c \in Clients, client[c].token \in Tokens,
         NEW lease \in {1, 2}, Renew(KeyOf(c, lease), client[c].token)
  PROVE  /\ Touches(client[c].token) /\ EntriesChange
         /\ client'[c].token = client[c].token =>
              /\ Left(c, 1)' = IF lease = 1 THEN TTL ELSE Left(c, 1)
              /\ Left(c, 2)' = IF lease = 2 THEN TTL ELSE Left(c, 2)
<1> DEFINE t == client[c].token
<1>1. /\ KeyOf(c, 1) = Shared /\ KeyOf(c, 2) = TenantOf[c] /\ Shared \in Keys /\ TenantOf[c] \in Keys
      /\ TenantOf[c] # Shared
  BY PermitFacts
<1>2. KeyOf(c, lease) \in Keys
  BY <1>1
<1>3. entries[KeyOf(c, lease)][t] > 0 /\ PutEntry(KeyOf(c, lease), t)
  BY DEF Renew
<1>4. Touches(t) /\ EntriesChange
  BY <1>2, <1>3, Effects, Zenon
<1>5. /\ entries'[KeyOf(c, lease)][t] = TTL
      /\ \A j \in Keys : \A u \in Tokens :
           (j # KeyOf(c, lease) \/ u # t) => entries'[j][u] = entries[j][u]
  BY <1>2, <1>3, Scripts, Zenon
<1>6. CASE lease = 1
  <2>1. entries'[Shared][t] = TTL /\ entries'[TenantOf[c]][t] = entries[TenantOf[c]][t]
    BY <1>1, <1>5, <1>6
  <2> QED BY <1>1, <1>4, <1>6, <2>1 DEF Left
<1>7. CASE lease = 2
  <2>1. entries'[TenantOf[c]][t] = TTL /\ entries'[Shared][t] = entries[Shared][t]
    BY <1>1, <1>5, <1>7
  <2> QED BY <1>1, <1>4, <1>7, <2>1 DEF Left
<1> QED
  BY <1>6, <1>7

\* A lease is renewed.
LEMMA RenewedKeeps ==
  ASSUME PermitInv, NEW c \in Clients, Renewed(c)
  PROVE  PermitInv'
<1> DEFINE t == client[c].token
           lease == client[c].renewing
           w == IF lease = 1 THEN 2 ELSE 0
           s == IF lease = 1 THEN client[c].since ELSE 0
<1>1. /\ client[c].pc = "running" /\ lease # 0 /\ Renew(KeyOf(c, lease), t)
      /\ UNCHANGED mishaps /\ lapses' = lapses
      /\ client' = [client EXCEPT ![c] = [client[c] EXCEPT !.renewing = w, !.since = s]]
  BY DEF Renewed
<1>2. /\ PermitsTypeOK /\ t \in Tokens /\ client[c] \in Client /\ lease \in {1, 2}
      /\ w \in 0..2 /\ s \in 0..TTL
  BY <1>1, RunningFacts, UpdateValues
<1>r. PICK r : r = [client[c] EXCEPT !.renewing = w, !.since = s]
  OBVIOUS
<1>4. client' = [client EXCEPT ![c] = r]
  BY <1>1, <1>r, Zenon
<1>w. /\ lease = 1 => w = 2 /\ s = client[c].since
      /\ lease = 2 => w = 0 /\ s = 0
  OBVIOUS
<1> HIDE DEF w, s
<1>3. r \in Client /\ r.token = t /\ r.pc = client[c].pc /\ r.renewing = w /\ r.since = s
  <2> DEFINE q1 == [client[c] EXCEPT !.renewing = w]
             q2 == [q1 EXCEPT !.since = s]
  <2>1. client[c] \in Client /\ w \in 0..2 /\ s \in 0..TTL /\ r = q2
    BY <1>2, <1>r
  <2>2. q1 \in Client /\ q1.pc = client[c].pc /\ q1.token = client[c].token /\ q1.renewing = w
    BY <2>1, SetRenewing, Zenon
  <2> HIDE DEF q1
  <2>3. /\ q2 \in Client /\ q2.pc = q1.pc /\ q2.token = q1.token /\ q2.renewing = q1.renewing
        /\ q2.since = s
    BY <2>1, <2>2, SetSince, Zenon
  <2> HIDE DEF q2
  <2> QED BY <2>1, <2>2, <2>3
<1>c. client'[c] = r
  BY <1>2, <1>4 DEF PermitsTypeOK
<1> HIDE DEF lease
<1>5. /\ Touches(t) /\ EntriesChange
      /\ Left(c, 1)' = IF lease = 1 THEN TTL ELSE Left(c, 1)
      /\ Left(c, 2)' = IF lease = 2 THEN TTL ELSE Left(c, 2)
  BY <1>1, <1>2, <1>3, <1>c, RenewEffect
<1>6. mishaps' \in 0..MaxMishaps
  BY <1>1, <1>2, FaultType
<1>7. ClientMoves(c, r, t)
  BY <1>1, <1>2, <1>3, <1>4, <1>5, <1>6, Zenon DEF ClientMoves
<1>8. ASSUME lapses = 0 PROVE Covered(c)'
  <2>1. Left(c, 1) \in 0..TTL /\ Left(c, 2) \in 0..TTL /\ TTL \in Nat
    BY <1>2, LeftFields, PermitFacts
  <2>2. CASE lease = 1
    <3>1. Left(c, 1)' = TTL /\ Left(c, 2)' = Left(c, 2) /\ client[c].since >= Interval
      BY <1>1, <1>5, <1>8, <2>2, RunningFacts DEF lease
    <3> QED BY <1>1, <1>3, <1>8, <1>w, <1>c, <2>1, <2>2, <3>1, StaysCovered
  <2>3. CASE lease = 2
    <3>1. Left(c, 1)' = Left(c, 1) /\ Left(c, 2)' = TTL
      BY <1>5, <2>3
    <3>2. /\ client[c].since \in Nat /\ client[c].since <= Interval + Slack
          /\ Left(c, 1) >= TTL - (client[c].since - Interval)
      BY <1>1, <1>8, <2>3, RunningFacts DEF lease
    <3>3. Left(c, 1)' >= TTL - Slack
      BY <2>1, <3>1, <3>2, PermitFacts
    <3> QED BY <1>1, <1>3, <1>w, <1>c, <2>1, <2>3, <3>1, <3>3, PermitFacts DEF Covered
  <2> QED BY <1>2, <2>2, <2>3
<1> QED
  BY <1>7, <1>8, MoveKeeps, Zenon

\* A renewal fails: the entry is gone, or the call raises.
LEMMA RenewalFailsKeeps ==
  ASSUME PermitInv, NEW c \in Clients, LeaseLost(c) \/ RenewalRaises(c)
  PROVE  PermitInv'
<1> DEFINE t == client[c].token
           lease == client[c].renewing
<1>1. /\ client[c].pc = "running" /\ lease # 0
      /\ Renew(KeyOf(c, lease), t) \/ UNCHANGED entries
      /\ Mishap \/ UNCHANGED mishaps
      /\ lapses' = lapses
      /\ client' = [client EXCEPT ![c] =
           [client[c] EXCEPT !.renewing = 0, !.lost = TRUE, !.active = @ \ {lease}]]
  BY DEF LeaseLost, RenewalRaises
<1>2. PermitsTypeOK /\ t \in Tokens /\ client[c] \in Client /\ lease \in {1, 2}
  BY <1>1, RunningFacts
<1>r. PICK r : r = [client[c] EXCEPT !.renewing = 0, !.lost = TRUE, !.active = @ \ {lease}]
  OBVIOUS
<1>4. client' = [client EXCEPT ![c] = r]
  BY <1>1, <1>r, Zenon
<1> HIDE DEF lease
<1>u. LET q == [client[c] EXCEPT !.renewing = 0, !.lost = TRUE, !.active = @ \ {lease}]
      IN  /\ q \in Client /\ q.token = client[c].token /\ q.pc = client[c].pc
          /\ q.since = client[c].since /\ q.renewing = 0
  BY <1>2, LostUpdate, Zenon
<1>3. r \in Client /\ r.token = t /\ r.pc = client[c].pc /\ r.renewing = 0 /\ r.since = client[c].since
  BY <1>r, <1>u, Zenon
<1>c. client'[c] = r
  BY <1>2, <1>4 DEF PermitsTypeOK
<1>5. Touches(t) /\ EntriesChange
  <2>1. CASE Renew(KeyOf(c, lease), t)
    BY <1>2, <2>1, RenewEffect, Zenon
  <2>2. CASE UNCHANGED entries
    BY <2>2, NoEffect, Zenon
  <2> QED BY <1>1, <2>1, <2>2
<1>6. mishaps' \in 0..MaxMishaps
  BY <1>1, <1>2, FaultType
<1>7. ClientMoves(c, r, t)
  BY <1>1, <1>2, <1>3, <1>4, <1>5, <1>6, Zenon DEF ClientMoves
<1>8. ASSUME lapses = 0 PROVE Covered(c)'
  <2>1. Left(c, 1) \in 0..TTL /\ Left(c, 2) \in 0..TTL /\ TTL \in Nat
    BY <1>2, LeftFields, PermitFacts
  <2>2. CASE Renew(KeyOf(c, lease), t)
    <3>1. /\ Left(c, 1)' = IF lease = 1 THEN TTL ELSE Left(c, 1)
          /\ Left(c, 2)' = IF lease = 2 THEN TTL ELSE Left(c, 2)
      BY <1>2, <1>3, <1>c, <2>2, RenewEffect
    <3>2. /\ Left(c, 1)' >= Left(c, 1) /\ Left(c, 2)' >= Left(c, 2)
          /\ Left(c, 1)' \in 0..TTL /\ Left(c, 2)' \in 0..TTL
      BY <2>1, <3>1
    <3> QED BY <1>1, <1>3, <1>8, <1>c, <3>2, StaysCovered
  <2>3. CASE UNCHANGED entries
    <3>1. Left(c, 1)' = Left(c, 1) /\ Left(c, 2)' = Left(c, 2)
      BY <1>3, <1>c, <2>3 DEF Left
    <3> QED BY <1>1, <1>3, <1>8, <1>c, <2>1, <3>1, StaysCovered
  <2> QED BY <1>1, <2>2, <2>3
<1> QED
  BY <1>7, <1>8, MoveKeeps, Zenon

\* The operation ends.
LEMMA OperationEndsKeeps ==
  ASSUME PermitInv, NEW c \in Clients, OperationEnds(c)
  PROVE  PermitInv'
<1> DEFINE t == client[c].token
<1>1. /\ client[c].pc = "running" /\ UNCHANGED entries /\ UNCHANGED mishaps /\ lapses' = lapses
      /\ client' = [client EXCEPT ![c] = [client[c] EXCEPT !.pc = "close2", !.renewing = 0]]
  BY DEF OperationEnds
<1>2. PermitsTypeOK /\ t \in Tokens /\ client[c] \in Client
  BY <1>1, RunningFacts
<1>r. PICK r : r = [client[c] EXCEPT !.pc = "close2", !.renewing = 0]
  BY Zenon
<1>3. r \in Client /\ r.token = t /\ r.pc = "close2"
  BY <1>2, <1>r, EndUpdate, Zenon
<1>4. client' = [client EXCEPT ![c] = r]
  BY <1>1, <1>r, Zenon
<1>5. Touches(t) /\ EntriesChange
  BY <1>1, NoEffect, Zenon
<1>6. mishaps' \in 0..MaxMishaps
  BY <1>1, <1>2, FaultType
<1>7. ClientMoves(c, r, t)
  BY <1>1, <1>2, <1>3, <1>4, <1>5, <1>6, Zenon DEF ClientMoves
<1>8. Covered(c)'
  <2>1. client'[c] = r
    BY <1>2, <1>4 DEF PermitsTypeOK
  <2> QED BY <1>3, <2>1, CoveredElsewhere
<1> QED
  BY <1>7, <1>8, MoveKeeps, Zenon

\* A client gives up one of its permits, or forgets everything.
LEMMA ReleasesKeep ==
  ASSUME PermitInv, NEW c \in Clients, ReleaseLease(c) \/ ReleaseRaises(c) \/ Crash(c)
  PROVE  PermitInv'
<1> DEFINE t == client[c].token
           k == KeyOf(c, Releasing(c))
<1>1. /\ client[c].pc # "idle"
      /\ Drop(k, t) \/ UNCHANGED entries
      /\ Mishap \/ UNCHANGED mishaps
      /\ lapses' = lapses
      /\ Released(c) \/ client' = [client EXCEPT ![c] = Idle]
  BY DEF ReleaseLease, ReleaseRaises, Crash, Busy
<1>2. PermitsTypeOK /\ t \in Tokens /\ client[c] \in Client
  BY <1>1, ClientFields DEF PermitInv, TokensOK, Busy
<1>3. k \in Keys
  BY PermitFacts DEF Releasing
<1>r. PICK r : /\ client' = [client EXCEPT ![c] = r]
               /\ r = Idle \/ r = [client[c] EXCEPT !.pc = "close1", !.active = @ \ {2}]
  BY <1>1, Zenon DEF Released
<1> HIDE DEF k
<1>4. r \in Client /\ r.pc \in {"idle", "close1"} /\ (r.pc # "idle" => r.token = t) /\ r.token \in {t, NoToken}
  <2>1. CASE r = Idle
    <3>1. Idle.pc = "idle" /\ Idle.token = NoToken
      BY DEF Idle
    <3> QED BY <2>1, <3>1, IdleTyped, Zenon
  <2>2. CASE r = [client[c] EXCEPT !.pc = "close1", !.active = @ \ {2}]
    <3>1. r \in Client /\ r.token = t /\ r.pc = "close1"
      BY <1>2, <2>2, ReleaseUpdate, Zenon
    <3> QED BY <3>1
  <2> QED BY <1>r, <2>1, <2>2
<1>5. Touches(t) /\ EntriesChange
  BY <1>1, <1>2, <1>3, Effects, NoEffect, Zenon
<1>6. mishaps' \in 0..MaxMishaps
  BY <1>1, <1>2, FaultType
<1>7. ClientMoves(c, r, t)
  BY <1>1, <1>2, <1>r, <1>4, <1>5, <1>6, Zenon DEF ClientMoves
<1>8. Covered(c)'
  <2>1. client'[c] = r
    BY <1>2, <1>r DEF PermitsTypeOK
  <2> QED BY <1>4, <2>1, CoveredElsewhere
<1> QED
  BY <1>7, <1>8, MoveKeeps, Zenon

\* Time passes for a client: its clock runs while it acquires or runs.
LEMMA ClientTime ==
  ASSUME PermitsTypeOK, TickClients, NEW c \in Clients
  PROVE  /\ client'[c] \in Client
         /\ client'[c].pc = client[c].pc /\ client'[c].token = client[c].token
         /\ client'[c].renewing = client[c].renewing
         /\ client'[c].since \in Nat /\ client'[c].since >= client[c].since
         /\ (client[c].pc \in {"tenant", "running"} /\ client[c].since < TTL) =>
              client'[c].since = client[c].since + 1
<1>1. client[c] \in Client /\ client[c].since \in 0..TTL /\ client[c].since \in Nat
  BY ClientFields
<1>2. CASE client[c].pc \in {"tenant", "running"} /\ client[c].since < TTL
  <2> DEFINE s == client[c].since + 1
  <2>1. s \in 0..TTL /\ s \in Nat /\ s >= client[c].since
    BY <1>1, <1>2, PermitFacts
  <2>2. client'[c] = [client[c] EXCEPT !.since = s]
    BY <1>2 DEF TickClients
  <2> HIDE DEF s
  <2>3. LET q == [client[c] EXCEPT !.since = s]
        IN  q \in Client /\ q.pc = client[c].pc /\ q.token = client[c].token
            /\ q.renewing = client[c].renewing /\ q.since = s
    BY <1>1, <2>1, SetSince, Zenon
  <2>4. /\ client'[c] \in Client /\ client'[c].pc = client[c].pc /\ client'[c].token = client[c].token
        /\ client'[c].renewing = client[c].renewing /\ client'[c].since = s
    BY <2>2, <2>3, Zenon
  <2> QED BY <2>1, <2>4 DEF s
<1>3. CASE ~(client[c].pc \in {"tenant", "running"} /\ client[c].since < TTL)
  <2>1. client'[c] = client[c]
    BY <1>3 DEF TickClients
  <2> QED BY <1>1, <1>3, <2>1
<1> QED
  BY <1>2, <1>3

\* Time passes: the types, the limits and the tokens are kept.
LEMMA TimeKeeps ==
  ASSUME PermitInv, Passes, TickClients, UNCHANGED mishaps, lapses' \in 0..MaxLapses
  PROVE  PermitsTypeOK' /\ CapacityOK' /\ TokensOK'
<1>1. PermitsTypeOK /\ CapacityOK /\ TokensOK
  BY DEF PermitInv
<1>2. ASSUME NEW c \in Clients
      PROVE  client'[c] \in Client /\ client'[c].pc = client[c].pc /\ client'[c].token = client[c].token
  BY <1>1, ClientTime, Zenon
<1>3. client' \in [Clients -> Client]
  BY <1>2 DEF TickClients
<1>4. EntriesChange
  BY Zenon DEF EntriesChange
<1>5. PermitsTypeOK' /\ CapacityOK'
  BY <1>1, <1>3, <1>4, CapacityKept DEF PermitsTypeOK
<1>6. TokensOK'
  BY <1>1, <1>2 DEF TokensOK, Busy
<1> QED
  BY <1>5, <1>6

\* A client that is not late stays covered for one more tick.
LEMMA TickCovered ==
  ASSUME PermitInv, TimePasses, lapses = 0, NEW c \in Clients
  PROVE  Covered(c)'
<1>1. PermitsTypeOK /\ TokensOK /\ Covered(c) /\ Passes /\ TickClients /\ ~Late(c)
  BY Zenon DEF PermitInv, TimePasses, Passes
<1>2. /\ client'[c].pc = client[c].pc /\ client'[c].token = client[c].token
      /\ client'[c].renewing = client[c].renewing
      /\ client[c].since \in Nat
      /\ (client[c].pc \in {"tenant", "running"} /\ client[c].since < TTL) =>
           client'[c].since = client[c].since + 1
  BY <1>1, ClientTime, ClientFields
<1>3. ASSUME Busy(c)
      PROVE  /\ Left(c, 1) \in Nat /\ Left(c, 2) \in Nat
             /\ Left(c, 1)' \in Nat /\ Left(c, 2)' \in Nat
             /\ Left(c, 1)' >= Left(c, 1) - 1 /\ Left(c, 2)' >= Left(c, 2) - 1
  <2>1. client[c].token \in Tokens
    BY <1>1, <1>3 DEF TokensOK
  <2>2. /\ KeyOf(c, 1) \in Keys /\ KeyOf(c, 2) \in Keys
    BY PermitFacts
  <2>3. /\ entries' \in [Keys -> [Tokens -> 0..TTL]] /\ entries \in [Keys -> [Tokens -> 0..TTL]]
        /\ \A k \in Keys : \A t \in Tokens : entries'[k][t] >= entries[k][t] - 1
    BY <1>1, PassingTime DEF PermitsTypeOK
  <2> QED BY <1>2, <2>1, <2>2, <2>3, PermitFacts DEF Left
<1>4. CASE client[c].pc = "tenant"
  <2>1. client[c].since < Slack /\ client'[c].since = client[c].since + 1
    BY <1>1, <1>2, <1>4, PermitFacts DEF Late
  <2>2. /\ Left(c, 1) \in Nat /\ Left(c, 1)' \in Nat /\ Left(c, 1)' >= Left(c, 1) - 1
        /\ Left(c, 1) >= TTL - client[c].since /\ client[c].renewing = 0
    BY <1>1, <1>3, <1>4 DEF Busy, Covered
  <2> QED BY <1>2, <1>4, <2>1, <2>2, PermitFacts DEF Covered
<1>5. CASE client[c].pc = "running"
  <2>1. client[c].since < Interval + Slack /\ client'[c].since = client[c].since + 1
    BY <1>1, <1>2, <1>5, PermitFacts DEF Late
  <2>2. /\ Left(c, 1) \in Nat /\ Left(c, 1)' \in Nat /\ Left(c, 1)' >= Left(c, 1) - 1
        /\ Left(c, 2) \in Nat /\ Left(c, 2)' \in Nat /\ Left(c, 2)' >= Left(c, 2) - 1
        /\ client[c].renewing # 0 => client[c].since >= Interval
        /\ Left(c, 2) >= TTL - client[c].since
        /\ Left(c, 1) >= TTL - Slack - client[c].since
        /\ client[c].renewing = 2 => Left(c, 1) >= TTL - (client[c].since - Interval)
    BY <1>1, <1>3, <1>5 DEF Busy, Covered
  <2> QED BY <1>2, <1>5, <2>1, <2>2, PermitFacts DEF Covered
<1>6. CASE client[c].pc \notin {"tenant", "running"}
  BY <1>2, <1>6, CoveredElsewhere
<1> QED
  BY <1>4, <1>5, <1>6

\* A tick without a late client.
LEMMA TickKeeps ==
  ASSUME PermitInv, TimePasses
  PROVE  PermitInv'
<1>1. Passes /\ TickClients /\ UNCHANGED mishaps /\ lapses' = lapses
  BY DEF TimePasses, Passes
<1>2. lapses' \in 0..MaxLapses
  BY <1>1 DEF PermitInv, PermitsTypeOK
<1>3. PermitsTypeOK' /\ CapacityOK' /\ TokensOK'
  BY <1>1, <1>2, TimeKeeps
<1>4. ASSUME lapses' = 0 PROVE \A c \in Clients : Covered(c)'
  BY <1>1, <1>4, TickCovered
<1> QED
  BY <1>3, <1>4, Zenon DEF PermitInv

\* A stall, and the loss of the data: both are lapses.
LEMMA LapsesKeep ==
  ASSUME PermitInv, Stall \/ Wipe
  PROVE  PermitInv'
<1>1. /\ PermitsTypeOK /\ CapacityOK /\ TokensOK
      /\ lapses' = lapses + 1 /\ lapses < MaxLapses /\ lapses \in 0..MaxLapses /\ UNCHANGED mishaps
  BY DEF PermitInv, Stall, Wipe, PermitsTypeOK
<1>2. lapses' \in 0..MaxLapses /\ lapses' # 0
  BY <1>1, PermitsAssumption
<1>3. CASE Stall
  <2>1. Passes /\ TickClients
    BY <1>3 DEF Stall, Passes
  <2> QED BY <1>1, <1>2, <2>1, TimeKeeps, Zenon DEF PermitInv
<1>4. CASE Wipe
  <2>1. client' = client /\ EntriesChange
    BY <1>4, Zenon DEF Wipe, EntriesChange
  <2>2. entries' \in [Keys -> [Tokens -> 0..TTL]] /\ CapacityOK'
    BY <1>1, <2>1, CapacityKept, Zenon
  <2>3. PermitsTypeOK'
    BY <1>1, <1>2, <2>1, <2>2 DEF PermitsTypeOK
  <2>4. TokensOK'
    BY <1>1, <2>1, Zenon DEF TokensOK, Busy
  <2> QED BY <1>2, <2>2, <2>3, <2>4, Zenon DEF PermitInv
<1> QED
  BY <1>3, <1>4

\* At the start nothing is held.
LEMMA InitPermits == PermitsInit => PermitInv
<1> SUFFICES ASSUME PermitsInit PROVE PermitInv
  OBVIOUS
<1>1. client = [c \in Clients |-> Idle] /\ entries = [k \in Keys |-> [t \in Tokens |-> 0]]
  BY DEF PermitsInit
<1>2. PermitsTypeOK
  BY <1>1, IdleTyped, PermitFacts, PermitsAssumption DEF PermitsTypeOK, PermitsInit
<1>3. ASSUME NEW c \in Clients PROVE client[c].pc = "idle" /\ client[c].token = NoToken
  BY <1>1 DEF Idle
<1>4. CapacityOK
  <2>1. ASSUME NEW k \in Keys PROVE Cardinality(Live(k)) <= LimitOf(k)
    <3>1. Live(k) = {}
      BY <1>1 DEF Live
    <3>2. Cardinality(Live(k)) = 0
      BY <3>1, FS_EmptySet, Zenon
    <3>3. LimitOf(k) \in Nat
      BY PermitFacts
    <3> QED BY <3>2, <3>3
  <2> QED BY <2>1, Zenon DEF CapacityOK
<1>5. TokensOK
  BY <1>3, Zenon DEF TokensOK, Busy
<1>6. ASSUME NEW c \in Clients PROVE Covered(c)
  BY <1>3 DEF Covered
<1> QED
  BY <1>2, <1>4, <1>5, <1>6, Zenon DEF PermitInv

\* Every step keeps the invariant.
LEMMA NextPermits ==
  ASSUME PermitInv, [PermitsNext]_permitVars
  PROVE  PermitInv'
<1>1. ASSUME NEW c \in Clients,
             \/ AcquireShared(c) \/ AcquireSharedLost(c)
             \/ AcquireTenant(c) \/ TenantRefuses(c) \/ AcquireTenantRaises(c)
             \/ WakeUp(c) \/ Renewed(c) \/ LeaseLost(c) \/ RenewalRaises(c)
             \/ OperationEnds(c)
             \/ ReleaseLease(c) \/ ReleaseRaises(c)
             \/ Crash(c)
      PROVE  PermitInv'
  BY <1>1, AcquireSharedKeeps, AcquireSharedLostKeeps, AcquireTenantKeeps, TenantFailsKeeps,
     WakeUpKeeps, RenewedKeeps, RenewalFailsKeeps, OperationEndsKeeps, ReleasesKeep, Zenon
<1>2. CASE UNCHANGED permitVars
  BY <1>2 DEF permitVars, PermitInv, PermitsTypeOK, CapacityOK, TokensOK, Covered, Left, Live, Busy
<1> QED
  BY <1>1, <1>2, TickKeeps, LapsesKeep, Zenon DEF PermitsNext

\* The invariant of the permits: no key has more live entries than its limit, every
\* busy client has a token of its own, and as long as nobody stalled the entries of
\* a client outlive the next renewal that it owes (concurrency.py, the Lua scripts
\* and RedisLeaseGuard).
THEOREM PermitsInvariant == PermitsSpec => []PermitInv
<1>1. PermitInv /\ [PermitsNext]_permitVars => PermitInv'
  BY NextPermits
<1> QED
  BY InitPermits, <1>1, PTL DEF PermitsSpec

\* The variables of the permits keep their types.
THEOREM PermitsTyped == PermitsSpec => []PermitsTypeOK
<1>1. PermitInv => PermitsTypeOK
  BY DEF PermitInv
<1> QED
  BY PermitsInvariant, <1>1, PTL

\* While nobody stalled, every running client has a live entry of its own in both keys,
\* so that no key has more running clients than live entries.
LEMMA RunningFewerThanLive ==
  ASSUME PermitInv, lapses = 0, NEW k \in Keys
  PROVE  Cardinality(Running(k)) <= Cardinality(Live(k))
<1> DEFINE f == [c \in Running(k) |-> client[c].token]
<1>1. IsFiniteSet(Live(k))
  BY FS_Subset, PermitsAssumption DEF Live
<1>2. ASSUME NEW c \in Running(k) PROVE c \in Clients /\ client[c].token \in Live(k) /\ client[c].token # NoToken
  <2>1. c \in Clients /\ client[c].pc = "running" /\ k \in {Shared, TenantOf[c]}
    BY <1>2 DEF Running
  <2>2. client[c].token \in Tokens /\ Left(c, 1) > 0 /\ Left(c, 2) > 0
    BY <2>1, RunningFacts
  <2>3. entries[Shared][client[c].token] > 0 /\ entries[TenantOf[c]][client[c].token] > 0
    BY <2>1, <2>2, PermitFacts DEF Left
  <2> QED BY <2>1, <2>2, <2>3, PermitFacts DEF Live
<1>3. f \in Injection(Running(k), Live(k))
  <2>1. f \in [Running(k) -> Live(k)]
    BY <1>2
  <2>2. ASSUME NEW c \in Running(k), NEW d \in Running(k), f[c] = f[d] PROVE c = d
    BY <1>2, <2>2 DEF PermitInv, TokensOK
  <2> QED BY <2>1, <2>2 DEF Injection, IsInjective
<1> QED
  BY <1>1, <1>3, FS_Injection DEF ExistsInjection

\* The limits are kept, for any number of clients and tenants, as long as no client
\* stalls and Redis keeps its data, whatever answers are lost and whoever dies
\* (RedisLeaseSemaphore and RedisLeaseGuard).
THEOREM LimitKeptHolds == PermitsSpec => []LimitKept
<1>1. PermitInv => LimitKept
  <2> SUFFICES ASSUME PermitInv, lapses = 0, NEW k \in Keys
               PROVE  Cardinality(Running(k)) <= LimitOf(k)
    BY Zenon DEF LimitKept, WithinLimit
  <2>1. Cardinality(Running(k)) <= Cardinality(Live(k))
    BY RunningFewerThanLive
  <2>2. Cardinality(Live(k)) <= LimitOf(k)
    BY DEF PermitInv, CapacityOK
  <2>3. Running(k) \subseteq Clients /\ Live(k) \subseteq Tokens
    BY DEF Running, Live
  <2>4. Cardinality(Running(k)) \in Nat /\ Cardinality(Live(k)) \in Nat
    BY <2>3, FS_Subset, FS_CardinalityType, PermitsAssumption
  <2> QED BY <2>1, <2>2, <2>4, PermitFacts
<1> QED
  BY PermitsInvariant, <1>1, PTL

=============================================================================
