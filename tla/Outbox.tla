------------------------------- MODULE Outbox -------------------------------
(***************************************************************************)
(* The transactional outbox: relays that claim rows, publish them to the   *)
(* broker and mark them (app/outbox/relay.py, app/outbox/repository.py),   *)
(* and the consumers that turn a delivery into work (the _handle functions *)
(* of scripts/chat_consumer.py and scripts/generation_consumer.py).        *)
(*                                                                         *)
(* claim, mark_published and mark_retry are a transaction each; the broker *)
(* call between them holds no transaction, so each is an action.           *)
(*                                                                         *)
(* Abstractions: a claim raises attempts and draws a fresh lease token, so *)
(* the attempt number serves as the token (0: no lease); available_at and  *)
(* lease_expires_at are the flag "due" (both are in the past), raised by   *)
(* the passing of time; the copy of event e that attempt n hands to the    *)
(* broker is <<e, n>>.  The job or chat request behind an event is one of  *)
(* waiting (accepted, queued), busy (leased by a consumer) or over; what a *)
(* worker does while it is busy is the subject of other modules.           *)
(***************************************************************************)
EXTENDS Integers, FiniteSets

CONSTANTS
  Events,         \* outbox rows, one per accepted job or chat request
  Relays,         \* FencedOutboxRelay processes
  Consumers,      \* queue consumers
  NoEvent,        \* a process that handles no event
  MaxAttempts,    \* RetryPolicy.max_attempts
  BatchSize,      \* rows a relay claims at a time
  DeliveryLimit,  \* redeliveries of one message before the broker dead-letters it
  MaxFaults       \* bound: crashes of relays and consumers

ASSUME OutboxConstants ==
  /\ IsFiniteSet(Events) /\ NoEvent \notin Events
  /\ MaxAttempts \in Nat \ {0} /\ BatchSize \in Nat \ {0}
  /\ DeliveryLimit \in Nat /\ MaxFaults \in Nat

VARIABLES
  row,       \* outbox_events
  relay,     \* per relay: next step, current event, claimed tokens
  msg,       \* the broker: one entry per copy
  consumer,  \* per consumer: next step, the copy it holds
  work,      \* the job or request behind each event
  crashes    \* faults so far

outboxVars == <<row, relay, msg, consumer, work, crashes>>

Copies == Events \X (1 .. MaxAttempts)

OutboxRow == [status : {"none", "pending", "published", "failed"},
              attempts : Nat, token : Nat, due : BOOLEAN]

NoOutboxRow == [status |-> "none", attempts |-> 0, token |-> 0, due |-> FALSE]

RelayState == [pc : {"idle", "publish", "markPublished", "markRetry"},
               event : Events \cup {NoEvent}, held : [Events -> Nat]]

IdleRelay == [pc |-> "idle", event |-> NoEvent, held |-> [e \in Events |-> 0]]

ConsumerState == [pc : {"idle", "lookup", "claim", "execute"},
                  event : Events \cup {NoEvent}, copy : Nat]

IdleConsumer == [pc |-> "idle", event |-> NoEvent, copy |-> 0]

OutboxInit ==
  /\ row = [e \in Events |-> NoOutboxRow]
  /\ relay = [p \in Relays |-> IdleRelay]
  /\ msg = [m \in Copies |-> [state |-> "none", tries |-> 0]]
  /\ consumer = [c \in Consumers |-> IdleConsumer]
  /\ work = [e \in Events |-> "none"]
  /\ crashes = 0

-----------------------------------------------------------------------------
(* The API and the relays. *)

\* The acceptance transaction writes the business rows and the outbox row.
Commit(e) ==
  /\ row[e].status = "none"
  /\ row' = [row EXCEPT ![e] = [@ EXCEPT !.status = "pending", !.due = TRUE]]
  /\ work' = [work EXCEPT ![e] = "waiting"]
  /\ UNCHANGED <<relay, msg, consumer, crashes>>

Due(e) == row[e].status = "pending" /\ row[e].due

\* Mutant: rows whose last lease lapsed are left alone.
ExhaustedNever == {}

Exhausted == {e \in Events : Due(e) /\ row[e].attempts >= MaxAttempts}

Claimable == {e \in Events : Due(e) /\ row[e].attempts < MaxAttempts}

ClaimedRow(r) == [r EXCEPT !.attempts = r.attempts + 1, !.token = r.attempts + 1, !.due = FALSE]

ExpiredRow(r) == [r EXCEPT !.status = "failed", !.token = 0]

\* claim: fails the exhausted rows and leases some of the others (rows that
\* another relay has locked are skipped).
ClaimBatch(p) ==
  /\ relay[p].pc = "idle"
  /\ \E batch \in SUBSET Claimable :
       /\ Cardinality(batch) <= BatchSize
       /\ batch # {} \/ Exhausted # {}
       /\ row' = [e \in Events |-> IF e \in batch THEN ClaimedRow(row[e])
                                   ELSE IF e \in Exhausted THEN ExpiredRow(row[e])
                                   ELSE row[e]]
       /\ relay' = [relay EXCEPT ![p] =
            [pc |-> IF batch = {} THEN "idle" ELSE "publish",
             event |-> IF batch = {} THEN NoEvent ELSE CHOOSE e \in batch : TRUE,
             held |-> [e \in Events |-> IF e \in batch THEN row[e].attempts + 1 ELSE 0]]]
  /\ UNCHANGED <<msg, consumer, work, crashes>>

Enqueue(e, n) == msg' = [msg EXCEPT ![<<e, n>>] = [state |-> "ready", tries |-> 0]]

\* The broker confirms the message.
PublishConfirmed(p) ==
  /\ relay[p].pc = "publish"
  /\ Enqueue(relay[p].event, relay[p].held[relay[p].event])
  /\ relay' = [relay EXCEPT ![p].pc = "markPublished"]
  /\ UNCHANGED <<row, consumer, work, crashes>>

\* The broker is unreachable, or the confirmation does not arrive in time
\* although the message did.
PublishRaises(p) ==
  /\ relay[p].pc = "publish"
  /\ \/ Enqueue(relay[p].event, relay[p].held[relay[p].event])
     \/ UNCHANGED msg
  /\ relay' = [relay EXCEPT ![p].pc = "markRetry"]
  /\ UNCHANGED <<row, consumer, work, crashes>>

\* The relay goes on with the next event of its batch.
NextEvent(p) ==
  LET rest == [relay[p].held EXCEPT ![relay[p].event] = 0]
      left == {e \in Events : rest[e] # 0}
  IN relay' = [relay EXCEPT ![p] =
       IF left = {} THEN IdleRelay
       ELSE [pc |-> "publish", event |-> CHOOSE e \in left : TRUE, held |-> rest]]

\* Mutant: the marks do not compare the lease token.
HoldsLeaseByStatus(p) == row[relay[p].event].status = "pending"

\* The predicate of both marks: pending, and leased under this relay's token.
HoldsLease(p) ==
  LET e == relay[p].event IN
  /\ row[e].status = "pending"
  /\ row[e].token = relay[p].held[e]

MarkPublished(p) ==
  /\ relay[p].pc = "markPublished"
  /\ IF HoldsLease(p)
       THEN row' = [row EXCEPT ![relay[p].event] =
                      [@ EXCEPT !.status = "published", !.token = 0]]
       ELSE UNCHANGED row
  /\ NextEvent(p)
  /\ UNCHANGED <<msg, consumer, work, crashes>>

\* mark_retry: a later attempt, or failed after the last one, or at once when the
\* error is not retryable (a ValueError of the envelope or the routing).
MarkRetry(p) ==
  /\ relay[p].pc = "markRetry"
  /\ IF HoldsLease(p)
       THEN \E retryable \in BOOLEAN : row' = [row EXCEPT ![relay[p].event] =
              [@ EXCEPT !.status = IF retryable /\ row[relay[p].event].attempts < MaxAttempts
                                     THEN "pending" ELSE "failed",
                        !.token = 0, !.due = FALSE]]
       ELSE UNCHANGED row
  /\ NextEvent(p)
  /\ UNCHANGED <<msg, consumer, work, crashes>>

\* available_at, and with it the lease, is in the past.
BecomesDue(e) ==
  /\ row[e].status = "pending"
  /\ ~row[e].due
  /\ row' = [row EXCEPT ![e].due = TRUE]
  /\ UNCHANGED <<relay, msg, consumer, work, crashes>>

RelayCrash(p) ==
  /\ crashes < MaxFaults
  /\ relay[p].pc # "idle"
  /\ relay' = [relay EXCEPT ![p] = IdleRelay]
  /\ crashes' = crashes + 1
  /\ UNCHANGED <<row, msg, consumer, work>>

RelayStep(p) ==
  \/ ClaimBatch(p) \/ PublishConfirmed(p) \/ PublishRaises(p)
  \/ MarkPublished(p) \/ MarkRetry(p)

-----------------------------------------------------------------------------
(* The broker and the consumers. *)

Held(c) == <<consumer[c].event, consumer[c].copy>>

\* Delivery of a message; a consumer holds one at a time (prefetch_count=1).
Deliver(c, m) ==
  /\ consumer[c].pc = "idle"
  /\ msg[m].state = "ready"
  /\ msg' = [msg EXCEPT ![m].state = "unacked"]
  /\ consumer' = [consumer EXCEPT ![c] = [pc |-> "lookup", event |-> m[1], copy |-> m[2]]]
  /\ UNCHANGED <<row, relay, work, crashes>>

Ack(c) ==
  /\ msg' = [msg EXCEPT ![Held(c)].state = "acked"]
  /\ consumer' = [consumer EXCEPT ![c] = IdleConsumer]

\* nack(requeue=True), and what the broker does when a consumer is gone.
Nack(c) ==
  /\ msg' = [msg EXCEPT ![Held(c)] =
       IF @.tries < DeliveryLimit THEN [state |-> "ready", tries |-> @.tries + 1]
       ELSE [@ EXCEPT !.state = "dead"]]
  /\ consumer' = [consumer EXCEPT ![c] = IdleConsumer]

\* Mutant: rows that the relay gave up on are not delivered.
DeliverableUnlessFailed == {"pending", "published"}

Deliverable == {"pending", "published", "failed"}

\* _request_for and _event_for: the delivery must name a known row.
Lookup(c) ==
  /\ consumer[c].pc = "lookup"
  /\ \/ /\ row[consumer[c].event].status \in Deliverable
        /\ consumer' = [consumer EXCEPT ![c].pc = "claim"]
        /\ UNCHANGED msg
     \/ row[consumer[c].event].status \notin Deliverable /\ Ack(c)
  /\ UNCHANGED <<row, relay, work, crashes>>

\* worker.process: claims the waiting job or request, or does nothing.
ClaimWork(c) ==
  /\ consumer[c].pc = "claim"
  /\ \/ /\ work[consumer[c].event] = "waiting"
        /\ work' = [work EXCEPT ![consumer[c].event] = "busy"]
        /\ consumer' = [consumer EXCEPT ![c].pc = "execute"]
        /\ UNCHANGED msg
     \/ work[consumer[c].event] # "waiting" /\ Ack(c) /\ UNCHANGED work
  /\ UNCHANGED <<row, relay, crashes>>

\* The worker returns: it ended the job, or left it to reconciliation.
Executed(c) ==
  /\ consumer[c].pc = "execute"
  /\ work' = [work EXCEPT ![consumer[c].event] = "over"]
  /\ Ack(c)
  /\ UNCHANGED <<row, relay, crashes>>

\* No permit: the worker gives the claim back and the delivery is requeued.
Saturated(c) ==
  /\ consumer[c].pc = "execute"
  /\ work' = [work EXCEPT ![consumer[c].event] = "waiting"]
  /\ Nack(c)
  /\ UNCHANGED <<row, relay, crashes>>

\* The consumer dies, or a transaction fails: the message is redelivered and
\* a claim that was taken is left to the reconcilers.
ConsumerFails(c) ==
  /\ crashes < MaxFaults
  /\ consumer[c].pc # "idle"
  /\ Nack(c)
  /\ crashes' = crashes + 1
  /\ UNCHANGED <<row, relay, work>>

\* reject(requeue=False): a ValueError, of a delivery that does not fit its row or
\* of the worker, dead-letters the message at once.  A claim that was taken stays.
ConsumerRejects(c) ==
  /\ consumer[c].pc # "idle"
  /\ msg' = [msg EXCEPT ![Held(c)].state = "dead"]
  /\ consumer' = [consumer EXCEPT ![c] = IdleConsumer]
  /\ UNCHANGED <<row, relay, work, crashes>>

\* The reconcilers end work whose consumer is gone, and users cancel or stop
\* what still waits.
WorkEnds(e) ==
  /\ work[e] \in {"waiting", "busy"}
  /\ \A c \in Consumers : ~(consumer[c].pc = "execute" /\ consumer[c].event = e)
  /\ work' = [work EXCEPT ![e] = "over"]
  /\ UNCHANGED <<row, relay, msg, consumer, crashes>>

ConsumerStep(c) ==
  \/ \E m \in Copies : Deliver(c, m)
  \/ Lookup(c) \/ ClaimWork(c) \/ Executed(c) \/ Saturated(c)

OutboxNext ==
  \/ \E e \in Events : Commit(e) \/ BecomesDue(e) \/ WorkEnds(e)
  \/ \E p \in Relays : RelayStep(p) \/ RelayCrash(p)
  \/ \E c \in Consumers : ConsumerStep(c) \/ ConsumerFails(c) \/ ConsumerRejects(c)

OutboxSpec == OutboxInit /\ [][OutboxNext]_outboxVars

\* Relays poll, consumers consume, and time passes.  Nothing is assumed of
\* the broker's availability, nor of permits.
OutboxFairness ==
  /\ \A p \in Relays : WF_outboxVars(RelayStep(p))
  /\ \A c \in Consumers : WF_outboxVars(ConsumerStep(c))
  /\ \A e \in Events : WF_outboxVars(BecomesDue(e))

OutboxFairSpec == OutboxSpec /\ OutboxFairness

-----------------------------------------------------------------------------
(* Properties. *)

\* Type invariant of rows, relays, messages and consumers.
OutboxTypeOK ==
  /\ row \in [Events -> OutboxRow]
  /\ \A e \in Events : row[e].attempts <= MaxAttempts /\ row[e].token <= row[e].attempts
  /\ relay \in [Relays -> RelayState]
  /\ msg \in [Copies -> [state : {"none", "ready", "unacked", "acked", "dead"},
                         tries : 0 .. DeliveryLimit]]
  /\ consumer \in [Consumers -> ConsumerState]
  /\ work \in [Events -> {"none", "waiting", "busy", "over"}]
  /\ crashes \in 0 .. MaxFaults

Sent(e) == \E n \in 1 .. MaxAttempts : msg[<<e, n>>].state # "none"

\* "Fenced outbox claim/renew/mark operations prevent a stale relay owner from
\* mutating a newer claim": the step that ends a lease is a step of the relay that
\* holds it, at its event; or the lease has lapsed and no relay that has a batch
\* moves, so that it is a claim.
LeaseKeptStep ==
  \A e \in Events : row[e].token # 0 /\ row'[e].token # row[e].token =>
    \/ \E p \in Relays : /\ relay[p].event = e /\ relay[p].held[e] = row[e].token
                         /\ relay'[p] # relay[p]
    \/ /\ row[e].due
       /\ \A p \in Relays : relay[p].pc # "idle" => relay'[p] = relay[p]
LeaseKept == [][LeaseKeptStep]_outboxVars

\* A row is marked published only when the broker has taken a copy of its message,
\* although the call and the mark are apart and the mark may come late.
PublishedIsSent == \A e \in Events : row[e].status = "published" => Sent(e)

\* However often the message of an event was sent and is redelivered, one consumer
\* at most executes its work (the claim in worker.process).
ExecutedByOne ==
  \A c, d \in Consumers :
    c # d /\ consumer[c].pc = "execute" /\ consumer[d].pc = "execute" =>
      consumer[c].event # consumer[d].event

\* No row stays pending for ever: "Once that lease expires, do not leave the
\* row pending forever" (claim).
RowsSettle ==
  \A e \in Events : row[e].status = "pending" ~> row[e].status \in {"published", "failed"}

\* A message the broker took is acted upon, even if the relay failed or lost
\* the mark: the work leaves the waiting state, or a copy is dead-lettered.
SentIsHandled ==
  \A e \in Events :
    Sent(e) ~> (work[e] = "over" \/ work[e] = "busy"
                  \/ \E n \in 1 .. MaxAttempts : msg[<<e, n>>].state = "dead")

=============================================================================
