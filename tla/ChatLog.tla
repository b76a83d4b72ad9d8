------------------------------ MODULE ChatLog -------------------------------
(***************************************************************************)
(* What the durable event log of chat requests promises to those who read  *)
(* it (chat_stream_events and inference_requests): events are only         *)
(* appended, the first is "started", and the one terminal event is the     *)
(* last and appears in the same step in which the request ends.            *)
(***************************************************************************)
EXTENDS Naturals, Sequences

CONSTANTS
  Requests,  \* inference requests
  MaxDeltas  \* bound: deltas in one answer

ASSUME MaxDeltasAssumption == MaxDeltas \in Nat

VARIABLES
  log,   \* the event types of each request, in sequence order
  ended  \* whether the request is in a terminal status

logVars == <<log, ended>>

TerminalEvents == {"completed", "stopped", "failed"}

EventTypes == {"started", "delta"} \cup TerminalEvents

LogInit ==
  /\ log = [r \in Requests |-> <<>>]
  /\ ended = [r \in Requests |-> FALSE]

\* The acceptance transaction.
Start(r) ==
  /\ log[r] = <<>>
  /\ log' = [log EXCEPT ![r] = <<"started">>]
  /\ UNCHANGED ended

Delta(r) ==
  /\ log[r] # <<>>
  /\ ~ended[r]
  /\ Len(log[r]) <= MaxDeltas
  /\ log' = [log EXCEPT ![r] = Append(@, "delta")]
  /\ UNCHANGED ended

Finish(r, t) ==
  /\ log[r] # <<>>
  /\ ~ended[r]
  /\ log' = [log EXCEPT ![r] = Append(@, t)]
  /\ ended' = [ended EXCEPT ![r] = TRUE]

LogNext ==
  \E r \in Requests : Start(r) \/ Delta(r) \/ \E t \in TerminalEvents : Finish(r, t)

LogSpec == LogInit /\ [][LogNext]_logVars

-----------------------------------------------------------------------------

(* Properties. *)

\* A log that can be replayed: started first and only first, a terminal event
\* last and only last, present exactly when the request has ended.
WellFormed(s, over) ==
  /\ s \in Seq(EventTypes)
  /\ \A i \in 1 .. Len(s) : /\ s[i] = "started" <=> i = 1
                            /\ s[i] \in TerminalEvents <=> over /\ i = Len(s)
  /\ over => Len(s) >= 2

\* Every log passes the checks of the replay, whoever wrote it.
LogReplayable == \A r \in Requests : WellFormed(log[r], ended[r])

\* A reader's prefix stays a prefix, and nothing follows the terminal event.
AppendStep ==
  \A r \in Requests : /\ Len(log[r]) <= Len(log'[r])
                      /\ \A i \in 1 .. Len(log[r]) : log'[r][i] = log[r][i]
                      /\ ended[r] => log'[r] = log[r] /\ ended'[r]

LogOnlyGrows == [][AppendStep]_logVars

=============================================================================
