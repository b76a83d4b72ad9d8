----------------------------- MODULE ChatStream ------------------------------
(***************************************************************************)
(* Reading the durable event log: the server's stream of one request       *)
(* (ConversationService.stream) and the browser page that shows it         *)
(* (chat-workspace.tsx and conversation-reducer.ts), while the log of      *)
(* module ChatLog grows.                                                   *)
(*                                                                         *)
(* A database statement is one step.  The page loads a conversation with   *)
(* three statements, each of its own snapshot (READ COMMITTED): the        *)
(* conversation, its messages, its requests.  Each request has one page,   *)
(* and a page has one stream at a time; pages of the same request do not   *)
(* interact.                                                               *)
(*                                                                         *)
(* Abstractions: text is the number of deltas in it; Redis wake-ups only   *)
(* shorten the wait between two replays, so a wait may end at any time.    *)
(***************************************************************************)
EXTENDS ChatLog, Integers, FiniteSets

CONSTANT MaxFaults  \* bound: lost connections, failed requests, deadlines and left pages

ASSUME MaxFaultsAssumption == MaxFaults \in Nat

VARIABLES
  page,    \* what the browser shows and is about to do
  stream,  \* the server's generator
  wire,    \* events sent and not received yet
  faults   \* faults so far

vars == <<logVars, page, stream, wire, faults>>

Last(r) == Len(log[r]) - 1

Deltas(s) == Cardinality({i \in 1 .. Len(s) : s[i] = "delta"})

\* pc, why (what the page reads the conversation for), active, text, last
\* (the reducer's lastSequence), bound (the reducer knows the message it writes
\* to), over (the reducer has seen the end), cursor (requestCursorRef, -1: none),
\* claimed (claimedRequestRef: the page has resumed the request).
Closed == [pc |-> "closed", why |-> "load", active |-> FALSE, text |-> 0,
           last |-> -1, bound |-> FALSE, over |-> FALSE, cursor |-> -1, claimed |-> FALSE]

NoStream == [pc |-> "none", cursor |-> -1, expected |-> 0, empty |-> FALSE]

Init ==
  /\ LogInit
  /\ page = [r \in Requests |-> Closed]
  /\ stream = [r \in Requests |-> NoStream]
  /\ wire = [r \in Requests |-> <<>>]
  /\ faults = 0

-----------------------------------------------------------------------------
(* The page loads a conversation. *)

Visit(r) ==
  /\ page[r].pc \in {"closed", "failed"}
  /\ log[r] # <<>>
  /\ page' = [page EXCEPT ![r] = [Closed EXCEPT !.pc = "row"]]
  /\ stream' = [stream EXCEPT ![r] = NoStream]
  /\ UNCHANGED <<logVars, wire, faults>>

ReadRow(r) ==
  /\ page[r].pc = "row"
  /\ page' = [page EXCEPT ![r] = [@ EXCEPT !.pc = "messages", !.active = ~ended[r]]]
  /\ UNCHANGED <<logVars, stream, wire, faults>>

ReadMessages(r) ==
  /\ page[r].pc = "messages"
  /\ page' = [page EXCEPT ![r] = [@ EXCEPT !.pc = "requests", !.text = Deltas(log[r]),
                                           !.bound = page[r].active /\ ~ended[r]]]
  /\ UNCHANGED <<logVars, stream, wire, faults>>

\* active_request_cursor, and what the page does with the conversation.
ReadRequests(r) ==
  /\ page[r].pc = "requests"
  /\ page' = [page EXCEPT ![r] =
                [@ EXCEPT !.last = IF page[r].active THEN Last(r) ELSE -1,
                          !.cursor = IF page[r].why = "load" /\ page[r].active THEN Last(r)
                                     ELSE page[r].cursor,
                          !.over = ~page[r].active,
                          !.pc = CASE page[r].why = "hydrate" -> "consume"
                                   [] page[r].why = "load" /\ page[r].active -> "open"
                                   [] OTHER -> "done"]]
  /\ UNCHANGED <<logVars, stream, wire, faults>>

-----------------------------------------------------------------------------
(* The page opens a stream, and reads the conversation again before it     *)
(* consumes the events (startStream).                                      *)

Hydrate(r, resumed) ==
  page' = [page EXCEPT ![r] = [@ EXCEPT !.pc = "row", !.why = "hydrate", !.claimed = resumed]]

\* resumeMessage with the cursor of the page, once until it is loaded again; a
\* cursor at the end of a request that ended is answered with 204.
Resume(r) ==
  /\ page[r].pc = "open"
  /\ Hydrate(r, TRUE)
  /\ stream' = [stream EXCEPT ![r] =
       [pc |-> IF ended[r] /\ page[r].cursor >= Last(r) THEN "ended" ELSE "read",
        cursor |-> page[r].cursor, expected |-> page[r].cursor + 1, empty |-> FALSE]]
  /\ UNCHANGED <<logVars, wire, faults>>

\* sendMessage and regenerate: the request is accepted (or replayed) and its
\* events are streamed from the first.
Send(r) ==
  /\ page[r].pc = "closed"
  /\ log[r] # <<>>
  /\ Hydrate(r, FALSE)
  /\ stream' = [stream EXCEPT ![r] = [NoStream EXCEPT !.pc = "read"]]
  /\ UNCHANGED <<logVars, wire, faults>>

\* A request of the page fails: that of the stream, or a fetch of the conversation,
\* of which nothing is kept.  The stream is aborted.  A page that sent, and whose
\* fetch after that fails, resumes once; any other waits for a reload.
RequestFails(r) ==
  /\ faults < MaxFaults
  /\ faults' = faults + 1
  /\ page[r].pc \in {"open", "row"}
  /\ page' = [page EXCEPT ![r] =
       IF page[r].why = "hydrate" /\ ~page[r].claimed
         THEN [@ EXCEPT !.pc = "open", !.why = "load"]
         ELSE [@ EXCEPT !.pc = "failed"]]
  /\ stream' = [stream EXCEPT ![r] = NoStream]
  /\ wire' = [wire EXCEPT ![r] = <<>>]
  /\ UNCHANGED logVars

-----------------------------------------------------------------------------
(* The server. *)

\* The rows after the last event sent.
Rows(r) == SubSeq(log[r], stream[r].expected + 1, Len(log[r]))

\* _validate_event of every row, in order.
Validated(r, rows) ==
  \A i \in 1 .. Len(rows) :
    /\ rows[i] = "started" <=> stream[r].expected + i = 1
    /\ \A k \in 1 .. i - 1 : rows[k] \notin TerminalEvents

ReadEvents(r) ==
  LET rows == Rows(r) IN
  /\ stream[r].pc = "read"
  /\ IF Validated(r, rows)
       THEN /\ wire' = [wire EXCEPT ![r] = @ \o
                          [i \in 1 .. Len(rows) |->
                             [seq |-> stream[r].expected + i - 1, type |-> rows[i]]]]
            /\ stream' = [stream EXCEPT ![r] =
                 [stream[r] EXCEPT !.expected = @ + Len(rows),
                                   !.empty = rows = <<>>,
                                   !.pc = IF \E i \in 1 .. Len(rows) : rows[i] \in TerminalEvents
                                            THEN "ended" ELSE "refresh"]]
       ELSE stream' = [stream EXCEPT ![r].pc = "invalid"] /\ UNCHANGED wire
  /\ UNCHANGED <<logVars, page, faults>>

\* Mutant: without a notification the stream is not replayed again.
RefreshUnlessSilent(r) ==
  /\ stream[r].pc = "refresh"
  /\ ~stream[r].empty
  /\ stream' = [stream EXCEPT ![r].pc = "read"]
  /\ UNCHANGED <<logVars, page, wire, faults>>

\* The request is read again, and the stream returns, raises, or waits and
\* replays again.
Refresh(r) ==
  /\ stream[r].pc = "refresh"
  /\ stream' = [stream EXCEPT ![r].pc =
       CASE ended[r] /\ stream[r].expected > Last(r) -> "ended"
         [] ended[r] /\ stream[r].expected <= Last(r) /\ stream[r].empty -> "error"
         [] OTHER -> "read"]
  /\ UNCHANGED <<logVars, page, wire, faults>>

StreamStep(r) == ReadEvents(r) \/ Refresh(r)

\* stream_max_duration_seconds is over.
Deadline(r) ==
  /\ faults < MaxFaults
  /\ faults' = faults + 1
  /\ stream[r].pc = "refresh"
  /\ stream' = [stream EXCEPT ![r].pc = "cut"]
  /\ UNCHANGED <<logVars, page, wire>>

\* The connection or the API process is lost, with what was on the wire.
Drop(r) ==
  /\ faults < MaxFaults
  /\ faults' = faults + 1
  /\ stream[r].pc \in {"read", "refresh", "ended"}
  /\ stream' = [stream EXCEPT ![r].pc = "cut"]
  /\ wire' = [wire EXCEPT ![r] = <<>>]
  /\ UNCHANGED <<logVars, page>>

-----------------------------------------------------------------------------
(* The page consumes the events (consumeStream). *)

\* Mutant: events are applied whatever their number.
ReduceUnordered(p, e, whole) ==
  IF p.over
    THEN p
    ELSE [p EXCEPT !.last = e.seq, !.cursor = e.seq,
                   !.text = CASE e.type = "delta" -> @ + 1
                              [] e.type = "completed" -> whole
                              [] OTHER -> @,
                   !.over = e.type \in TerminalEvents]

\* reduceConversation, and the cursor that consumeStream keeps of an event that
\* was not ignored; whole is the text of a completed event.
Reduce(p, e, whole) ==
  IF \/ p.over
     \/ ~p.bound /\ e.type # "started"
     \/ p.bound /\ (e.seq # p.last + 1 \/ (e.type = "started" <=> p.last >= 0))
    THEN p
    ELSE [p EXCEPT !.bound = TRUE,
                   !.last = e.seq, !.cursor = e.seq,
                   !.text = CASE e.type = "delta" -> @ + 1
                              [] e.type = "completed" -> whole
                              [] OTHER -> @,
                   !.over = e.type \in TerminalEvents]

Receive(r) ==
  /\ page[r].pc = "consume"
  /\ wire[r] # <<>>
  /\ page' = [page EXCEPT ![r] = Reduce(@, Head(wire[r]), Deltas(log[r]))]
  /\ wire' = [wire EXCEPT ![r] = Tail(@)]
  /\ UNCHANGED <<logVars, stream, faults>>

\* Mutant: what the reducer shows at the end is not refreshed.
StreamOverUnrefreshed(r) ==
  /\ page[r].pc = "consume"
  /\ wire[r] = <<>>
  /\ stream[r].pc = "ended"
  /\ page' = [page EXCEPT ![r].pc = "done"]
  /\ UNCHANGED <<logVars, stream, wire, faults>>

\* A stream that ended with a terminal event is followed by a refresh.  One that
\* broke off shows an error: the page resumes where it stands if it sent the
\* request and has shown events of it, and waits for a reload otherwise.
StreamOver(r) ==
  /\ page[r].pc = "consume"
  /\ wire[r] = <<>>
  /\ \/ /\ stream[r].pc = "ended"
        /\ page' = [page EXCEPT ![r] = [@ EXCEPT !.pc = "row", !.why = "refresh"]]
        /\ UNCHANGED stream
     \/ /\ stream[r].pc \in {"cut", "error", "invalid"}
        /\ page' = [page EXCEPT ![r] =
             IF ~page[r].claimed /\ page[r].cursor >= 0 /\ ~page[r].over
               THEN [@ EXCEPT !.pc = "open", !.why = "load"]
               ELSE [@ EXCEPT !.pc = "failed"]]
        /\ stream' = [stream EXCEPT ![r] = NoStream]
  /\ UNCHANGED <<logVars, wire, faults>>

PageStep(r) ==
  \/ ReadRow(r) \/ ReadMessages(r) \/ ReadRequests(r)
  \/ Resume(r) \/ Receive(r) \/ StreamOver(r)

\* The user leaves the page.
LeavePage(r) ==
  /\ faults < MaxFaults
  /\ faults' = faults + 1
  /\ page[r].pc # "closed"
  /\ page' = [page EXCEPT ![r] = Closed]
  /\ stream' = [stream EXCEPT ![r] = NoStream]
  /\ wire' = [wire EXCEPT ![r] = <<>>]
  /\ UNCHANGED logVars

-----------------------------------------------------------------------------

LogGrows == LogNext /\ UNCHANGED <<page, stream, wire, faults>>

Next ==
  \/ LogGrows
  \/ \E r \in Requests : \/ Visit(r) \/ Send(r) \/ PageStep(r) \/ StreamStep(r)
                         \/ Deadline(r) \/ Drop(r) \/ RequestFails(r) \/ LeavePage(r)

Spec == Init /\ [][Next]_vars

\* The page and the server run; a user who sees an error reloads the page.
Fairness ==
  \A r \in Requests : /\ WF_vars(PageStep(r))
                      /\ WF_vars(StreamStep(r))
                      /\ WF_vars(page[r].pc = "failed" /\ Visit(r))

FairSpec == Spec /\ Fairness

-----------------------------------------------------------------------------
(* Properties. *)

Events == [seq : 0 .. MaxDeltas + 1, type : EventTypes]

Pages ==
  [pc : {"closed", "row", "messages", "requests", "open", "consume", "done", "failed"},
   why : {"load", "hydrate", "refresh"}, active : BOOLEAN, text : Nat,
   last : -1 .. MaxDeltas + 1, bound : BOOLEAN, over : BOOLEAN,
   cursor : -1 .. MaxDeltas + 1, claimed : BOOLEAN]

Streams ==
  [pc : {"none", "read", "refresh", "ended", "cut", "error", "invalid"},
   cursor : -1 .. MaxDeltas + 1, expected : 0 .. MaxDeltas + 2, empty : BOOLEAN]

\* Type invariant of page, stream and wire.
StreamTypeOK ==
  /\ page \in [Requests -> Pages]
  /\ stream \in [Requests -> Streams]
  /\ wire \in [Requests -> Seq(Events)]
  /\ faults \in 0 .. MaxFaults

\* A page that resumes shows no delta twice: the text it loaded is never ahead
\* of its cursor, so events that were already part of the text are skipped,
\* whatever is written between the statements of a load.
ShownOnce ==
  \A r \in Requests : (page[r].pc = "consume" /\ stream[r].cursor >= 0 /\ ~page[r].over) =>
    page[r].text <= Deltas(SubSeq(log[r], 1, page[r].last + 1))

\* "resume continues from the persisted cursor; no chunk is repeated in the
\* final state" (phase 2 evidence): a page that is done shows the whole answer
\* exactly once, however it came to it.
FinalIsWhole ==
  \A r \in Requests : page[r].pc = "done" => ended[r] /\ page[r].text = Deltas(log[r])

\* An open page comes to show the end of a request that ended, although
\* notifications are lost, streams break off and replays race with writers.
EndIsShown ==
  \A r \in Requests : (ended[r] /\ page[r].pc # "closed") ~> (page[r].pc \in {"done", "closed"})

\* "Replay committed events ... a lost/duplicate message is repaired or
\* deduplicated by the cursor": a stream over a well-formed log never ends in
\* STREAM_EVENT_SEQUENCE_INVALID.
NoSequenceError == \A r \in Requests : stream[r].pc # "error"

\* _validate_event rejects no row of a log the writers made: the check after a
\* refresh is the only place where a stream can fail.
RowsAlwaysValid == \A r \in Requests : stream[r].pc # "invalid"

=============================================================================
