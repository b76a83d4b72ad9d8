-------------------------- MODULE ChatStreamProofs ---------------------------
(***************************************************************************)
(* What the specification of the event log means for its readers, and what *)
(* a page shows that reads the log through a stream, for any number of     *)
(* requests, deltas and faults.                                            *)
(***************************************************************************)
EXTENDS ChatStream, FiniteSetTheorems, TLAPS

LogInv ==
  /\ log \in [Requests -> Seq(EventTypes)]
  /\ ended \in [Requests -> BOOLEAN]
  /\ LogReplayable

\* Empty logs of requests that have not ended are well formed.
LEMMA LogInitially ==
  ASSUME LogInit
  PROVE  LogInv
BY DEF LogInit, LogInv, LogReplayable, WellFormed

\* A delta or a terminal event after a log that began and has not ended.
LEMMA Extends ==
  ASSUME NEW s, WellFormed(s, FALSE), NEW e \in EventTypes \ {"started"}, s # <<>>
  PROVE  /\ WellFormed(Append(s, e), e \in TerminalEvents)
         /\ Append(s, e) \in Seq(EventTypes) /\ Len(Append(s, e)) = Len(s) + 1
         /\ \A i \in 1 .. Len(s) : Append(s, e)[i] = s[i]
<1> DEFINE t == Append(s, e)
<1>1. s \in Seq(EventTypes) /\ Len(s) \in Nat \ {0}
  BY DEF WellFormed
<1>2. /\ t \in Seq(EventTypes) /\ Len(t) = Len(s) + 1 /\ t[Len(s) + 1] = e
      /\ \A i \in 1 .. Len(s) : t[i] = s[i]
  BY <1>1
<1> HIDE DEF t
<1>3. \A i \in 1 .. Len(t) : i \in 1 .. Len(s) \/ i = Len(s) + 1
  BY <1>1, <1>2
<1>4. ASSUME NEW i \in 1 .. Len(t)
      PROVE  /\ t[i] = "started" <=> i = 1
             /\ t[i] \in TerminalEvents <=> e \in TerminalEvents /\ i = Len(t)
  <2>1. CASE i \in 1 .. Len(s)
    <3>1. t[i] = s[i] /\ i # Len(t)
      BY <1>1, <1>2, <2>1
    <3>2. s[i] \notin TerminalEvents /\ (s[i] = "started" <=> i = 1)
      BY <2>1 DEF WellFormed
    <3> QED
      BY <3>1, <3>2
  <2>2. CASE i = Len(s) + 1
    BY <1>1, <1>2, <2>2
  <2> QED
    BY <1>3, <2>1, <2>2
<1>5. WellFormed(t, e \in TerminalEvents)
  BY <1>1, <1>2, <1>4 DEF WellFormed
<1> QED
  BY <1>2, <1>5 DEF t

\* Start writes the first event, Delta and Finish append; the logs of other
\* requests stay as they are.
LEMMA LogStep ==
  ASSUME LogInv, NEW r \in Requests, Start(r) \/ Delta(r) \/ \E t \in TerminalEvents : Finish(r, t)
  PROVE  LogInv' /\ AppendStep
<1> USE DEF LogInv
<1>0. log[r] \in Seq(EventTypes) /\ ended[r] \in BOOLEAN /\ WellFormed(log[r], ended[r])
  BY DEF LogReplayable
<1>1. CASE Start(r)
  <2>1. /\ log' = [log EXCEPT ![r] = <<"started">>] /\ ended' = ended /\ log[r] = <<>>
    BY <1>1 DEF Start
  <2>2. ~ended[r]
    BY <1>0, <2>1 DEF WellFormed
  <2>3. <<"started">> \in Seq(EventTypes) /\ WellFormed(<<"started">>, FALSE)
    BY DEF WellFormed, EventTypes, TerminalEvents
  <2>4. /\ log'[r] = <<"started">>
        /\ \A q \in Requests \ {r} : log'[q] = log[q]
    BY <2>1
  <2>5. LogReplayable'
    BY <1>0, <2>1, <2>2, <2>3, <2>4, Zenon DEF LogReplayable
  <2>6. LogInv'
    BY <2>1, <2>3, <2>5
  <2>7. AppendStep
    BY <2>1, <2>2, <2>4 DEF AppendStep
  <2> QED
    BY <2>6, <2>7
<1>2. ASSUME NEW e \in EventTypes \ {"started"}, log[r] # <<>>, ~ended[r],
             log' = [log EXCEPT ![r] = Append(@, e)],
             ended' = [ended EXCEPT ![r] = e \in TerminalEvents]
      PROVE  LogInv' /\ AppendStep
  <2> DEFINE s == Append(log[r], e)
  <2>1. WellFormed(log[r], FALSE)
    BY <1>0, <1>2, Zenon
  <2>2. /\ WellFormed(s, e \in TerminalEvents) /\ s \in Seq(EventTypes)
        /\ Len(s) = Len(log[r]) + 1 /\ \A i \in 1 .. Len(log[r]) : s[i] = log[r][i]
    BY <1>2, <2>1, Extends, Zenon
  <2>3. log' = [log EXCEPT ![r] = s]
    BY <1>2
  <2> HIDE DEF s
  <2>4. /\ log'[r] = s /\ ended'[r] = (e \in TerminalEvents)
        /\ \A q \in Requests \ {r} : log'[q] = log[q] /\ ended'[q] = ended[q]
    BY <1>2, <2>3
  <2>5. LogReplayable'
    BY <2>2, <2>4 DEF LogReplayable
  <2>6. LogInv'
    BY <1>2, <2>2, <2>3, <2>5
  <2>7. Len(log[r]) <= Len(s)
    BY <1>0, <2>2
  <2>8. AppendStep
    BY <1>2, <2>2, <2>4, <2>7 DEF AppendStep
  <2> QED
    BY <2>6, <2>8
<1>3. CASE Delta(r)
  <2>1. "delta" \in EventTypes \ {"started"} /\ "delta" \notin TerminalEvents
    BY DEF EventTypes, TerminalEvents
  <2>2. ended' = [ended EXCEPT ![r] = "delta" \in TerminalEvents]
    BY <1>0, <1>3, <2>1 DEF Delta
  <2> QED
    BY <1>2, <1>3, <2>1, <2>2, Zenon DEF Delta
<1>4. ASSUME NEW t \in TerminalEvents, Finish(r, t) PROVE LogInv' /\ AppendStep
  <2>1. t \in EventTypes \ {"started"}
    BY DEF EventTypes, TerminalEvents
  <2>2. ended' = [ended EXCEPT ![r] = t \in TerminalEvents]
    BY <1>4, Zenon DEF Finish
  <2> QED
    BY <1>2, <1>4, <2>1, <2>2, Zenon DEF Finish
<1> QED
  BY <1>1, <1>3, <1>4

\* Logs are well formed in every reachable state of the log's specification.
THEOREM LogReplayableAlways == LogSpec => []LogReplayable
<1>1. LogInit => LogInv
  BY LogInitially
<1>2. LogInv /\ [LogNext]_logVars => LogInv'
  BY LogStep DEF LogNext, logVars, LogInv, LogReplayable
<1>3. LogInv => LogReplayable
  BY DEF LogInv
<1> QED
  BY <1>1, <1>2, <1>3, PTL DEF LogSpec

\* Logs only grow, and a log with its terminal event stays as it is.
THEOREM LogOnlyGrowsAlways == LogSpec => LogOnlyGrows
<1>1. LogInit => LogInv
  BY LogInitially
<1>2. LogInv /\ [LogNext]_logVars => LogInv' /\ [AppendStep]_logVars
  BY LogStep DEF LogNext, logVars, LogInv, LogReplayable
<1> QED
  BY <1>1, <1>2, PTL DEF LogSpec, LogOnlyGrows

-----------------------------------------------------------------------------
(* Counting deltas.                                                        *)

\* The deltas among the first n events of s.
DeltasTo(s, n) == Cardinality({i \in 1 .. n : s[i] = "delta"})

\* The deltas of a prefix are counted by a finite set.
LEMMA DeltasFinite ==
  ASSUME NEW s, NEW n \in Nat
  PROVE  /\ IsFiniteSet({i \in 1 .. n : s[i] = "delta"})
         /\ DeltasTo(s, n) \in Nat
<1>1. IsFiniteSet(1 .. n)
  BY FS_Interval
<1>2. {i \in 1 .. n : s[i] = "delta"} \subseteq 1 .. n
  OBVIOUS
<1>3. IsFiniteSet({i \in 1 .. n : s[i] = "delta"})
  BY <1>1, <1>2, FS_Subset
<1> QED
  BY <1>3, FS_CardinalityType DEF DeltasTo

\* Deltas counts the deltas of the whole sequence, or of a prefix of it.
LEMMA DeltasOf ==
  ASSUME NEW s \in Seq(EventTypes)
  PROVE  /\ Deltas(s) = DeltasTo(s, Len(s))
         /\ Deltas(s) \in Nat
         /\ \A n \in 0 .. Len(s) : Deltas(SubSeq(s, 1, n)) = DeltasTo(s, n)
<1>1. Deltas(s) = DeltasTo(s, Len(s)) /\ Len(s) \in Nat
  BY DEF Deltas, DeltasTo
<1>2. Deltas(s) \in Nat
  <2>1. DeltasTo(s, Len(s)) \in Nat
    BY <1>1, DeltasFinite, Zenon
  <2> QED BY <1>1, <2>1
<1>3. ASSUME NEW n \in 0 .. Len(s)
      PROVE  Deltas(SubSeq(s, 1, n)) = DeltasTo(s, n)
  <2>1. Len(SubSeq(s, 1, n)) = n /\ \A i \in 1 .. n : SubSeq(s, 1, n)[i] = s[i]
    BY <1>1
  <2>2. {i \in 1 .. Len(SubSeq(s, 1, n)) : SubSeq(s, 1, n)[i] = "delta"} =
        {i \in 1 .. n : s[i] = "delta"}
    BY <2>1
  <2> QED BY <2>2, Zenon DEF Deltas, DeltasTo
<1> QED
  BY <1>1, <1>2, <1>3

\* A prefix with one event more has at most one delta more.
LEMMA DeltasNext ==
  ASSUME NEW s, NEW n \in Nat
  PROVE  /\ DeltasTo(s, n) <= DeltasTo(s, n + 1)
         /\ s[n + 1] = "delta" => DeltasTo(s, n + 1) = DeltasTo(s, n) + 1
<1> DEFINE D == {i \in 1 .. n : s[i] = "delta"}
           F == {i \in 1 .. n + 1 : s[i] = "delta"}
<1>1. IsFiniteSet(D) /\ IsFiniteSet(F) /\ Cardinality(D) \in Nat /\ Cardinality(F) \in Nat
  BY DeltasFinite, n + 1 \in Nat DEF DeltasTo
<1>2. Cardinality(D) <= Cardinality(F)
  <2>1. D \subseteq F
    OBVIOUS
  <2> QED BY <1>1, <2>1, FS_Subset
<1>3. ASSUME s[n + 1] = "delta" PROVE Cardinality(F) = Cardinality(D) + 1
  <2>1. F = D \cup {n + 1} /\ n + 1 \notin D
    BY <1>3
  <2> HIDE DEF D, F
  <2> QED BY <1>1, <2>1, FS_AddElement
<1> QED
  BY <1>2, <1>3 DEF DeltasTo

\* A longer sequence has as many deltas in the common part, and no fewer in all.
LEMMA DeltasGrow ==
  ASSUME NEW s \in Seq(EventTypes), NEW t \in Seq(EventTypes), Len(s) <= Len(t),
         \A i \in 1 .. Len(s) : t[i] = s[i]
  PROVE  /\ \A n \in 0 .. Len(s) : DeltasTo(t, n) = DeltasTo(s, n)
         /\ Deltas(s) <= Deltas(t)
<1>1. Len(s) \in Nat /\ Len(t) \in Nat
  OBVIOUS
<1>2. ASSUME NEW n \in 0 .. Len(s) PROVE DeltasTo(t, n) = DeltasTo(s, n)
  <2>1. {i \in 1 .. n : t[i] = "delta"} = {i \in 1 .. n : s[i] = "delta"}
    BY <1>1
  <2> QED BY <2>1, Zenon DEF DeltasTo
<1>3. {i \in 1 .. Len(s) : s[i] = "delta"} \subseteq {i \in 1 .. Len(t) : t[i] = "delta"}
  BY <1>1
<1>4. DeltasTo(s, Len(s)) <= DeltasTo(t, Len(t))
  BY <1>1, <1>3, DeltasFinite, FS_Subset DEF DeltasTo
<1> QED
  BY <1>2, <1>4, DeltasOf

-----------------------------------------------------------------------------
(* The invariant of one reader: page p, stream s and wire w of a request   *)
(* whose log is l, and e says whether the request has ended.               *)

\* Events on the wire are events of the log; a stream that resumed sends none
\* from the beginning.
WireOK(s, w, l) ==
  \A i \in 1 .. Len(w) :
    /\ w[i].seq + 1 <= Len(l)
    /\ w[i].type = l[w[i].seq + 1]
    /\ s.cursor >= 0 => w[i].seq >= 1

\* A stream never runs ahead of the log, ends only with the request, and there is
\* none, nor anything on the wire, while a page loads.
StreamOK(p, s, w, l, e) ==
  /\ s.expected <= Len(l)
  /\ s.cursor >= 0 => s.expected >= 1
  /\ s.pc = "ended" => e
  /\ s.pc # "invalid"
  /\ p.pc = "failed" => w = <<>> /\ s.pc = "none"
  /\ p.why = "load" => w = <<>> /\ s.pc = "none" /\ s.cursor = -1

\* What the page knows of the log, by the statement of a load it has reached.
PageOK(p, s, l, e) ==
  /\ p.last + 1 <= Len(l) /\ p.cursor + 1 <= Len(l)
  /\ p.pc \in {"closed", "open"} => p.why = "load"
  /\ p.why = "refresh" => e
  /\ p.pc \in {"messages", "requests"} =>
       /\ ~p.active => e
       /\ p.why = "refresh" => ~p.active
  /\ p.pc = "requests" =>
       /\ p.text <= Deltas(l)
       /\ ~p.active => p.text = Deltas(l)
  /\ (p.pc = "consume" /\ s.cursor >= 0 /\ ~p.over) => p.text <= DeltasTo(l, p.last + 1)
  /\ p.pc = "done" => e /\ p.text = Deltas(l)

Reads(p, s, w, l, e) == WireOK(s, w, l) /\ StreamOK(p, s, w, l, e) /\ PageOK(p, s, l, e)

ReaderOK(r) == Reads(page[r], stream[r], wire[r], log[r], ended[r])

\* A log has room for its deltas, the event that starts it and the one that ends it.
LenOK == \A r \in Requests : Len(log[r]) <= MaxDeltas + (IF ended[r] THEN 2 ELSE 1)

StreamInv ==
  /\ LogInv
  /\ LenOK
  /\ StreamTypeOK
  /\ \A r \in Requests : ReaderOK(r)

\* A step of the page, the stream or the wire of one request.
ReaderMoves(r, p, s, w) ==
  /\ UNCHANGED logVars
  /\ page' = [page EXCEPT ![r] = p]
  /\ stream' = [stream EXCEPT ![r] = s]
  /\ wire' = [wire EXCEPT ![r] = w]
  /\ faults' \in 0 .. MaxFaults

\* Such a step keeps the invariant if it leaves that request's reader in order.
LEMMA MoveKeeps ==
  ASSUME StreamInv, NEW r \in Requests,
         NEW p \in Pages, NEW s \in Streams, NEW w \in Seq(Events),
         ReaderMoves(r, p, s, w), Reads(p, s, w, log[r], ended[r])
  PROVE  StreamInv'
<1>1. log' = log /\ ended' = ended
  BY Zenon DEF ReaderMoves, logVars
<1>2. LogInv' /\ LenOK'
  BY <1>1 DEF StreamInv, LogInv, LogReplayable, LenOK
<1>3. page \in [Requests -> Pages] /\ stream \in [Requests -> Streams] /\ wire \in [Requests -> Seq(Events)]
  BY DEF StreamInv, StreamTypeOK
<1>4. StreamTypeOK'
  BY <1>3 DEF StreamTypeOK, ReaderMoves
<1>5. /\ page'[r] = p /\ stream'[r] = s /\ wire'[r] = w
      /\ \A q \in Requests : q # r => page'[q] = page[q] /\ stream'[q] = stream[q] /\ wire'[q] = wire[q]
  BY <1>3 DEF ReaderMoves
<1>6. ASSUME NEW q \in Requests PROVE ReaderOK(q)'
  <2>1. CASE q = r
    BY <1>1, <1>5, <2>1, Zenon DEF ReaderOK
  <2>2. CASE q # r
    BY <1>1, <1>5, <2>2, Zenon DEF ReaderOK, StreamInv
  <2> QED BY <2>1, <2>2
<1> QED
  BY <1>2, <1>4, <1>6, Zenon DEF StreamInv

\* What the invariant says of one request.
LEMMA ReaderFacts ==
  ASSUME StreamInv, NEW r \in Requests
  PROVE  /\ page[r] \in Pages /\ stream[r] \in Streams /\ wire[r] \in Seq(Events)
         /\ log[r] \in Seq(EventTypes) /\ ended[r] \in BOOLEAN
         /\ Len(log[r]) \in Nat /\ Len(log[r]) <= MaxDeltas + 2
         /\ WellFormed(log[r], ended[r])
         /\ MaxDeltas \in Nat
         /\ WireOK(stream[r], wire[r], log[r])
         /\ StreamOK(page[r], stream[r], wire[r], log[r], ended[r])
         /\ PageOK(page[r], stream[r], log[r], ended[r])
<1>1. /\ page[r] \in Pages /\ stream[r] \in Streams /\ wire[r] \in Seq(Events)
  BY DEF StreamInv, StreamTypeOK
<1>2. log[r] \in Seq(EventTypes) /\ ended[r] \in BOOLEAN /\ WellFormed(log[r], ended[r])
  BY DEF StreamInv, LogInv, LogReplayable
<1>3. Len(log[r]) \in Nat /\ MaxDeltas \in Nat
  BY <1>2, MaxDeltasAssumption
<1>4. Len(log[r]) <= MaxDeltas + 2
  BY <1>2, <1>3 DEF StreamInv, LenOK
<1>5. Reads(page[r], stream[r], wire[r], log[r], ended[r])
  BY DEF StreamInv, ReaderOK
<1> QED
  BY <1>1, <1>2, <1>3, <1>4, <1>5, Zenon DEF Reads

\* The fields of pages and streams.
LEMMA FieldTypes ==
  ASSUME NEW p \in Pages, NEW s \in Streams
  PROVE  /\ p.pc \in {"closed", "row", "messages", "requests", "open", "consume", "done", "failed"}
         /\ p.why \in {"load", "hydrate", "refresh"}
         /\ p.active \in BOOLEAN /\ p.bound \in BOOLEAN /\ p.over \in BOOLEAN
         /\ p.text \in Nat /\ p.last \in -1 .. MaxDeltas + 1 /\ p.last \in Int
         /\ p.cursor \in -1 .. MaxDeltas + 1 /\ p.cursor \in Int /\ p.claimed \in BOOLEAN
         /\ s.pc \in {"none", "read", "refresh", "ended", "cut", "error", "invalid"}
         /\ s.cursor \in -1 .. MaxDeltas + 1 /\ s.expected \in 0 .. MaxDeltas + 2
         /\ s.cursor \in Int /\ s.expected \in Nat
         /\ s.empty \in BOOLEAN
BY MaxDeltasAssumption DEF Pages, Streams

\* What is true of a reader stays true while the log grows.
LEMMA LogGrowsKeeps ==
  ASSUME StreamInv, LogGrows
  PROVE  StreamInv'
<1>1. PICK r \in Requests : Start(r) \/ Delta(r) \/ \E t \in TerminalEvents : Finish(r, t)
  BY DEF LogGrows, LogNext
<1>2. LogInv /\ LogInv' /\ AppendStep
  BY <1>1, LogStep DEF StreamInv
<1>3. UNCHANGED <<page, stream, wire, faults>>
  BY DEF LogGrows
<1>4. StreamTypeOK'
  BY <1>3 DEF StreamInv, StreamTypeOK
<1>5. LenOK'
  <2>1. log \in [Requests -> Seq(EventTypes)] /\ ended \in [Requests -> BOOLEAN] /\ MaxDeltas \in Nat
    BY <1>2, MaxDeltasAssumption DEF LogInv
  <2>2. ASSUME NEW q \in Requests, q # r PROVE log'[q] = log[q] /\ ended'[q] = ended[q]
    BY <1>1, <2>1, <2>2 DEF Start, Delta, Finish
  <2>3. Len(log'[r]) <= MaxDeltas + (IF ended'[r] THEN 2 ELSE 1)
    <3>0. Len(log[r]) \in Nat
      BY <2>1
    <3>1. CASE Start(r)
      <4>1. log'[r] = <<"started">>
        BY <2>1, <3>1 DEF Start
      <4>2. Len(log'[r]) = 1
        BY <4>1
      <4> QED BY <2>1, <4>2
    <3>2. CASE Delta(r)
      <4>1. log'[r] = Append(log[r], "delta") /\ Len(log[r]) <= MaxDeltas
        BY <2>1, <3>2 DEF Delta
      <4>2. Len(log'[r]) = Len(log[r]) + 1
        BY <2>1, <4>1
      <4> QED BY <2>1, <3>0, <4>1, <4>2
    <3>3. ASSUME NEW t \in TerminalEvents, Finish(r, t)
          PROVE  Len(log'[r]) <= MaxDeltas + (IF ended'[r] THEN 2 ELSE 1)
      <4>1. log'[r] = Append(log[r], t) /\ ended'[r] /\ ~ended[r]
        BY <2>1, <3>3 DEF Finish
      <4>2. Len(log[r]) <= MaxDeltas + 1
        BY <4>1 DEF StreamInv, LenOK
      <4>3. Len(log'[r]) = Len(log[r]) + 1
        BY <2>1, <4>1
      <4> QED BY <2>1, <3>0, <4>1, <4>2, <4>3
    <3> QED BY <1>1, <3>1, <3>2, <3>3
  <2> QED BY <2>2, <2>3 DEF StreamInv, LenOK
<1>6. ASSUME NEW q \in Requests PROVE ReaderOK(q)'
  <2> DEFINE p == page[q] s == stream[q] w == wire[q] l == log[q] m == log'[q]
  <2>1. /\ p \in Pages /\ s \in Streams /\ w \in Seq(Events) /\ l \in Seq(EventTypes)
        /\ WireOK(s, w, l) /\ StreamOK(p, s, w, l, ended[q]) /\ PageOK(p, s, l, ended[q])
    BY ReaderFacts
  <2>2. /\ m \in Seq(EventTypes) /\ Len(l) <= Len(m) /\ \A i \in 1 .. Len(l) : m[i] = l[i]
        /\ ended[q] => m = l /\ ended'[q]
    BY <1>2 DEF LogInv, AppendStep
  <2>3. page'[q] = p /\ stream'[q] = s /\ wire'[q] = w
    BY <1>3
  <2>4. Len(l) \in Nat /\ Len(m) \in Nat
    BY <2>1, <2>2
  <2>5. /\ \A n \in 0 .. Len(l) : DeltasTo(m, n) = DeltasTo(l, n)
        /\ Deltas(l) <= Deltas(m) /\ Deltas(l) \in Nat /\ Deltas(m) \in Nat
    <3> HIDE DEF l, m
    <3>1. /\ \A n \in 0 .. Len(l) : DeltasTo(m, n) = DeltasTo(l, n)
          /\ Deltas(l) <= Deltas(m)
      BY <2>1, <2>2, DeltasGrow, Zenon
    <3>2. Deltas(l) \in Nat /\ Deltas(m) \in Nat
      BY <2>1, <2>2, DeltasOf, Zenon
    <3> QED BY <3>1, <3>2
  <2> HIDE DEF p, s, w, l, m
  <2>6. /\ p.last \in Int /\ p.last >= -1 /\ p.text \in Nat /\ p.cursor \in Int
        /\ s.expected \in Nat /\ s.cursor \in Int
    BY <2>1, FieldTypes, MaxDeltasAssumption
  <2>7. WireOK(s, w, m)
    <3>1. ASSUME NEW i \in 1 .. Len(w)
          PROVE  w[i].seq + 1 <= Len(m) /\ w[i].type = m[w[i].seq + 1] /\ (s.cursor >= 0 => w[i].seq >= 1)
      <4>1. w[i] \in Events
        BY <2>1
      <4>2. w[i].seq \in Nat
        BY <4>1, MaxDeltasAssumption DEF Events
      <4>3. w[i].seq + 1 <= Len(l) /\ w[i].type = l[w[i].seq + 1] /\ (s.cursor >= 0 => w[i].seq >= 1)
        BY <2>1 DEF WireOK
      <4> QED BY <2>2, <2>4, <4>2, <4>3
    <3> QED BY <3>1 DEF WireOK
  <2>8. StreamOK(p, s, w, m, ended'[q])
    BY <2>1, <2>2, <2>4, <2>6 DEF StreamOK
  <2>9. PageOK(p, s, m, ended'[q])
    <3>1. p.last + 1 <= Len(m) /\ p.last + 1 \in 0 .. Len(l) /\ p.cursor + 1 <= Len(m)
      BY <2>1, <2>2, <2>4, <2>6 DEF PageOK
    <3>2. DeltasTo(m, p.last + 1) = DeltasTo(l, p.last + 1)
      BY <2>5, <3>1
    <3>3. p.text <= Deltas(l) => p.text <= Deltas(m)
      BY <2>5, <2>6
    <3> QED BY <2>1, <2>2, <3>1, <3>2, <3>3, Zenon DEF PageOK
  <2> QED BY <2>3, <2>7, <2>8, <2>9, Zenon DEF ReaderOK, Reads, m
<1> QED
  BY <1>2, <1>4, <1>5, <1>6, Zenon DEF StreamInv

-----------------------------------------------------------------------------
(* The page's steps.                                                       *)

\* The states of a page.
PagePcs == {"closed", "row", "messages", "requests", "open", "consume", "done", "failed"}

\* A page of which nothing was loaded yet.
LEMMA ClosedFacts ==
  /\ Closed \in Pages /\ Closed.pc = "closed" /\ Closed.why = "load" /\ Closed.last = -1
  /\ Closed.cursor = -1
  /\ NoStream \in Streams /\ NoStream.pc = "none" /\ NoStream.cursor = -1 /\ NoStream.expected = 0
BY MaxDeltasAssumption DEF Closed, NoStream, Pages, Streams

\* With an empty wire the wire is in order.
LEMMA EmptyWire ==
  ASSUME NEW s, NEW l
  PROVE  WireOK(s, <<>>, l) /\ <<>> \in Seq(Events)
BY DEF WireOK

\* A page is visited, or left: it begins anew, without a stream.
LEMMA PageBegins ==
  ASSUME StreamInv, NEW r \in Requests, Visit(r) \/ LeavePage(r)
  PROVE  StreamInv'
<1>1. /\ page[r] \in Pages /\ stream[r] \in Streams /\ wire[r] \in Seq(Events)
      /\ Len(log[r]) \in Nat
      /\ StreamOK(page[r], stream[r], wire[r], log[r], ended[r])
      /\ PageOK(page[r], stream[r], log[r], ended[r])
  BY ReaderFacts, Zenon
<1>p. PICK p \in Pages : /\ page' = [page EXCEPT ![r] = p]
                         /\ p.pc \in {"closed", "row"} /\ p.why = "load" /\ p.last = -1 /\ p.cursor = -1
  <2>1. CASE LeavePage(r)
    <3>1. page' = [page EXCEPT ![r] = Closed]
      BY <2>1 DEF LeavePage
    <3>2. Closed.pc \in {"closed", "row"}
      BY ClosedFacts
    <3> QED BY <3>1, <3>2, ClosedFacts, Zenon
  <2>2. CASE Visit(r)
    <3>1. page' = [page EXCEPT ![r] = [Closed EXCEPT !.pc = "row"]]
      BY <2>2 DEF Visit
    <3>2. LET p == [Closed EXCEPT !.pc = "row"]
          IN  p \in Pages /\ p.pc = "row" /\ p.why = "load" /\ p.last = -1 /\ p.cursor = -1
      BY ClosedFacts, Zenon DEF Pages
    <3>3. PICK p : p = [Closed EXCEPT !.pc = "row"]
      BY Zenon
    <3>4. p \in Pages /\ p.pc = "row" /\ p.why = "load" /\ p.last = -1 /\ p.cursor = -1 /\ page' = [page EXCEPT ![r] = p]
      BY <3>1, <3>2, <3>3, Zenon
    <3> QED BY <3>4, Zenon
  <2> QED BY <2>1, <2>2
<1>w. wire' = [wire EXCEPT ![r] = <<>>]
  <2>1. CASE LeavePage(r)
    BY <2>1 DEF LeavePage
  <2>2. CASE Visit(r)
    <3>1. wire[r] = <<>> /\ wire' = wire
      BY <1>1, <2>2 DEF Visit, StreamOK, PageOK
    <3>2. wire \in [Requests -> Seq(Events)]
      BY DEF StreamInv, StreamTypeOK
    <3> QED BY <3>1, <3>2
  <2> QED BY <2>1, <2>2
<1>m. ReaderMoves(r, p, NoStream, <<>>)
  <2>1. faults' \in 0 .. MaxFaults
    BY MaxFaultsAssumption DEF Visit, LeavePage, StreamInv, StreamTypeOK
  <2> QED BY <1>p, <1>w, <2>1 DEF ReaderMoves, Visit, LeavePage
<1>2. StreamOK(p, NoStream, <<>>, log[r], ended[r])
  BY <1>1, <1>p, ClosedFacts DEF StreamOK
<1>3. PageOK(p, NoStream, log[r], ended[r])
  BY <1>1, <1>p, ClosedFacts DEF PageOK
<1> QED
  BY <1>p, <1>m, <1>2, <1>3, ClosedFacts, EmptyWire, MoveKeeps, Zenon DEF Reads

\* A step of the page alone.
LEMMA PageAlone ==
  ASSUME StreamInv, NEW r \in Requests, NEW p \in Pages,
         page' = [page EXCEPT ![r] = p], UNCHANGED <<logVars, stream, wire, faults>>,
         StreamOK(p, stream[r], wire[r], log[r], ended[r]),
         PageOK(p, stream[r], log[r], ended[r])
  PROVE  StreamInv'
<1>1. /\ stream[r] \in Streams /\ wire[r] \in Seq(Events)
      /\ WireOK(stream[r], wire[r], log[r])
  BY ReaderFacts, Zenon
<1>2. /\ stream = [stream EXCEPT ![r] = stream[r]] /\ wire = [wire EXCEPT ![r] = wire[r]]
      /\ faults \in 0 .. MaxFaults
  BY DEF StreamInv, StreamTypeOK
<1>3. ReaderMoves(r, p, stream[r], wire[r])
  BY <1>2 DEF ReaderMoves
<1>4. Reads(p, stream[r], wire[r], log[r], ended[r])
  BY <1>1, Zenon DEF Reads
<1> QED
  BY <1>1, <1>3, <1>4, MoveKeeps, Zenon

\* The page reads the conversation.
LEMMA ReadRowKeeps ==
  ASSUME StreamInv, NEW r \in Requests, ReadRow(r)
  PROVE  StreamInv'
<1>1. /\ page[r] \in Pages /\ ended[r] \in BOOLEAN
      /\ StreamOK(page[r], stream[r], wire[r], log[r], ended[r])
      /\ PageOK(page[r], stream[r], log[r], ended[r])
  BY ReaderFacts, Zenon
<1>2. /\ page[r].pc = "row"
      /\ page' = [page EXCEPT ![r] = [page[r] EXCEPT !.pc = "messages", !.active = ~ended[r]]]
      /\ UNCHANGED <<logVars, stream, wire, faults>>
  BY DEF ReadRow
<1>3. "messages" \in PagePcs /\ (~ended[r]) \in BOOLEAN
  BY DEF PagePcs
<1>p. PICK p : p = [page[r] EXCEPT !.pc = "messages", !.active = ~ended[r]]
  BY Zenon
<1>4. LET q == [page[r] EXCEPT !.pc = "messages", !.active = ~ended[r]]
      IN  /\ q \in Pages /\ q.pc = "messages" /\ q.active = ~ended[r]
          /\ q.why = page[r].why /\ q.last = page[r].last /\ q.cursor = page[r].cursor
  BY <1>1, <1>3, Zenon DEF Pages, PagePcs
<1>5. /\ p \in Pages /\ p.pc = "messages" /\ p.active = ~ended[r] /\ p.why = page[r].why
      /\ p.last = page[r].last /\ p.cursor = page[r].cursor
  BY <1>4, <1>p, Zenon
<1>6. page' = [page EXCEPT ![r] = p]
  BY <1>2, <1>p, Zenon
<1>7. StreamOK(p, stream[r], wire[r], log[r], ended[r])
  BY <1>1, <1>5 DEF StreamOK
<1>8. PageOK(p, stream[r], log[r], ended[r])
  <2>1. p.last + 1 <= Len(log[r]) /\ p.cursor + 1 <= Len(log[r]) /\ (p.why = "refresh" => ended[r])
    BY <1>1, <1>5 DEF PageOK
  <2>2. (~p.active => ended[r]) /\ (ended[r] => ~p.active)
    BY <1>5, Zenon
  <2>3. p.pc = "messages"
    BY <1>5
  <2> QED BY <2>1, <2>2, <2>3 DEF PageOK
<1> QED
  BY <1>2, <1>5, <1>6, <1>7, <1>8, PageAlone, Zenon

\* The page reads the messages.
LEMMA ReadMessagesKeeps ==
  ASSUME StreamInv, NEW r \in Requests, ReadMessages(r)
  PROVE  StreamInv'
<1>1. /\ page[r] \in Pages /\ ended[r] \in BOOLEAN /\ log[r] \in Seq(EventTypes)
      /\ StreamOK(page[r], stream[r], wire[r], log[r], ended[r])
      /\ PageOK(page[r], stream[r], log[r], ended[r])
  BY ReaderFacts, Zenon
<1> DEFINE n == Deltas(log[r])
           b == page[r].active /\ ~ended[r]
<1>2. /\ page[r].pc = "messages"
      /\ page' = [page EXCEPT ![r] = [page[r] EXCEPT !.pc = "requests", !.text = n, !.bound = b]]
      /\ UNCHANGED <<logVars, stream, wire, faults>>
  BY DEF ReadMessages
<1>3. "requests" \in PagePcs /\ b \in BOOLEAN
  BY DEF PagePcs
<1>n. n \in Nat
  BY <1>1, DeltasOf, Zenon
<1> HIDE DEF n, b
<1>p. PICK p : p = [page[r] EXCEPT !.pc = "requests", !.text = n, !.bound = b]
  BY Zenon
<1>4. LET q == [page[r] EXCEPT !.pc = "requests", !.text = n, !.bound = b]
      IN  /\ q \in Pages /\ q.pc = "requests" /\ q.text = n /\ q.bound = b
          /\ q.why = page[r].why /\ q.last = page[r].last /\ q.active = page[r].active
          /\ q.cursor = page[r].cursor
  BY <1>1, <1>3, <1>n, Zenon DEF Pages, PagePcs
<1>5. /\ p \in Pages /\ p.pc = "requests" /\ p.active = page[r].active /\ p.why = page[r].why
      /\ p.last = page[r].last /\ p.text = n /\ p.cursor = page[r].cursor
  BY <1>4, <1>p, Zenon
<1>6. page' = [page EXCEPT ![r] = p]
  BY <1>2, <1>p, Zenon
<1>7. StreamOK(p, stream[r], wire[r], log[r], ended[r])
  BY <1>1, <1>5 DEF StreamOK
<1>8. PageOK(p, stream[r], log[r], ended[r])
  <2>1. p.text = Deltas(log[r]) /\ p.text <= Deltas(log[r])
    BY <1>5, <1>n DEF n
  <2>2. page[r].active \in BOOLEAN /\ page[r].why \in {"load", "hydrate", "refresh"}
    BY <1>1 DEF Pages
  <2> QED BY <1>1, <1>2, <1>5, <2>1, <2>2 DEF PageOK
<1> QED
  BY <1>2, <1>5, <1>6, <1>7, <1>8, PageAlone, Zenon

\* The page reads the requests, and goes on by what it read them for.
LEMMA ReadRequestsKeeps ==
  ASSUME StreamInv, NEW r \in Requests, ReadRequests(r)
  PROVE  StreamInv'
<1>1. /\ page[r] \in Pages /\ stream[r] \in Streams /\ ended[r] \in BOOLEAN /\ log[r] \in Seq(EventTypes)
      /\ StreamOK(page[r], stream[r], wire[r], log[r], ended[r])
      /\ PageOK(page[r], stream[r], log[r], ended[r])
  BY ReaderFacts, Zenon
<1>l. Len(log[r]) \in Nat /\ Len(log[r]) <= MaxDeltas + 2 /\ MaxDeltas \in Nat
  BY ReaderFacts, Zenon
<1> DEFINE n == IF page[r].active THEN Last(r) ELSE -1
           c == IF page[r].why = "load" /\ page[r].active THEN Last(r) ELSE page[r].cursor
           b == ~page[r].active
           x == CASE page[r].why = "hydrate" -> "consume"
                  [] page[r].why = "load" /\ page[r].active -> "open"
                  [] OTHER -> "done"
<1>2. /\ page[r].pc = "requests"
      /\ page' = [page EXCEPT ![r] = [page[r] EXCEPT !.last = n, !.cursor = c, !.over = b, !.pc = x]]
      /\ UNCHANGED <<logVars, stream, wire, faults>>
  BY DEF ReadRequests
<1>a. page[r].active \in BOOLEAN /\ page[r].why \in {"load", "hydrate", "refresh"} /\ page[r].text \in Nat
  BY <1>1 DEF Pages
<1>n. /\ n \in -1 .. MaxDeltas + 1 /\ n + 1 <= Len(log[r])
      /\ page[r].active => n + 1 = Len(log[r])
  BY <1>l, <1>a DEF Last
<1>c. c \in -1 .. MaxDeltas + 1 /\ c + 1 <= Len(log[r])
  <2>1. page[r].cursor \in -1 .. MaxDeltas + 1 /\ page[r].cursor + 1 <= Len(log[r])
    BY <1>1, FieldTypes, Zenon DEF PageOK
  <2> QED BY <1>l, <2>1 DEF Last
<1>b. b \in BOOLEAN /\ (b => ~page[r].active) /\ (~b => page[r].active)
  BY <1>a, Zenon
<1>x. /\ page[r].why = "hydrate" => x = "consume"
      /\ (page[r].why = "load" /\ page[r].active) => x = "open"
      /\ (page[r].why # "hydrate" /\ ~(page[r].why = "load" /\ page[r].active)) => x = "done"
  BY <1>a
<1>y. x \in PagePcs
  BY <1>x, <1>a DEF PagePcs
<1> HIDE DEF n, c, b, x
<1>p. PICK p : p = [page[r] EXCEPT !.last = n, !.cursor = c, !.over = b, !.pc = x]
  BY Zenon
<1>4. LET q == [page[r] EXCEPT !.last = n, !.cursor = c, !.over = b, !.pc = x]
      IN  /\ q \in Pages /\ q.pc = x /\ q.last = n /\ q.cursor = c /\ q.over = b
          /\ q.why = page[r].why /\ q.text = page[r].text
  BY <1>1, <1>n, <1>c, <1>b, <1>y, Zenon DEF Pages, PagePcs
<1>5. /\ p \in Pages /\ p.pc = x /\ p.last = n /\ p.cursor = c /\ p.over = b
      /\ p.why = page[r].why /\ p.text = page[r].text
  BY <1>4, <1>p, Zenon
<1>6. page' = [page EXCEPT ![r] = p]
  BY <1>2, <1>p, Zenon
<1>7. StreamOK(p, stream[r], wire[r], log[r], ended[r])
  <2>1. p.pc # "failed"
    BY <1>5, <1>x, <1>a
  <2> QED BY <1>1, <1>5, <2>1 DEF StreamOK
<1>8. PageOK(p, stream[r], log[r], ended[r])
  <2>1. /\ page[r].text <= Deltas(log[r])
        /\ ~page[r].active => page[r].text = Deltas(log[r]) /\ ended[r]
        /\ page[r].why = "refresh" => ended[r] /\ ~page[r].active
    BY <1>1, <1>2 DEF PageOK
  <2>2. Deltas(log[r]) = DeltasTo(log[r], Len(log[r]))
    BY <1>1, DeltasOf, Zenon
  <2>3. p.last + 1 <= Len(log[r]) /\ p.cursor + 1 <= Len(log[r]) /\ (p.why = "refresh" => ended[r])
    BY <1>n, <1>c, <1>5, <2>1
  <2>4. CASE page[r].why = "hydrate"
    <3>1. p.pc = "consume"
      BY <1>x, <1>5, <2>4
    <3>2. ASSUME ~p.over PROVE p.text <= DeltasTo(log[r], p.last + 1)
      <4>1. page[r].active
        BY <1>b, <1>5, <3>2, Zenon
      <4> QED BY <1>n, <1>5, <2>1, <2>2, <4>1
    <3> QED BY <2>3, <3>1, <3>2 DEF PageOK
  <2>5. CASE page[r].why = "load" /\ page[r].active
    <3>1. p.pc = "open" /\ p.why = "load"
      BY <1>x, <1>5, <2>5
    <3> QED BY <2>3, <3>1 DEF PageOK
  <2>6. CASE page[r].why # "hydrate" /\ ~(page[r].why = "load" /\ page[r].active)
    <3>1. p.pc = "done" /\ ~page[r].active
      BY <1>a, <1>x, <1>5, <2>1, <2>6
    <3> QED BY <1>5, <2>1, <2>3, <3>1 DEF PageOK
  <2> QED BY <2>4, <2>5, <2>6
<1> QED
  BY <1>2, <1>5, <1>6, <1>7, <1>8, PageAlone, Zenon

\* A page that opens a stream reads the conversation again.
LEMMA Hydrates ==
  ASSUME StreamInv, NEW r \in Requests, NEW b \in BOOLEAN, Hydrate(r, b)
  PROVE  \E p \in Pages : /\ page' = [page EXCEPT ![r] = p]
                          /\ p.pc = "row" /\ p.why = "hydrate" /\ p.last = page[r].last
                          /\ p.cursor = page[r].cursor
<1>1. page[r] \in Pages
  BY ReaderFacts, Zenon
<1>2. page' = [page EXCEPT ![r] = [page[r] EXCEPT !.pc = "row", !.why = "hydrate", !.claimed = b]]
  BY DEF Hydrate
<1>3. LET q == [page[r] EXCEPT !.pc = "row", !.why = "hydrate", !.claimed = b]
      IN  q \in Pages /\ q.pc = "row" /\ q.why = "hydrate" /\ q.last = page[r].last
          /\ q.cursor = page[r].cursor
  BY <1>1, Zenon DEF Pages
<1> QED
  BY <1>2, <1>3, Zenon

\* The page resumes or sends.
LEMMA OpensKeep ==
  ASSUME StreamInv, NEW r \in Requests, Resume(r) \/ Send(r)
  PROVE  StreamInv'
<1>1. /\ page[r] \in Pages /\ stream[r] \in Streams /\ log[r] \in Seq(EventTypes)
      /\ StreamOK(page[r], stream[r], wire[r], log[r], ended[r])
      /\ PageOK(page[r], stream[r], log[r], ended[r])
  BY ReaderFacts, Zenon
<1>l. Len(log[r]) \in Nat /\ Len(log[r]) <= MaxDeltas + 2 /\ MaxDeltas \in Nat
  BY ReaderFacts, Zenon
<1>2. page[r].pc \in {"open", "closed"} /\ \E b \in BOOLEAN : Hydrate(r, b)
  BY DEF Resume, Send
<1>3. wire[r] = <<>> /\ wire' = wire /\ UNCHANGED logVars /\ faults' = faults
  BY <1>1, <1>2 DEF StreamOK, PageOK, Resume, Send
<1>f. /\ page[r].last + 1 <= Len(log[r])
      /\ page[r].cursor \in Int /\ page[r].cursor >= -1 /\ page[r].cursor + 1 <= Len(log[r])
  BY <1>1, <1>l, FieldTypes DEF PageOK
<1>p. PICK p \in Pages : /\ page' = [page EXCEPT ![r] = p]
                         /\ p.pc = "row" /\ p.why = "hydrate" /\ p.last = page[r].last
                          /\ p.cursor = page[r].cursor
  BY <1>2, Hydrates, Zenon
<1>s. PICK s \in Streams : /\ stream' = [stream EXCEPT ![r] = s]
                           /\ s.pc \in {"read", "ended"} /\ (s.pc = "ended" => ended[r])
                           /\ s.expected <= Len(log[r])
                           /\ s.cursor >= 0 => s.expected >= 1
  <2>1. CASE Resume(r)
    <3> DEFINE x == IF ended[r] /\ page[r].cursor >= Last(r) THEN "ended" ELSE "read"
               s == [pc |-> x, cursor |-> page[r].cursor, expected |-> page[r].cursor + 1, empty |-> FALSE]
    <3>1. stream' = [stream EXCEPT ![r] = s]
      BY <2>1 DEF Resume
    <3>2. x \in {"read", "ended"} /\ (x = "ended" => ended[r])
      OBVIOUS
    <3>3. page[r].cursor \in -1 .. MaxDeltas + 1 /\ page[r].cursor + 1 \in 0 .. MaxDeltas + 2
      BY <1>f, <1>l
    <3> HIDE DEF x
    <3>4. s \in Streams /\ s.pc = x /\ s.expected = page[r].cursor + 1 /\ s.cursor = page[r].cursor
      BY <3>2, <3>3 DEF Streams
    <3> HIDE DEF s
    <3>5. s.expected <= Len(log[r]) /\ (s.cursor >= 0 => s.expected >= 1)
      BY <1>f, <3>4
    <3>6. s.pc \in {"read", "ended"} /\ (s.pc = "ended" => ended[r])
      BY <3>2, <3>4
    <3> QED BY <3>1, <3>4, <3>5, <3>6, Zenon
  <2>2. CASE Send(r)
    <3> DEFINE s == [NoStream EXCEPT !.pc = "read"]
    <3>1. stream' = [stream EXCEPT ![r] = s]
      BY <2>2 DEF Send
    <3>2. s \in Streams /\ s.pc = "read" /\ s.expected = 0 /\ s.cursor = -1
      BY ClosedFacts, Zenon DEF Streams
    <3> HIDE DEF s
    <3>3. s.expected <= Len(log[r]) /\ ~(s.cursor >= 0) /\ s.pc \in {"read", "ended"} /\ s.pc # "ended"
      BY <1>l, <3>2
    <3> QED BY <3>1, <3>2, <3>3, Zenon
  <2> QED BY <2>1, <2>2
<1>m. ReaderMoves(r, p, s, <<>>)
  <2>1. wire = [wire EXCEPT ![r] = <<>>] /\ faults \in 0 .. MaxFaults
    BY <1>3 DEF StreamInv, StreamTypeOK
  <2> QED BY <1>3, <1>p, <1>s, <2>1 DEF ReaderMoves
<1>4. StreamOK(p, s, <<>>, log[r], ended[r])
  BY <1>p, <1>s DEF StreamOK
<1>5. PageOK(p, s, log[r], ended[r])
  BY <1>p, <1>f DEF PageOK
<1> QED
  BY <1>p, <1>s, <1>m, <1>4, <1>5, EmptyWire, MoveKeeps, Zenon DEF Reads

-----------------------------------------------------------------------------
(* The stream's steps.                                                     *)

\* A step of the stream alone that leaves its numbers as they are.
LEMMA StreamAlone ==
  ASSUME StreamInv, NEW r \in Requests, NEW x \in {"read", "ended", "cut", "error"},
         stream[r].pc # "none", page[r].pc # "failed",
         x = "ended" => ended[r],
         stream' = [stream EXCEPT ![r].pc = x],
         wire' = wire \/ wire' = [wire EXCEPT ![r] = <<>>],
         UNCHANGED <<logVars, page>>, faults' \in 0 .. MaxFaults
  PROVE  StreamInv'
<1>1. /\ page[r] \in Pages /\ stream[r] \in Streams /\ wire[r] \in Seq(Events)
      /\ WireOK(stream[r], wire[r], log[r])
      /\ StreamOK(page[r], stream[r], wire[r], log[r], ended[r])
      /\ PageOK(page[r], stream[r], log[r], ended[r])
  BY ReaderFacts, Zenon
<1>s. PICK s : s = [stream[r] EXCEPT !.pc = x]
  BY Zenon
<1>2. LET q == [stream[r] EXCEPT !.pc = x]
      IN  q \in Streams /\ q.pc = x /\ q.cursor = stream[r].cursor /\ q.expected = stream[r].expected
  BY <1>1, Zenon DEF Streams
<1>3. /\ s \in Streams /\ s.pc = x /\ s.cursor = stream[r].cursor /\ s.expected = stream[r].expected
      /\ stream' = [stream EXCEPT ![r] = s]
  BY <1>s, <1>2, Zenon
<1>w. PICK w : /\ w = wire[r] \/ w = <<>>
               /\ wire' = [wire EXCEPT ![r] = w]
  <2>1. wire = [wire EXCEPT ![r] = wire[r]]
    BY DEF StreamInv, StreamTypeOK
  <2> QED BY <2>1, Zenon
<1>4. page = [page EXCEPT ![r] = page[r]]
  BY DEF StreamInv, StreamTypeOK
<1>m. ReaderMoves(r, page[r], s, w)
  <2>1. page' = page /\ UNCHANGED logVars
    BY Zenon DEF logVars
  <2> QED BY <1>3, <1>w, <1>4, <2>1, Zenon DEF ReaderMoves
<1>5. w \in Seq(Events) /\ WireOK(s, w, log[r])
  <2>1. CASE w = wire[r]
    BY <1>1, <1>3, <2>1 DEF WireOK
  <2>2. CASE w = <<>>
    BY <2>2, EmptyWire
  <2> QED BY <1>w, <2>1, <2>2
<1>6. StreamOK(page[r], s, w, log[r], ended[r])
  <2>1. page[r].why # "load"
    BY <1>1 DEF StreamOK
  <2> QED BY <1>1, <1>3, <1>w, <2>1 DEF StreamOK
<1>7. PageOK(page[r], s, log[r], ended[r])
  BY <1>1, <1>3 DEF PageOK
<1> QED
  BY <1>1, <1>3, <1>m, <1>5, <1>6, <1>7, MoveKeeps, Zenon DEF Reads

\* The stream refreshes, is cut or its connection drops.
LEMMA StreamTurns ==
  ASSUME StreamInv, NEW r \in Requests, Refresh(r) \/ Deadline(r) \/ Drop(r)
  PROVE  StreamInv'
<1>1. /\ page[r] \in Pages /\ stream[r] \in Streams
      /\ StreamOK(page[r], stream[r], wire[r], log[r], ended[r])
  BY ReaderFacts, Zenon
<1>2. /\ stream[r].pc \in {"read", "refresh", "ended"} /\ stream[r].pc # "none" /\ page[r].pc # "failed"
  BY <1>1 DEF Refresh, Deadline, Drop, StreamOK
<1>3. /\ UNCHANGED <<logVars, page>>
      /\ wire' = wire \/ wire' = [wire EXCEPT ![r] = <<>>]
  BY DEF Refresh, Deadline, Drop
<1>4. faults' \in 0 .. MaxFaults
  BY MaxFaultsAssumption DEF Refresh, Deadline, Drop, StreamInv, StreamTypeOK
<1>5. CASE Deadline(r) \/ Drop(r)
  <2>1. stream' = [stream EXCEPT ![r].pc = "cut"]
    BY <1>5 DEF Deadline, Drop
  <2>2. "cut" \in {"read", "ended", "cut", "error"} /\ "cut" # "ended"
    OBVIOUS
  <2> QED BY <1>2, <1>3, <1>4, <2>1, <2>2, StreamAlone, Zenon
<1>6. CASE Refresh(r)
  <2> DEFINE x == CASE ended[r] /\ stream[r].expected > Last(r) -> "ended"
                    [] ended[r] /\ stream[r].expected <= Last(r) /\ stream[r].empty -> "error"
                    [] OTHER -> "read"
  <2>1. stream' = [stream EXCEPT ![r].pc = x]
    BY <1>6 DEF Refresh
  <2>2. x \in {"read", "ended", "cut", "error"} /\ (x = "ended" => ended[r])
    <3>1. CASE ended[r] /\ stream[r].expected > Last(r)
      <4>1. ~(ended[r] /\ stream[r].expected <= Last(r) /\ stream[r].empty)
        <5>1. stream[r].expected \in Int /\ Len(log[r]) \in Int
          BY ReaderFacts, FieldTypes
        <5> QED BY <3>1, <5>1 DEF Last
      <4>2. x = "ended"
        BY <3>1, <4>1
      <4> QED BY <3>1, <4>2
    <3>2. CASE ~(ended[r] /\ stream[r].expected > Last(r)) /\ ended[r] /\ stream[r].expected <= Last(r)
               /\ stream[r].empty
      <4>1. x = "error"
        BY <3>2
      <4> QED BY <4>1
    <3>3. CASE /\ ~(ended[r] /\ stream[r].expected > Last(r))
               /\ ~(ended[r] /\ stream[r].expected <= Last(r) /\ stream[r].empty)
      <4>1. x = "read"
        BY <3>3
      <4> QED BY <4>1
    <3> QED BY <3>1, <3>2, <3>3, Zenon
  <2> HIDE DEF x
  <2> QED BY <1>2, <1>3, <1>4, <2>1, <2>2, StreamAlone, Zenon
<1> QED
  BY <1>5, <1>6

\* The rows a stream reads are those of the log after the ones it has sent, and
\* they pass its validation.
LEMMA RowsFacts ==
  ASSUME StreamInv, NEW r \in Requests
  PROVE  /\ Rows(r) \in Seq(EventTypes)
         /\ Len(Rows(r)) \in Nat
         /\ stream[r].expected + Len(Rows(r)) = Len(log[r])
         /\ \A i \in 1 .. Len(Rows(r)) : Rows(r)[i] = log[r][stream[r].expected + i]
         /\ Validated(r, Rows(r))
<1> DEFINE l == log[r] n == stream[r].expected rows == Rows(r)
<1>1. /\ l \in Seq(EventTypes) /\ Len(l) \in Nat /\ n \in Nat /\ n <= Len(l)
  BY ReaderFacts, FieldTypes DEF StreamOK
<1>2. \A i \in 1 .. Len(l) : /\ l[i] = "started" <=> i = 1
                             /\ l[i] \in TerminalEvents <=> ended[r] /\ i = Len(l)
  BY ReaderFacts DEF WellFormed
<1>3. rows = SubSeq(l, n + 1, Len(l))
  BY DEF Rows
<1> HIDE DEF l, n, rows
<1>4. /\ rows \in Seq(EventTypes) /\ Len(rows) = Len(l) - n
      /\ \A i \in 1 .. Len(rows) : rows[i] = l[n + i]
  <2>1. CASE n < Len(l)
    BY <1>1, <1>3, <2>1
  <2>2. CASE n = Len(l)
    <3>1. Len(SubSeq(l, n + 1, Len(l))) = 0 /\ SubSeq(l, n + 1, Len(l)) \in Seq(EventTypes)
      BY <1>1, <2>2
    <3> QED BY <1>1, <1>3, <2>2, <3>1
  <2> QED BY <1>1, <2>1, <2>2
<1>5. Validated(r, rows)
  <2>1. ASSUME NEW i \in 1 .. Len(rows)
        PROVE  /\ rows[i] = "started" <=> n + i = 1
               /\ \A k \in 1 .. i - 1 : rows[k] \notin TerminalEvents
    <3>1. n + i \in 1 .. Len(l) /\ i \in Nat
      BY <1>1, <1>4
    <3>2. rows[i] = "started" <=> n + i = 1
      BY <1>2, <1>4, <3>1
    <3>3. ASSUME NEW k \in 1 .. i - 1 PROVE rows[k] \notin TerminalEvents
      <4>1. n + k \in 1 .. Len(l) /\ n + k # Len(l) /\ rows[k] = l[n + k]
        BY <1>1, <1>4, <3>1
      <4> QED BY <1>2, <4>1
    <3> QED BY <3>2, <3>3
  <2> QED BY <2>1 DEF Validated, n
<1> QED
  BY <1>1, <1>4, <1>5 DEF l, n, rows

\* A sequence of events after another.
LEMMA Joined ==
  ASSUME NEW a \in Seq(Events), NEW b \in Seq(Events)
  PROVE  /\ a \o b \in Seq(Events) /\ Len(a \o b) = Len(a) + Len(b) /\ Len(a) \in Nat
         /\ \A i \in 1 .. Len(a \o b) : (a \o b)[i] = IF i <= Len(a) THEN a[i] ELSE b[i - Len(a)]
OBVIOUS

\* The stream sends the rows it has not sent yet.
LEMMA ReadEventsKeeps ==
  ASSUME StreamInv, NEW r \in Requests, ReadEvents(r)
  PROVE  StreamInv'
<1> DEFINE l == log[r] n == stream[r].expected rows == Rows(r)
           more == [i \in 1 .. Len(rows) |-> [seq |-> n + i - 1, type |-> rows[i]]]
           w == wire[r] \o more
<1>1. /\ page[r] \in Pages /\ stream[r] \in Streams /\ wire[r] \in Seq(Events)
      /\ l \in Seq(EventTypes) /\ Len(l) \in Nat /\ Len(l) <= MaxDeltas + 2 /\ MaxDeltas \in Nat
      /\ WireOK(stream[r], wire[r], l)
      /\ StreamOK(page[r], stream[r], wire[r], l, ended[r])
      /\ PageOK(page[r], stream[r], l, ended[r])
  BY ReaderFacts, Zenon
<1>2. /\ rows \in Seq(EventTypes) /\ Len(rows) \in Nat /\ n + Len(rows) = Len(l)
      /\ \A i \in 1 .. Len(rows) : rows[i] = l[n + i]
      /\ Validated(r, rows)
  BY RowsFacts, Zenon
<1>3. n \in Nat /\ stream[r].cursor \in Int
  BY <1>1, FieldTypes
<1> DEFINE k == IF \E i \in 1 .. Len(rows) : rows[i] \in TerminalEvents THEN "ended" ELSE "refresh"
<1>4. /\ stream[r].pc = "read" /\ UNCHANGED <<logVars, page, faults>>
      /\ wire' = [wire EXCEPT ![r] = wire[r] \o more]
      /\ stream' = [stream EXCEPT ![r] = [stream[r] EXCEPT !.expected = n + Len(rows),
                                                          !.empty = rows = <<>>, !.pc = k]]
  <2>1. stream[r].pc = "read" /\ UNCHANGED <<logVars, page, faults>>
    BY DEF ReadEvents
  <2>2. wire' = [wire EXCEPT ![r] = wire[r] \o more]
    BY <1>2, Zenon DEF ReadEvents
  <2>3. stream' = [stream EXCEPT ![r] = [stream[r] EXCEPT !.expected = n + Len(rows),
                                                         !.empty = rows = <<>>, !.pc = k]]
    BY <1>2, Zenon DEF ReadEvents
  <2> QED BY <2>1, <2>2, <2>3, Zenon
<1>5. k \in {"ended", "refresh"} /\ (k = "ended" => ended[r])
  <2>1. CASE \E i \in 1 .. Len(rows) : rows[i] \in TerminalEvents
    <3>1. PICK i \in 1 .. Len(rows) : rows[i] \in TerminalEvents
      BY <2>1
    <3>2. n + i \in 1 .. Len(l) /\ rows[i] = l[n + i]
      <4> HIDE DEF rows, l, n
      <4> QED BY <1>1, <1>2, <1>3
    <3>3. ended[r]
      BY <3>1, <3>2, ReaderFacts DEF WellFormed
    <3>4. k = "ended"
      BY <2>1
    <3> QED BY <3>3, <3>4
  <2>2. CASE ~\E i \in 1 .. Len(rows) : rows[i] \in TerminalEvents
    <3>1. k = "refresh"
      BY <2>2
    <3> QED BY <3>1
  <2> QED BY <2>1, <2>2, Zenon
<1>6. Len(more) = Len(rows) /\ more \in Seq(Events)
  <2>1. \A i \in 1 .. Len(rows) : n + i - 1 \in 0 .. MaxDeltas + 1 /\ rows[i] \in EventTypes
    <3> HIDE DEF rows, l, n
    <3> QED BY <1>1, <1>2, <1>3
  <2>2. \A i \in 1 .. Len(rows) : [seq |-> n + i - 1, type |-> rows[i]] \in Events
    BY <2>1 DEF Events
  <2>3. more \in [1 .. Len(rows) -> Events]
    BY <2>2, Zenon
  <2> HIDE DEF more, rows
  <2> QED BY <1>2, <2>3
<1>7. \A i \in 1 .. Len(rows) : /\ more[i].seq = n + i - 1
                                /\ more[i].type = rows[i]
  BY Zenon
<1> HIDE DEF more, rows, l, n, k
<1>s. PICK s : s = [stream[r] EXCEPT !.expected = n + Len(rows), !.empty = rows = <<>>, !.pc = k]
  BY Zenon
<1>8. s \in Streams /\ s.pc = k /\ s.cursor = stream[r].cursor /\ s.expected = Len(l)
  <2>1. /\ n + Len(rows) \in 0 .. MaxDeltas + 2 /\ (rows = <<>>) \in BOOLEAN
        /\ k \in {"none", "read", "refresh", "ended", "cut", "error", "invalid"}
    BY <1>1, <1>2, <1>3, <1>5
  <2>2. LET q == [stream[r] EXCEPT !.expected = n + Len(rows), !.empty = rows = <<>>, !.pc = k]
        IN  q \in Streams /\ q.pc = k /\ q.cursor = stream[r].cursor /\ q.expected = n + Len(rows)
    BY <1>1, <2>1, Zenon DEF Streams
  <2> QED BY <1>2, <1>s, <2>2, Zenon
<1>9. w \in Seq(Events) /\ WireOK(s, w, l)
  <2>1. /\ w \in Seq(Events) /\ Len(w) = Len(wire[r]) + Len(more) /\ Len(wire[r]) \in Nat
        /\ \A i \in 1 .. Len(w) : w[i] = IF i <= Len(wire[r]) THEN wire[r][i] ELSE more[i - Len(wire[r])]
    BY <1>1, <1>6, Joined, Zenon
  <2>2. ASSUME NEW i \in 1 .. Len(w)
        PROVE  /\ w[i].seq + 1 <= Len(l) /\ w[i].type = l[w[i].seq + 1]
               /\ s.cursor >= 0 => w[i].seq >= 1
    <3>1. CASE i <= Len(wire[r])
      <4>1. w[i] = wire[r][i] /\ i \in 1 .. Len(wire[r])
        BY <2>1, <3>1
      <4> HIDE DEF w
      <4> QED BY <1>1, <1>8, <4>1 DEF WireOK
    <3>2. CASE i > Len(wire[r])
      <4>1. PICK j \in 1 .. Len(rows) : w[i] = more[j]
        <5>1. i - Len(wire[r]) \in 1 .. Len(rows)
          BY <1>2, <1>6, <2>1, <3>2
        <5>2. w[i] = more[i - Len(wire[r])]
          BY <2>1, <3>2
        <5> QED BY <5>1, <5>2, Zenon
      <4>2. w[i].seq = n + j - 1 /\ w[i].type = l[n + j]
        BY <1>2, <1>7, <4>1, Zenon
      <4> HIDE DEF w
      <4>3. w[i].seq + 1 = n + j
        BY <1>2, <1>3, <4>2
      <4>4. s.cursor >= 0 => n >= 1
        BY <1>1, <1>8 DEF StreamOK, n
      <4> QED BY <1>1, <1>2, <1>3, <4>2, <4>3, <4>4
    <3> QED BY <2>1, <3>1, <3>2
  <2> HIDE DEF w
  <2> QED BY <2>1, <2>2 DEF WireOK
<1>10. page[r].why # "load" /\ page[r].pc # "failed"
  BY <1>1, <1>4 DEF StreamOK
<1>11. StreamOK(page[r], s, w, l, ended[r])
  <2> HIDE DEF w
  <2>1. Len(l) <= Len(l) /\ (s.cursor >= 0 => Len(l) >= 1) /\ k # "invalid"
    <3>1. s.cursor >= 0 => n >= 1
      BY <1>1, <1>8 DEF StreamOK, n
    <3> QED BY <1>1, <1>2, <1>3, <1>5, <3>1
  <2> QED BY <1>5, <1>8, <1>10, <2>1, Zenon DEF StreamOK
<1>12. PageOK(page[r], s, l, ended[r])
  BY <1>1, <1>8, Zenon DEF PageOK
<1>13. ReaderMoves(r, page[r], s, w)
  <2>1. page = [page EXCEPT ![r] = page[r]]
    BY DEF StreamInv, StreamTypeOK
  <2>2. page' = page /\ UNCHANGED logVars /\ faults' = faults
    BY <1>4, Zenon DEF logVars
  <2>3. faults' \in 0 .. MaxFaults
    BY <2>2 DEF StreamInv, StreamTypeOK
  <2> QED BY <1>4, <1>s, <2>1, <2>2, <2>3, Zenon DEF ReaderMoves
<1> HIDE DEF w
<1>14. Reads(page[r], s, w, l, ended[r])
  BY <1>9, <1>11, <1>12, Zenon DEF Reads
<1>15. Reads(page[r], s, w, log[r], ended[r])
  BY <1>14, Zenon DEF l
<1>16. page[r] \in Pages /\ s \in Streams /\ w \in Seq(Events)
  BY <1>1, <1>8, <1>9
<1> QED
  BY <1>13, <1>15, <1>16, MoveKeeps, Zenon

-----------------------------------------------------------------------------
(* The page consumes the stream.                                           *)

\* The page applies the next event of the wire, or skips it.
LEMMA ReceiveKeeps ==
  ASSUME StreamInv, NEW r \in Requests, Receive(r)
  PROVE  StreamInv'
<1> DEFINE l == log[r] e == Head(wire[r]) w == Tail(wire[r]) s == stream[r]
           p == Reduce(page[r], e, Deltas(l))
<1>1. /\ page[r] \in Pages /\ s \in Streams /\ wire[r] \in Seq(Events)
      /\ l \in Seq(EventTypes) /\ Len(l) \in Nat /\ MaxDeltas \in Nat
      /\ WellFormed(l, ended[r])
      /\ WireOK(s, wire[r], l)
      /\ StreamOK(page[r], s, wire[r], l, ended[r])
      /\ PageOK(page[r], s, l, ended[r])
  BY ReaderFacts, Zenon
<1>2. /\ page[r].pc = "consume" /\ wire[r] # <<>>
      /\ page' = [page EXCEPT ![r] = p] /\ wire' = [wire EXCEPT ![r] = w]
      /\ UNCHANGED <<logVars, stream, faults>>
  BY DEF Receive
<1>3. /\ e \in Events /\ e = wire[r][1] /\ 1 \in 1 .. Len(wire[r])
      /\ w \in Seq(Events) /\ Len(w) = Len(wire[r]) - 1 /\ Len(wire[r]) \in Nat
      /\ \A i \in 1 .. Len(w) : w[i] = wire[r][i + 1] /\ i + 1 \in 1 .. Len(wire[r])
  BY <1>1, <1>2
<1>4. /\ e.seq \in Nat /\ e.seq \in -1 .. MaxDeltas + 1
      /\ e.seq + 1 <= Len(l) /\ e.type = l[e.seq + 1] /\ (s.cursor >= 0 => e.seq >= 1)
  <2>1. e.seq \in 0 .. MaxDeltas + 1
    BY <1>3 DEF Events
  <2>2. e.seq + 1 <= Len(l) /\ e.type = l[e.seq + 1] /\ (s.cursor >= 0 => e.seq >= 1)
    BY <1>1, <1>3, Zenon DEF WireOK
  <2> QED BY <1>1, <2>1, <2>2
<1>5. WireOK(s, w, l)
  <2> HIDE DEF w, l, s
  <2> QED BY <1>1, <1>3, Zenon DEF WireOK
<1>6. page[r].why # "load"
  BY <1>1, <1>2 DEF StreamOK
<1>7. /\ page[r].last \in Int /\ page[r].last >= -1 /\ page[r].text \in Nat
      /\ page[r].bound \in BOOLEAN /\ page[r].over \in BOOLEAN
      /\ page[r].why \in {"load", "hydrate", "refresh"}
      /\ s.cursor \in Int /\ Deltas(l) \in Nat
  BY <1>1, FieldTypes, DeltasOf
<1> HIDE DEF e, w, s, l
<1>8. CASE p = page[r]
  <2>1. StreamOK(page[r], s, w, l, ended[r])
    BY <1>1, <1>2, <1>6 DEF StreamOK
  <2>2. Reads(p, s, w, l, ended[r])
    BY <1>1, <1>5, <1>8, <2>1, Zenon DEF Reads
  <2>3. p \in Pages
    BY <1>1, <1>8
  <2> HIDE DEF p
  <2>4. ReaderMoves(r, p, s, w)
    <3>1. stream' = [stream EXCEPT ![r] = s]
      BY <1>2 DEF StreamInv, StreamTypeOK, s
    <3>2. faults' \in 0 .. MaxFaults /\ UNCHANGED logVars
      BY <1>2 DEF StreamInv, StreamTypeOK, logVars
    <3> QED BY <1>2, <3>1, <3>2, Zenon DEF ReaderMoves
  <2>5. Reads(p, s, w, log[r], ended[r])
    BY <2>2, Zenon DEF l
  <2> QED BY <1>1, <1>3, <2>3, <2>4, <2>5, MoveKeeps, Zenon
<1>9. CASE p # page[r]
  <2>1. /\ ~page[r].over
        /\ page[r].bound \/ e.type = "started"
        /\ page[r].bound => e.seq = page[r].last + 1
    BY <1>7, <1>9 DEF Reduce
  <2> DEFINE tx == CASE e.type = "delta" -> page[r].text + 1
                     [] e.type = "completed" -> Deltas(l)
                     [] OTHER -> page[r].text
             q == [page[r] EXCEPT !.bound = TRUE, !.last = e.seq, !.cursor = e.seq, !.text = tx,
                                  !.over = e.type \in TerminalEvents]
  <2>2. p = q
    BY <1>9, Zenon DEF Reduce
  <2>3. /\ e.type = "delta" => tx = page[r].text + 1
        /\ e.type = "completed" => tx = Deltas(l)
        /\ e.type \notin {"delta", "completed"} => tx = page[r].text
    <3>1. "delta" # "completed"
      OBVIOUS
    <3>2. CASE e.type = "delta"
      <4>1. e.type # "completed"
        BY <3>1, <3>2
      <4> QED BY <3>2, <4>1
    <3>3. CASE e.type = "completed"
      <4>1. e.type # "delta"
        BY <3>1, <3>3
      <4> QED BY <3>3, <4>1
    <3>4. CASE e.type \notin {"delta", "completed"}
      <4>1. e.type # "delta" /\ e.type # "completed"
        BY <3>4
      <4> QED BY <4>1
    <3> QED BY <3>2, <3>3, <3>4, Zenon
  <2>4. tx \in Nat
    BY <1>7, <2>3
  <2> HIDE DEF tx
  <2>5. LET x == [page[r] EXCEPT !.bound = TRUE, !.last = e.seq, !.cursor = e.seq, !.text = tx,
                                 !.over = e.type \in TerminalEvents]
        IN  x \in Pages /\ x.pc = page[r].pc /\ x.why = page[r].why /\ x.last = e.seq /\ x.text = tx
            /\ x.cursor = e.seq /\ x.over = (e.type \in TerminalEvents)
    <3>1. (e.type \in TerminalEvents) \in BOOLEAN /\ TRUE \in BOOLEAN
      OBVIOUS
    <3> QED BY <1>1, <1>4, <2>4, <3>1, Zenon DEF Pages
  <2>6. /\ p \in Pages /\ p.pc = "consume" /\ p.why = page[r].why /\ p.last = e.seq /\ p.text = tx
        /\ p.cursor = e.seq /\ p.over = (e.type \in TerminalEvents)
    BY <1>2, <2>2, <2>5, Zenon
  <2> HIDE DEF p, q
  <2>7. StreamOK(p, s, w, l, ended[r])
    BY <1>1, <1>6, <2>6 DEF StreamOK
  <2>8. ASSUME s.cursor >= 0, ~p.over PROVE p.text <= DeltasTo(l, p.last + 1)
    <3>1. e.seq >= 1 /\ e.seq + 1 \in 1 .. Len(l) /\ e.seq + 1 # 1
      BY <1>1, <1>4, <2>8
    <3>2. e.type # "started"
      BY <1>1, <1>4, <3>1 DEF WellFormed
    <3>3. e.seq = page[r].last + 1 /\ page[r].last + 1 \in Nat
      BY <1>7, <2>1, <3>2
    <3>4. page[r].text <= DeltasTo(l, e.seq)
      <4>1. page[r].text <= DeltasTo(l, page[r].last + 1)
        BY <1>1, <1>2, <2>1, <2>8 DEF PageOK
      <4> QED BY <3>3, <4>1
    <3>5. /\ DeltasTo(l, e.seq) <= DeltasTo(l, e.seq + 1)
          /\ l[e.seq + 1] = "delta" => DeltasTo(l, e.seq + 1) = DeltasTo(l, e.seq) + 1
      BY <1>4, DeltasNext, Zenon
    <3>6. DeltasTo(l, e.seq) \in Nat /\ DeltasTo(l, e.seq + 1) \in Nat
      <4>1. e.seq + 1 \in Nat
        BY <1>4
      <4> QED BY <1>4, <4>1, DeltasFinite, Zenon
    <3>7. e.type # "completed"
      <4>1. e.type \notin TerminalEvents
        BY <2>6, <2>8, Zenon
      <4> QED BY <4>1 DEF TerminalEvents
    <3>8. tx <= DeltasTo(l, e.seq + 1)
      <4>1. CASE e.type = "delta"
        <5>1. tx = page[r].text + 1 /\ l[e.seq + 1] = "delta"
          BY <1>4, <2>3, <4>1
        <5> QED BY <1>7, <3>4, <3>5, <3>6, <5>1
      <4>2. CASE e.type # "delta"
        <5>1. tx = page[r].text
          BY <2>3, <3>7, <4>2
        <5> QED BY <1>7, <3>4, <3>5, <3>6, <5>1
      <4> QED BY <4>1, <4>2
    <3> QED BY <2>6, <3>8
  <2>9. PageOK(p, s, l, ended[r])
    <3>1. p.last + 1 <= Len(l) /\ p.cursor + 1 <= Len(l) /\ (p.why = "refresh" => ended[r])
      BY <1>1, <1>4, <2>6 DEF PageOK
    <3> QED BY <2>6, <2>8, <3>1 DEF PageOK
  <2>10. ReaderMoves(r, p, s, w)
    <3>1. stream' = [stream EXCEPT ![r] = s]
      BY <1>2 DEF StreamInv, StreamTypeOK, s
    <3>2. faults' \in 0 .. MaxFaults /\ UNCHANGED logVars
      BY <1>2 DEF StreamInv, StreamTypeOK, logVars
    <3> QED BY <1>2, <3>1, <3>2, Zenon DEF ReaderMoves
  <2>11. Reads(p, s, w, log[r], ended[r])
    BY <1>5, <2>7, <2>9, Zenon DEF Reads, l
  <2> QED BY <1>1, <1>3, <2>6, <2>10, <2>11, MoveKeeps, Zenon
<1> QED
  BY <1>8, <1>9

\* The page gives up its stream: it is to resume, or waits for a reload.
Stops(r) ==
  \/ page' = [page EXCEPT ![r] = [page[r] EXCEPT !.pc = "open", !.why = "load"]]
  \/ page' = [page EXCEPT ![r] = [page[r] EXCEPT !.pc = "failed"]]

\* Such a page is in order, whatever it showed.
LEMMA StopKeeps ==
  ASSUME StreamInv, NEW r \in Requests, Stops(r), UNCHANGED logVars, faults' \in 0 .. MaxFaults,
         stream' = [stream EXCEPT ![r] = NoStream], wire' = [wire EXCEPT ![r] = <<>>]
  PROVE  StreamInv'
<1>1. /\ page[r] \in Pages /\ Len(log[r]) \in Nat
      /\ PageOK(page[r], stream[r], log[r], ended[r])
  BY ReaderFacts, Zenon
<1>2. /\ LET q == [page[r] EXCEPT !.pc = "open", !.why = "load"]
         IN  /\ q \in Pages /\ q.pc = "open" /\ q.why = "load"
             /\ q.last = page[r].last /\ q.cursor = page[r].cursor
      /\ LET q == [page[r] EXCEPT !.pc = "failed"]
         IN  /\ q \in Pages /\ q.pc = "failed" /\ q.why = page[r].why
             /\ q.last = page[r].last /\ q.cursor = page[r].cursor
  BY <1>1, Zenon DEF Pages
<1>p. PICK p \in Pages :
        /\ page' = [page EXCEPT ![r] = p]
        /\ (p.pc = "open" /\ p.why = "load") \/ (p.pc = "failed" /\ p.why = page[r].why)
        /\ p.last = page[r].last /\ p.cursor = page[r].cursor
  BY <1>2, Zenon DEF Stops
<1>m. ReaderMoves(r, p, NoStream, <<>>)
  BY <1>p, Zenon DEF ReaderMoves
<1>3. StreamOK(p, NoStream, <<>>, log[r], ended[r])
  BY <1>1, <1>p, ClosedFacts DEF StreamOK
<1>4. PageOK(p, NoStream, log[r], ended[r])
  BY <1>1, <1>p, ClosedFacts DEF PageOK
<1> QED
  BY <1>p, <1>m, <1>3, <1>4, ClosedFacts, EmptyWire, MoveKeeps, Zenon DEF Reads

\* The stream is over: the page refreshes, or shows an error.
LEMMA StreamOverKeeps ==
  ASSUME StreamInv, NEW r \in Requests, StreamOver(r)
  PROVE  StreamInv'
<1>1. /\ page[r] \in Pages /\ stream[r] \in Streams
      /\ StreamOK(page[r], stream[r], wire[r], log[r], ended[r])
      /\ PageOK(page[r], stream[r], log[r], ended[r])
  BY ReaderFacts, Zenon
<1>2. /\ page[r].pc = "consume" /\ wire[r] = <<>> /\ UNCHANGED <<logVars, wire, faults>>
  BY DEF StreamOver
<1>3. CASE /\ stream[r].pc = "ended"
           /\ page' = [page EXCEPT ![r] = [@ EXCEPT !.pc = "row", !.why = "refresh"]]
           /\ UNCHANGED stream
  <2>p. PICK p : p = [page[r] EXCEPT !.pc = "row", !.why = "refresh"]
    BY Zenon
  <2>1. LET q == [page[r] EXCEPT !.pc = "row", !.why = "refresh"]
        IN  q \in Pages /\ q.pc = "row" /\ q.why = "refresh" /\ q.last = page[r].last /\ q.cursor = page[r].cursor
    BY <1>1, Zenon DEF Pages
  <2>2. p \in Pages /\ p.pc = "row" /\ p.why = "refresh" /\ p.last = page[r].last /\ p.cursor = page[r].cursor
    BY <2>p, <2>1, Zenon
  <2>3. page' = [page EXCEPT ![r] = p]
    BY <1>3, <2>p, Zenon
  <2>4. StreamOK(p, stream[r], wire[r], log[r], ended[r])
    BY <1>1, <2>2 DEF StreamOK
  <2>5. PageOK(p, stream[r], log[r], ended[r])
    <3>1. ended[r]
      BY <1>1, <1>3 DEF StreamOK
    <3> QED BY <1>1, <2>2, <3>1 DEF PageOK
  <2> QED BY <1>2, <1>3, <2>2, <2>3, <2>4, <2>5, PageAlone, Zenon
<1>4. CASE Stops(r) /\ stream' = [stream EXCEPT ![r] = NoStream]
  <2>1. wire' = [wire EXCEPT ![r] = <<>>] /\ faults' \in 0 .. MaxFaults /\ UNCHANGED logVars
    BY <1>2 DEF StreamInv, StreamTypeOK
  <2> QED BY <1>4, <2>1, StopKeeps, Zenon
<1> QED
  BY <1>3, <1>4 DEF StreamOver, Stops

\* A request of the page fails.
LEMMA RequestFailsKeeps ==
  ASSUME StreamInv, NEW r \in Requests, RequestFails(r)
  PROVE  StreamInv'
<1>1. Stops(r) /\ stream' = [stream EXCEPT ![r] = NoStream] /\ wire' = [wire EXCEPT ![r] = <<>>] /\ UNCHANGED logVars
  BY DEF RequestFails, Stops
<1>2. faults' \in 0 .. MaxFaults
  BY MaxFaultsAssumption DEF RequestFails, StreamInv, StreamTypeOK
<1> QED BY <1>1, <1>2, StopKeeps, Zenon

-----------------------------------------------------------------------------
(* The theorems.                                                           *)

\* Nothing is logged, open or sent at the beginning.
LEMMA StreamInitially ==
  ASSUME Init
  PROVE  StreamInv
<1>1. LogInit /\ LogInv
  BY LogInitially DEF Init
<1>2. LenOK
  <2>1. ASSUME NEW r \in Requests PROVE Len(log[r]) <= MaxDeltas + (IF ended[r] THEN 2 ELSE 1)
    <3>1. log[r] = <<>>
      BY <1>1 DEF LogInit
    <3>2. Len(log[r]) = 0
      BY <3>1
    <3> QED BY <3>2, MaxDeltasAssumption
  <2> QED BY <2>1, Zenon DEF LenOK
<1>3. StreamTypeOK
  <2>1. <<>> \in Seq(Events)
    OBVIOUS
  <2>2. 0 \in 0 .. MaxFaults
    BY MaxFaultsAssumption
  <2> QED BY <2>1, <2>2, ClosedFacts, Zenon DEF Init, StreamTypeOK
<1>4. ASSUME NEW r \in Requests PROVE ReaderOK(r)
  <2>1. page[r] = Closed /\ stream[r] = NoStream /\ wire[r] = <<>> /\ log[r] = <<>>
    BY <1>1 DEF Init, LogInit
  <2>2. Len(log[r]) = 0
    BY <2>1
  <2>3. WireOK(NoStream, <<>>, log[r])
    BY EmptyWire, Zenon
  <2>4. StreamOK(Closed, NoStream, <<>>, log[r], ended[r])
    BY <2>2, ClosedFacts DEF StreamOK
  <2>5. PageOK(Closed, NoStream, log[r], ended[r])
    BY <2>2, ClosedFacts DEF PageOK
  <2> QED BY <2>1, <2>3, <2>4, <2>5, Zenon DEF ReaderOK, Reads
<1> QED
  BY <1>1, <1>2, <1>3, <1>4, Zenon DEF StreamInv

\* Every step of a writer, a page, a stream or a connection keeps the invariant.
LEMMA StreamNext ==
  ASSUME StreamInv, [Next]_vars
  PROVE  StreamInv'
<1>1. CASE LogGrows
  BY <1>1, LogGrowsKeeps
<1>2. ASSUME NEW r \in Requests,
             \/ Visit(r) \/ Send(r) \/ PageStep(r) \/ StreamStep(r)
             \/ Deadline(r) \/ Drop(r) \/ RequestFails(r) \/ LeavePage(r)
      PROVE  StreamInv'
  <2>1. CASE Visit(r) \/ LeavePage(r)
    BY <2>1, PageBegins, Zenon
  <2>2. CASE Send(r) \/ Resume(r)
    BY <2>2, OpensKeep, Zenon
  <2>3. CASE ReadRow(r)
    BY <2>3, ReadRowKeeps, Zenon
  <2>4. CASE ReadMessages(r)
    BY <2>4, ReadMessagesKeeps, Zenon
  <2>5. CASE ReadRequests(r)
    BY <2>5, ReadRequestsKeeps, Zenon
  <2>6. CASE ReadEvents(r)
    BY <2>6, ReadEventsKeeps, Zenon
  <2>7. CASE Refresh(r) \/ Deadline(r) \/ Drop(r)
    BY <2>7, StreamTurns, Zenon
  <2>8. CASE Receive(r)
    BY <2>8, ReceiveKeeps, Zenon
  <2>9. CASE StreamOver(r)
    BY <2>9, StreamOverKeeps, Zenon
  <2>10. CASE RequestFails(r)
    BY <2>10, RequestFailsKeeps, Zenon
  <2> QED
    BY <1>2, <2>1, <2>2, <2>3, <2>4, <2>5, <2>6, <2>7, <2>8, <2>9, <2>10, Zenon DEF PageStep, StreamStep
<1>3. CASE UNCHANGED vars
  <2>1. UNCHANGED <<log, ended, page, stream, wire, faults>>
    BY <1>3, Zenon DEF vars, logVars
  <2>2. LogInv' /\ LenOK' /\ StreamTypeOK'
    BY <2>1 DEF StreamInv, LogInv, LogReplayable, LenOK, StreamTypeOK
  <2>3. ASSUME NEW r \in Requests PROVE ReaderOK(r)'
    BY <2>1, Zenon DEF StreamInv, ReaderOK
  <2> QED BY <2>2, <2>3, Zenon DEF StreamInv
<1> QED
  BY <1>1, <1>2, <1>3, Zenon DEF Next

\* The invariant holds in every reachable state, for any number of requests,
\* deltas and faults.
THEOREM StreamInvariant == Spec => []StreamInv
<1>1. Init => StreamInv
  BY StreamInitially
<1>2. StreamInv /\ [Next]_vars => StreamInv'
  BY StreamNext
<1> QED
  BY <1>1, <1>2, PTL DEF Spec

\* Pages, streams and wires have the values the code gives them.
THEOREM StreamTyped == Spec => []StreamTypeOK
<1>1. StreamInv => StreamTypeOK
  BY DEF StreamInv
<1> QED
  BY <1>1, StreamInvariant, PTL

\* A page that resumes from its cursor shows no delta twice.
THEOREM ShownOnceHolds == Spec => []ShownOnce
<1>1. ASSUME StreamInv PROVE ShownOnce
  <2>1. ASSUME NEW r \in Requests, page[r].pc = "consume", stream[r].cursor >= 0, ~page[r].over
        PROVE  page[r].text <= Deltas(SubSeq(log[r], 1, page[r].last + 1))
    <3>1. /\ page[r] \in Pages /\ stream[r] \in Streams /\ log[r] \in Seq(EventTypes)
          /\ PageOK(page[r], stream[r], log[r], ended[r]) /\ Len(log[r]) \in Nat
      BY <1>1, ReaderFacts, Zenon
    <3>2. page[r].last \in Int /\ page[r].last >= -1
      BY <3>1, FieldTypes, MaxDeltasAssumption
    <3>3. page[r].last + 1 \in 0 .. Len(log[r]) /\ page[r].text <= DeltasTo(log[r], page[r].last + 1)
      BY <2>1, <3>1, <3>2 DEF PageOK
    <3>4. Deltas(SubSeq(log[r], 1, page[r].last + 1)) = DeltasTo(log[r], page[r].last + 1)
      BY <3>1, <3>3, DeltasOf, Zenon
    <3> QED BY <3>3, <3>4
  <2> QED BY <2>1 DEF ShownOnce
<1>2. StreamInv => ShownOnce
  BY <1>1
<1> QED
  BY <1>2, StreamInvariant, PTL

\* A page that is done shows the whole answer of a request that ended, exactly
\* once.
THEOREM FinalIsWholeHolds == Spec => []FinalIsWhole
<1>1. ASSUME StreamInv PROVE FinalIsWhole
  <2>1. ASSUME NEW r \in Requests, page[r].pc = "done"
        PROVE  ended[r] /\ page[r].text = Deltas(log[r])
    BY <1>1, <2>1, ReaderFacts, Zenon DEF PageOK
  <2> QED BY <2>1 DEF FinalIsWhole
<1>2. StreamInv => FinalIsWhole
  BY <1>1
<1> QED
  BY <1>2, StreamInvariant, PTL

\* No row a stream reads fails its validation, whatever is written between two
\* reads.
THEOREM RowsAlwaysValidHolds == Spec => []RowsAlwaysValid
<1>1. ASSUME StreamInv PROVE RowsAlwaysValid
  BY <1>1, ReaderFacts, Zenon DEF StreamOK, RowsAlwaysValid
<1>2. StreamInv => RowsAlwaysValid
  BY <1>1
<1> QED
  BY <1>2, StreamInvariant, PTL

=============================================================================
