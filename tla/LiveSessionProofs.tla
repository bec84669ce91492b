------------------------ MODULE LiveSessionProofs ------------------------
(* Theorems about LiveSession.  The hard part is the input: a byte a client was  *)
(* told is accepted is in the ledger, then in a job of the channel, then in the  *)
(* job the writer holds, then in the pipe, while kills, timeouts and failures    *)
(* change what the session will say of it.  IInv has these parts:                *)
(*   Input      the accepted stream is cut at positions: what was handed over,   *)
(*              the job in the writer's hands, the jobs of the channel in turn,  *)
(*              up to the end (Positions), and what the ledger and the receipt's *)
(*              counters say agrees with the cut (Feeding);                      *)
(*   Stages     which of the goroutines run in which state of the session;       *)
(*   Reaping    what the waiter has seen end at each of its steps;               *)
(*   Capturing  output is lost only if captureErr says so;                       *)
(*   Claims     what stands behind a receipt that claims success or completeness;*)
(*   Killing    an id that is not in the ledger was never signalled.             *)
(* Only one clause of Feeding needs care: after a failed write the session's     *)
(* target is killed, its delivered count stays behind the cut for good, and the  *)
(* pipe may have no reader (Broken), so what the count says is claimed only      *)
(* while the target is none.  The channel's room follows from Feeding as well:   *)
(* as long as input is open every job holds a byte, and the bytes of all jobs    *)
(* are queued in the ledger, which has a limit.  The theorems hold for any       *)
(* payloads, kill ids, limits and bounds, with requests that come before the     *)
(* handle is assigned or without.                                                *)
EXTENDS LiveSession, SequenceTheorems, TLAPS

\* The reading end of stdin is gone: what is written from now on is lost.
Broken == stdin.ended \/ (child.leader = "dead" /\ "in" \notin child.held)

\* p cuts the accepted stream: p[0] is where the job of the writer begins, p[i]
\* where the i-th job of the channel does, and the last job ends where the
\* stream ends.
Positions(p) ==
  /\ p[Len(live.jobs) + 1] = Len(stream)
  /\ p[1] = p[0] + Len(pc.job.data)
  /\ \A k \in 1 .. Len(pc.job.data) : pc.job.data[k] = stream[p[0] + k]
  /\ \A i \in 1 .. Len(live.jobs) :
       /\ p[i + 1] = p[i] + Len(live.jobs[i].data)
       /\ \A k \in 1 .. Len(live.jobs[i].data) : live.jobs[i].data[k] = stream[p[i] + k]

\* What is not handed over yet is queued in the ledger, every job of open input
\* holds a byte, and as long as nothing ended the session the delivered count
\* and the bytes in the pipe are where the cut says.
Feeding(p) ==
  /\ Len(stream) - p[0] <= live.input.queued
  /\ ~live.input.closed
       => \A i, j \in 1 .. Len(live.jobs) + 1 : i <= j => p[j] - p[i] >= j - i
  /\ live.target = "none" => live.delivered = p[0]
  /\ live.delivered <= p[0]
  /\ Len(stdin.got) <= p[0] + pc.job.written
  /\ live.target = "none" \/ ~Broken => Len(stdin.got) = p[0] + pc.job.written

\* The ledger and the session count the same bytes, the writer has a job only
\* while it writes, an EOF job has no data, and the pipe was given a prefix of
\* the stream.
Whole ==
  /\ live.accepted = Len(stream) /\ live.input.next = Len(stream)
  /\ pc.job.written <= Len(pc.job.data)
  /\ pc.job.eof => pc.job.data = <<>>
  /\ pc.writer # "write" => pc.job = NoJob
  /\ \A i \in 1 .. Len(live.jobs) :
       live.jobs[i].written = 0 /\ (live.jobs[i].eof => live.jobs[i].data = <<>>)
  /\ Len(stdin.got) <= Len(stream)
  /\ \A k \in 1 .. Len(stdin.got) : stdin.got[k] = stream[k]

\* The accepted stream, with a cut that fits it.
Input ==
  /\ Whole
  /\ \E p \in [0 .. Len(live.jobs) + 1 -> 0 .. Len(stream)] : Positions(p) /\ Feeding(p)

\* The state of the session against the steps of starter, waiter and shutdown.
Stages ==
  /\ pc.starter \in {"activated", "failing", "spawned"} => live.state = "starting"
  /\ pc.starter = "publishing" => live.state = "finalizing"
  /\ pc.starter = "failed" => live.state = "failed"
  /\ pc.starter = "attached" \/ pc.waiter = "wait" => live.state = "running"
  /\ pc.waiter \in {"close", "join", "publish"} => live.state = "finalizing"
  /\ pc.waiter \in {"evict", "done"} => live.state = receipt.state
  /\ pc.starter = "started" <=> pc.waiter # "off"
  /\ pc.waiter = "off" <=> pc.writer = "off"
  /\ pc.shutdown = "done" => pc.starter = "failed" \/ pc.waiter \in {"evict", "done"}

\* What has ended: no process before the spawn and none after the waiter saw it
\* die, no job after the channel is closed and the writer has left, and a
\* receipt with the final counts from then on.
Reaping ==
  /\ pc.starter \in {"activated", "failing", "publishing", "failed"} <=> child.leader = "none"
  /\ child.leader = "none" => child.held = {} /\ pc.capture = "off" /\ ~stdin.ended
  /\ child.leader = "dead" => child.exit # "none"
  /\ live.jobsClosed <=> pc.waiter \in {"join", "publish", "evict", "done"}
  /\ pc.writer = "done" => live.jobs = <<>> /\ live.jobsClosed
  /\ pc.waiter \in {"close", "join", "publish", "evict", "done"}
       => child.leader = "dead" /\ pc.capture = "done"
  /\ pc.waiter \in {"publish", "evict", "done"}
       => /\ pc.writer = "done" /\ receipt.state \in Terminal
          /\ receipt.accepted = live.accepted /\ receipt.delivered = live.delivered

\* Lost output is on record, and capture is over only when nothing can come any
\* more.
Capturing ==
  /\ stdout.pending <= stdout.produced
  /\ stdout.lost => live.captureErr # "none"
  /\ pc.capture = "done" => stdout.lost \/ (stdout.pending = 0 /\ ~Producer)

\* A receipt that claims success or complete output is built by a waiter that
\* has seen everything end.
Claims ==
  /\ receipt.state = "completed" \/ receipt.complete
       => /\ pc.waiter \in {"publish", "evict", "done"}
          /\ ~stdout.lost /\ stdout.pending = 0 /\ ~Producer
  /\ receipt.state = "completed" => child.exit = "zero" /\ stdin.got = stream

\* An id is signalled when it enters the ledger, and not again.
Killing == \A id \in KillIds : sent[id] <= 1 /\ (live.kills[id] = "none" => sent[id] = 0)

\* The inductive invariant.
IInv == TypeOK /\ Input /\ Stages /\ Reaping /\ Capturing /\ Claims /\ Killing

USE DEF history

\* A piece of d bytes after the first a lies within l when a + d does.
LEMMA WithinStream ==
  ASSUME NEW a \in Nat, NEW d \in Nat, NEW l \in Nat, a + d <= l
  PROVE  \A k \in 1 .. d : a + k \in 1 .. l
OBVIOUS

\* What LiveAssumption says of the constants, one by one.
LEMMA Constants ==
  /\ MaxQueued \in Nat /\ PipeSize \in Nat /\ MaxInput \in Nat /\ MaxChunks \in Nat
  /\ 0 \in 0 .. MaxInput
  /\ \A b \in Payloads : b \in Seq(Bytes) /\ Len(b) > 0
  /\ KillSignals \subseteq {"INT", "TERM", "KILL"}
  /\ Limited \in BOOLEAN /\ Timeout \in BOOLEAN
  /\ \A held \in Holds : held \subseteq {"in", "out"}
BY LiveAssumption

\* A signal changes nothing of a process group but the pending signal.
LEMMA SignalledEffect ==
  ASSUME TypeOK, NEW name
  PROVE  /\ Signalled(name) \in Groups
         /\ Signalled(name).leader = child.leader /\ Signalled(name).held = child.held
         /\ Signalled(name).exit = child.exit
BY DEF Signalled, TypeOK, Groups

\* The counters of the pipes are numbers within their bounds.
LEMMA PipeFields ==
  ASSUME TypeOK
  PROVE  /\ stdin.unread \in Nat /\ stdin.unread <= PipeSize
         /\ stdout.pending \in Nat /\ stdout.pending <= MaxChunks
         /\ stdout.produced \in Nat /\ stdout.produced <= MaxChunks
BY Constants DEF TypeOK

\* The placeholder of the writer is a job.
LEMMA NoJobType == NoJob \in Jobs
BY DEF NoJob, InputJob, Jobs

\* A payload has at least one byte.
LEMMA PayloadLength ==
  ASSUME NEW b \in Payloads
  PROVE  b \in Seq(Bytes) /\ Len(b) \in Nat /\ Len(b) > 0
BY Constants

\* The fields of an InputLedger.
LEMMA LedgerFields ==
  ASSUME NEW l \in InputLedgers
  PROVE  /\ l.maxQueued = MaxQueued /\ l.queued \in Nat /\ l.queued <= MaxQueued
         /\ l.next \in Nat /\ l.next <= MaxInput /\ l.closed \in BOOLEAN
BY Constants DEF InputLedgers

\* The fields of an accepted result.
LEMMA AcceptedFields ==
  ASSUME NEW l, NEW n
  PROVE  Accepted(l, n).bytes = n /\ Accepted(l, n).ledger = l
BY DEF Accepted

\* The empty input is an input.
LEMMA EmptyInput == <<>> \in Seq(Bytes)
OBVIOUS

\* What does not exceed a limit is within it.
LEMMA Fits ==
  ASSUME NEW q \in Nat, NEW n \in Nat, NEW m \in Nat, ~(q + n > m)
  PROVE  q + n <= m /\ q + n \in 0 .. m
OBVIOUS

\* AcceptChars without an error: input was open, there was room, and the ledger
\* moves on by the bytes of the payload.
LEMMA AcceptedChars ==
  ASSUME NEW l \in InputLedgers, NEW b \in Payloads, NEW offset \in Nat,
         NEW a, a = AcceptChars(l, offset, b), a.err = "", ~a.duplicate,
         ~(l.next + Len(b) > MaxInput)
  PROVE  /\ ~l.closed /\ l.queued + Len(b) <= MaxQueued
         /\ a.bytes = Len(b) /\ a.ledger \in InputLedgers
         /\ a.ledger.queued = l.queued + Len(b)
         /\ a.ledger.next = l.next + Len(b)
         /\ ~a.ledger.closed
<1> DEFINE e == l.entries \cup {CharsRecord(offset, b)}
           taken == [l EXCEPT !.entries = e, !.next = @ + Len(b), !.queued = @ + Len(b)]
<1>1. ~l.closed BY DEF AcceptChars, Refused
<1>2. b # <<>> BY <1>1 DEF AcceptChars, Refused
<1>3. CharsRecord(offset, b) \notin l.entries BY <1>1, <1>2 DEF AcceptChars, Duplicate
<1>4. ~(offset < l.next) BY <1>1, <1>2, <1>3 DEF AcceptChars, Refused
<1>5. ~(offset > l.next) BY <1>1, <1>2, <1>3, <1>4 DEF AcceptChars, Refused
<1>6. ~(l.queued + Len(b) > l.maxQueued)
  BY <1>1, <1>2, <1>3, <1>4, <1>5 DEF AcceptChars, Refused
<1>7. a = Accepted(taken, Len(b)) BY <1>1, <1>2, <1>3, <1>4, <1>5, <1>6 DEF AcceptChars
<1> HIDE DEF taken
<1>8. a.bytes = Len(b) /\ a.ledger = taken
  <2>1. Accepted(taken, Len(b)).bytes = Len(b) /\ Accepted(taken, Len(b)).ledger = taken
    BY AcceptedFields
  <2> QED BY <1>7, <2>1
<1>9. Len(b) \in Nat /\ b \in Seq(Bytes) BY PayloadLength
<1>10. l.maxQueued = MaxQueued /\ l.queued \in Nat /\ l.next \in Nat BY LedgerFields
<1>11. MaxQueued \in Nat /\ MaxInput \in Nat BY Constants
<1>12. ~(l.queued + Len(b) > MaxQueued) BY <1>6, <1>10
<1>13. l.queued + Len(b) <= MaxQueued /\ l.queued + Len(b) \in 0 .. MaxQueued
  BY <1>9, <1>10, <1>11, <1>12, Fits
<1>14. l.next + Len(b) \in 0 .. MaxInput BY <1>9, <1>10, <1>11, Fits
<1>15. e \in SUBSET [kind : {"chars", "eof"}, offset : Nat, data : Seq(Bytes)]
  <2>1. CharsRecord(offset, b) \in [kind : {"chars", "eof"}, offset : Nat, data : Seq(Bytes)]
    BY <1>9 DEF CharsRecord
  <2> QED BY <2>1 DEF InputLedgers
<1> HIDE DEF e
<1>16. taken \in InputLedgers BY <1>13, <1>14, <1>15 DEF InputLedgers, taken
<1>17. /\ taken.queued = l.queued + Len(b) /\ taken.next = l.next + Len(b)
       /\ taken.closed = l.closed
  BY DEF InputLedgers, taken
<1> QED BY <1>1, <1>8, <1>13, <1>16, <1>17

\* AcceptEOF without an error: the ledger closes and counts no byte.
LEMMA AcceptedEOF ==
  ASSUME NEW l \in InputLedgers, NEW offset \in Nat,
         NEW a, a = AcceptEOF(l, offset), a.err = "", ~a.duplicate
  PROVE  /\ a.bytes = 0 /\ a.ledger \in InputLedgers
         /\ a.ledger.queued = l.queued /\ a.ledger.next = l.next
         /\ a.ledger.closed
<1> DEFINE e == l.entries \cup {EOFRecord(offset)}
           taken == [l EXCEPT !.entries = e, !.closed = TRUE]
<1>1. a = Accepted(taken, 0) BY DEF AcceptEOF, Refused, Duplicate
<1> HIDE DEF taken
<1>2. a.bytes = 0 /\ a.ledger = taken
  <2>1. Accepted(taken, 0).bytes = 0 /\ Accepted(taken, 0).ledger = taken
    BY AcceptedFields
  <2> QED BY <1>1, <2>1
<1>3. e \in SUBSET [kind : {"chars", "eof"}, offset : Nat, data : Seq(Bytes)]
  <2>1. EOFRecord(offset) \in [kind : {"chars", "eof"}, offset : Nat, data : Seq(Bytes)]
    BY EmptyInput DEF EOFRecord
  <2> QED BY <2>1 DEF InputLedgers
<1> HIDE DEF e
<1>4. taken \in InputLedgers BY <1>3 DEF InputLedgers, taken
<1>5. taken.queued = l.queued /\ taken.next = l.next /\ taken.closed
  BY DEF InputLedgers, taken
<1> QED BY <1>2, <1>4, <1>5

\* Delivered takes bytes from the queued count, never below zero, and leaves
\* the rest of the ledger.
LEMMA DeliveredEffect ==
  ASSUME NEW l \in InputLedgers, NEW n \in Nat
  PROVE  /\ Delivered(l, n) \in InputLedgers
         /\ Delivered(l, n).queued = IF l.queued < n THEN 0 ELSE l.queued - n
         /\ Delivered(l, n).next = l.next /\ Delivered(l, n).closed = l.closed
<1>1. PICK q : q = IF l.queued < n THEN 0 ELSE l.queued - n OBVIOUS
<1>2. q \in 0 .. MaxQueued BY <1>1, LedgerFields, Constants
<1>3. Delivered(l, n) = [l EXCEPT !.queued = q] BY <1>1 DEF Delivered
<1>4. [l EXCEPT !.queued = q] \in InputLedgers BY <1>2 DEF InputLedgers
<1>5. /\ [l EXCEPT !.queued = q].queued = q /\ [l EXCEPT !.queued = q].next = l.next
      /\ [l EXCEPT !.queued = q].closed = l.closed
  BY DEF InputLedgers
<1> QED BY <1>1, <1>3, <1>4, <1>5

\* The fields of a liveSession and of the job in the writer's hands.
LEMMA SessionFields ==
  ASSUME TypeOK
  PROVE  /\ live.input \in InputLedgers /\ live.jobs \in Seq(Jobs)
         /\ live.accepted \in 0 .. MaxInput /\ live.delivered \in 0 .. MaxInput
         /\ live.kills \in [KillIds -> KillSignals \cup {"none"}]
         /\ live.target \in {"none", "timed_out", "killed"}
         /\ pc.job \in Jobs /\ stream \in Seq(Bytes) /\ stdin.got \in Seq(Bytes)
BY DEF TypeOK, Sessions, Places

\* Admit of the kill ledger: it asks for a signal only when the id is new, and
\* an admitted id is in the ledger.
LEMMA AdmitEffect ==
  ASSUME NEW l \in [KillIds -> KillSignals \cup {"none"}], NEW id \in KillIds,
         NEW signal \in KillSignals, NEW terminal \in BOOLEAN,
         NEW a, a = Admit(l, id, signal, terminal)
  PROVE  /\ a.ledger \in [KillIds -> KillSignals \cup {"none"}]
         /\ a.send \in BOOLEAN
         /\ a.send => l[id] = "none"
         /\ a.err = "" => a.ledger = [l EXCEPT ![id] = signal]
<1>1. CASE l[id] # "none"
  <2>1. a.err = "" => l = [l EXCEPT ![id] = signal] BY <1>1 DEF Admit
  <2>2. a.ledger = l /\ a.send = FALSE BY <1>1 DEF Admit
  <2> QED BY <2>1, <2>2
<1>2. CASE l[id] = "none"
  <2>1. a.ledger = [l EXCEPT ![id] = signal] /\ a.send = ~terminal BY <1>2 DEF Admit
  <2> QED BY <1>2, <2>1
<1> QED BY <1>1, <1>2

\* A job made of a payload is a job.
LEMMA JobType ==
  ASSUME NEW b \in Seq(Bytes), NEW eof \in BOOLEAN
  PROVE  InputJob(b, eof) \in Jobs
BY DEF InputJob, Jobs

\* Types, the starter.
LEMMA TypeStarter == ASSUME TypeOK, Starter PROVE TypeOK'
<1>1. CASE \E mode \in StdinModes : StartChild(mode)
  <2>1. PICK mode \in StdinModes : StartChild(mode) BY <1>1
  <2>2. pc' \in Places BY <2>1 DEF StartChild, TypeOK, Places
  <2>3. child' \in Groups BY <2>1 DEF StartChild, TypeOK, Groups
  <2> QED BY <2>1, <2>2, <2>3 DEF StartChild, TypeOK
<1>2. CASE AttachHandle
  <2>1. pc' \in Places
    BY <1>2 DEF AttachHandle, TypeOK, Places
  <2>2. live' \in Sessions
    BY <1>2 DEF AttachHandle, TypeOK, Sessions
  <2> QED BY <1>2, <2>1, <2>2 DEF AttachHandle, TypeOK
<1>3. CASE StartGoroutines
  <2>1. pc' \in Places
    BY <1>3 DEF StartGoroutines, TypeOK, Places
  <2>2. child' \in Groups
    BY <1>3, SignalledEffect DEF StartGoroutines, TypeOK, Groups
  <2> QED BY <1>3, <2>1, <2>2 DEF StartGoroutines, TypeOK
<1>4. CASE StartFails
  <2>1. pc' \in Places
    BY <1>4 DEF StartFails, TypeOK, Places
  <2> QED BY <1>4, <2>1 DEF StartFails, TypeOK
<1>5. CASE FinalizeStartFailure
  <2>1. pc' \in Places
    BY <1>5 DEF FinalizeStartFailure, TypeOK, Places
  <2>2. live' \in Sessions
    BY <1>5 DEF FinalizeStartFailure, TypeOK, Sessions
  <2>3. receipt' \in Receipts
    BY <1>5, Constants DEF FinalizeStartFailure, TypeOK, NoReceipt, Receipts, Terminal
  <2> QED BY <1>5, <2>1, <2>2, <2>3 DEF FinalizeStartFailure, TypeOK
<1>6. CASE FinishStartFailure
  <2>1. pc' \in Places
    BY <1>6 DEF FinishStartFailure, TypeOK, Places
  <2>2. live' \in Sessions
    BY <1>6 DEF FinishStartFailure, TypeOK, Sessions, Terminal
  <2> QED BY <1>6, <2>1, <2>2 DEF FinishStartFailure, TypeOK
<1> QED BY <1>1, <1>2, <1>3, <1>4, <1>5, <1>6 DEF Starter

\* Types, the capture goroutine: a chunk is taken only from output that was
\* produced.
LEMMA TypeCapture == ASSUME TypeOK, Capture PROVE TypeOK'
<1>1. CASE CaptureChunk
  <2>1. stdout.pending - 1 \in 0 .. MaxChunks
    BY <1>1, PipeFields, Constants DEF CaptureChunk
  <2>2. stdout' \in [produced : 0 .. MaxChunks, pending : 0 .. MaxChunks, lost : BOOLEAN]
    BY <1>1, <2>1 DEF CaptureChunk, TypeOK
  <2> QED BY <1>1, <2>2 DEF CaptureChunk, TypeOK
<1>2. CASE CaptureChunkFails
  <2>1. live' \in Sessions
    BY <1>2 DEF CaptureChunkFails, TypeOK, CaptureFailed, Sessions
  <2>2. child' \in Groups
    BY <1>2, SignalledEffect DEF CaptureChunkFails, TypeOK, CaptureFailed, Groups
  <2>3. stdout.pending - 1 \in 0 .. MaxChunks
    BY <1>2, PipeFields, Constants DEF CaptureChunkFails
  <2>4. stdout' \in [produced : 0 .. MaxChunks, pending : 0 .. MaxChunks, lost : BOOLEAN]
    BY <1>2, <2>3 DEF CaptureChunkFails, TypeOK
  <2> QED BY <1>2, <2>1, <2>2, <2>4 DEF CaptureChunkFails, TypeOK
<1>3. CASE CaptureReadFails
  <2>1. pc' \in Places
    BY <1>3 DEF CaptureReadFails, TypeOK, Places
  <2>2. live' \in Sessions
    BY <1>3 DEF CaptureReadFails, TypeOK, CaptureFailed, Sessions
  <2>3. child' \in Groups
    BY <1>3, SignalledEffect DEF CaptureReadFails, TypeOK, CaptureFailed, Groups
  <2> QED BY <1>3, <2>1, <2>2, <2>3 DEF CaptureReadFails, TypeOK
<1>4. CASE CaptureEnds
  <2>1. pc' \in Places
    BY <1>4 DEF CaptureEnds, TypeOK, Places
  <2> QED BY <1>4, <2>1 DEF CaptureEnds, TypeOK
<1> QED BY <1>1, <1>2, <1>3, <1>4 DEF Capture

\* Types, the writer: Delivered keeps the ledger, and the count of delivered bytes
\* is at most the end of a job, which lies in the stream.
LEMMA TypeWriter == ASSUME TypeOK, Input, Writer PROVE TypeOK'
<1>1. CASE WriterReceives
  <2>1. live.jobs \in Seq(Jobs) /\ live.jobs # <<>> BY <1>1 DEF WriterReceives, TypeOK, Sessions
  <2>2. Head(live.jobs) \in Jobs /\ Tail(live.jobs) \in Seq(Jobs) BY <2>1
  <2>3. live' \in Sessions BY <1>1, <2>2 DEF WriterReceives, TypeOK, Sessions
  <2>4. pc' \in Places BY <1>1, <2>2 DEF WriterReceives, TypeOK, Places
  <2> QED BY <1>1, <2>3, <2>4 DEF WriterReceives, TypeOK
<1>2. CASE WriteByte
  <2>1. pc.job \in Jobs BY DEF TypeOK, Places
  <2>2. pc.job.data \in Seq(Bytes) /\ pc.job.written \in Nat
        /\ pc.job.written + 1 \in 1 .. Len(pc.job.data)
    BY <1>2, <2>1 DEF Jobs, WriteByte, Unwritten
  <2>3. pc.job.data[pc.job.written + 1] \in Bytes BY <2>2
  <2>4. stdin.unread + 1 \in 0 .. PipeSize BY <1>2, PipeFields, Constants DEF WriteByte
  <2>5. Append(stdin.got, pc.job.data[pc.job.written + 1]) \in Seq(Bytes)
    BY <2>3, SessionFields
  <2>6. stdin' \in [ended : BOOLEAN, got : Seq(Bytes), unread : 0 .. PipeSize]
    BY <1>2, <2>4, <2>5 DEF WriteByte, TypeOK
  <2>7. [pc.job EXCEPT !.written = @ + 1] \in Jobs BY <2>1, <2>2 DEF Jobs
  <2>8. pc' \in Places BY <1>2, <2>7 DEF WriteByte, TypeOK, Places
  <2> QED BY <1>2, <2>6, <2>8 DEF WriteByte, TypeOK
<1>3. CASE WriteReturns
  <2>1. pc.job \in Jobs /\ live.input \in InputLedgers BY DEF TypeOK, Sessions, Places
  <2>2. Len(pc.job.data) \in Nat BY <2>1 DEF Jobs
  <2>3. Delivered(live.input, Len(pc.job.data)) \in InputLedgers
    BY <2>1, <2>2, DeliveredEffect
  <2>4. live.delivered + Len(pc.job.data) \in 0 .. MaxInput
    <3>1. PICK p \in [0 .. Len(live.jobs) + 1 -> 0 .. Len(stream)] : Positions(p) /\ Feeding(p)
      BY DEF Input
    <3>2. live.delivered \in Nat /\ live.jobs \in Seq(Jobs) /\ stream \in Seq(Bytes)
          /\ live.accepted \in 0 .. MaxInput
      BY DEF TypeOK, Sessions
    <3>3. p[0] \in Nat /\ p[1] \in 0 .. Len(stream) /\ Len(stream) \in Nat BY <3>1, <3>2
    <3>4. p[1] = p[0] + Len(pc.job.data) /\ live.delivered <= p[0] /\ live.accepted = Len(stream)
      BY <3>1 DEF Positions, Feeding, Input, Whole
    <3> QED BY <2>2, <3>2, <3>3, <3>4, Constants
  <2>5. live' \in Sessions BY <1>3, <2>3, <2>4 DEF WriteReturns, TypeOK, Sessions
  <2>6. pc' \in Places BY <1>3, NoJobType DEF WriteReturns, JobDone, TypeOK, Places
  <2> QED BY <1>3, <2>5, <2>6 DEF WriteReturns, TypeOK
<1>4. CASE WriterEndsInput
  <2>1. pc' \in Places
    BY <1>4, NoJobType DEF WriterEndsInput, TypeOK, JobDone, Places
  <2>2. stdin' \in [ended : BOOLEAN, got : Seq(Bytes), unread : 0 .. PipeSize]
    BY <1>4, Constants DEF WriterEndsInput, TypeOK, TypeOK
  <2> QED BY <1>4, <2>1, <2>2 DEF WriterEndsInput, TypeOK
<1>5. CASE WriteFails
  <2>1. pc' \in Places
    BY <1>5, NoJobType DEF WriteFails, TypeOK, JobDone, Places
  <2>2. live' \in Sessions
    BY <1>5 DEF WriteFails, TypeOK, Sessions
  <2>3. child' \in Groups
    BY <1>5, SignalledEffect DEF WriteFails, TypeOK, Groups
  <2> QED BY <1>5, <2>1, <2>2, <2>3 DEF WriteFails, TypeOK
<1>6. CASE WriterEnds
  <2>1. pc' \in Places
    BY <1>6 DEF WriterEnds, TypeOK, Places
  <2> QED BY <1>6, <2>1 DEF WriterEnds, TypeOK
<1> QED BY <1>1, <1>2, <1>3, <1>4, <1>5, <1>6 DEF Writer

\* Types, the waiter: the receipt takes its numbers from the session.
LEMMA TypeWaiter == ASSUME TypeOK, Reaping, Waiter PROVE TypeOK'
<1>1. CASE WaitReturns
  <2>1. pc' \in Places
    BY <1>1 DEF WaitReturns, TypeOK, Places
  <2>2. live' \in Sessions
    BY <1>1 DEF WaitReturns, TypeOK, Sessions
  <2> QED BY <1>1, <2>1, <2>2 DEF WaitReturns, TypeOK
<1>2. CASE CloseJobs
  <2>1. pc' \in Places
    BY <1>2 DEF CloseJobs, TypeOK, Places
  <2>2. live' \in Sessions
    BY <1>2 DEF CloseJobs, TypeOK, Sessions
  <2> QED BY <1>2, <2>1, <2>2 DEF CloseJobs, TypeOK
<1>3. CASE BuildReceipt
  <2>1. pc' \in Places BY <1>3 DEF BuildReceipt, TypeOK, Places
  <2>2. PICK breach \in {FALSE, Limited} :
          receipt' = ReceiptFor(Classify(live.target, breach, live.captureErr, child.exit,
                                         live.accepted, live.delivered))
    BY <1>3 DEF BuildReceipt
  <2>3. PICK class : class = Classify(live.target, breach, live.captureErr, child.exit,
                                      live.accepted, live.delivered)
    OBVIOUS
  <2>4. /\ class[1] \in Terminal
        /\ class[2] \in {"", "resource_limit", "output_capture_failed", "input_delivery_failed"}
    <3>1. live.target \in {"none", "timed_out", "killed"} /\ breach \in BOOLEAN
      BY <2>2, Constants DEF TypeOK, Sessions
    <3> QED BY <2>3, <3>1 DEF Classify, Terminal
  <2>5. live.accepted \in 0 .. MaxInput /\ live.delivered \in 0 .. MaxInput
    BY DEF TypeOK, Sessions
  <2>6. ReceiptFor(class) \in Receipts BY <2>4, <2>5 DEF ReceiptFor, Receipts
  <2>7. receipt' \in Receipts BY <2>2, <2>6, <2>3
  <2>8. stdin' \in [ended : BOOLEAN, got : Seq(Bytes), unread : 0 .. PipeSize]
    BY <1>3 DEF BuildReceipt, TypeOK
  <2> QED BY <1>3, <2>1, <2>7, <2>8 DEF BuildReceipt, TypeOK
<1>4. CASE FinishWait
  <2>1. receipt.state \in Terminal BY <1>4 DEF FinishWait, Reaping
  <2>2. pc' \in Places BY <1>4 DEF FinishWait, TypeOK, Places
  <2>3. live' \in Sessions BY <1>4, <2>1 DEF FinishWait, TypeOK, Sessions
  <2> QED BY <1>4, <2>2, <2>3 DEF FinishWait, TypeOK
<1>5. CASE EvictTerminated
  <2>1. pc' \in Places
    BY <1>5 DEF EvictTerminated, TypeOK, Places
  <2> QED BY <1>5, <2>1 DEF EvictTerminated, TypeOK
<1> QED BY <1>1, <1>2, <1>3, <1>4, <1>5 DEF Waiter

\* Types, the timer.
LEMMA TypeTimer == ASSUME TypeOK, Timer PROVE TypeOK'
<1>1. CASE TimerFires
  <2>1. pc' \in Places
    <3>1. [pc EXCEPT !.timer = "grace"] \in Places /\ [pc EXCEPT !.timer = "done"] \in Places
      BY DEF TypeOK, Places
    <3> QED BY <1>1, <3>1 DEF TimerFires
  <2>2. live' \in Sessions
    BY <1>1 DEF TimerFires, TypeOK, Sessions
  <2>3. child' \in Groups
    BY <1>1, SignalledEffect DEF TimerFires, TypeOK, Groups
  <2> QED BY <1>1, <2>1, <2>2, <2>3 DEF TimerFires, TypeOK
<1>2. CASE GraceExpires
  <2>1. pc' \in Places
    BY <1>2 DEF GraceExpires, TypeOK, Places
  <2>2. child' \in Groups
    BY <1>2, SignalledEffect DEF GraceExpires, TypeOK, Groups
  <2> QED BY <1>2, <2>1, <2>2 DEF GraceExpires, TypeOK
<1> QED BY <1>1, <1>2 DEF Timer

\* Types, shutdown.
LEMMA TypeStopper == ASSUME TypeOK, Stopper PROVE TypeOK'
<1>1. CASE ShutdownTerm
  <2>1. pc' \in Places
    BY <1>1 DEF ShutdownTerm, TypeOK, Places
  <2>2. live' \in Sessions
    BY <1>1 DEF ShutdownTerm, TypeOK, Sessions
  <2>3. child' \in Groups
    BY <1>1, SignalledEffect DEF ShutdownTerm, TypeOK, Groups
  <2> QED BY <1>1, <2>1, <2>2, <2>3 DEF ShutdownTerm, TypeOK
<1>2. CASE ShutdownWaits
  <2>1. pc' \in Places
    BY <1>2 DEF ShutdownWaits, TypeOK, Places
  <2> QED BY <1>2, <2>1 DEF ShutdownWaits, TypeOK
<1>3. CASE ShutdownKill
  <2>1. pc' \in Places
    BY <1>3 DEF ShutdownKill, TypeOK, Places
  <2>2. child' \in Groups
    BY <1>3, SignalledEffect DEF ShutdownKill, TypeOK, Groups
  <2> QED BY <1>3, <2>1, <2>2 DEF ShutdownKill, TypeOK
<1>4. CASE ShutdownDone
  <2>1. pc' \in Places
    BY <1>4 DEF ShutdownDone, TypeOK, Places
  <2> QED BY <1>4, <2>1 DEF ShutdownDone, TypeOK
<1> QED BY <1>1, <1>2, <1>3, <1>4 DEF Stopper

\* Types, the requests: what the ledger accepts stays within the bounds.
LEMMA TypeClients == ASSUME TypeOK, Input, Clients PROVE TypeOK'
<1>1. CASE \E b \in Payloads, offset \in 0 .. MaxInput : Write(offset, b)
  <2>1. PICK b \in Payloads, offset \in 0 .. MaxInput : Write(offset, b) BY <1>1
  <2>2. live.input \in InputLedgers /\ live.jobs \in Seq(Jobs) BY DEF TypeOK, Sessions
  <2>3. b \in Seq(Bytes) /\ Len(b) \in Nat BY Constants
  <2>4. offset \in Nat BY Constants
  <2>5. PICK a : a = AcceptChars(live.input, offset, b) OBVIOUS
  <2>6. Enqueue(a, b, FALSE) BY <2>1, <2>5 DEF Write
  <2>7. ~(live.input.next + Len(b) > MaxInput)
    <3>1. live.input.next \in Nat BY <2>2, LedgerFields
    <3> QED BY <2>1, <2>3, <3>1, Constants DEF Write
  <2>8. a.ledger \in InputLedgers /\ a.bytes = Len(b)
    BY <2>2, <2>4, <2>5, <2>6, <2>7, AcceptedChars DEF Enqueue
  <2>9. live.accepted + a.bytes \in 0 .. MaxInput
    <3>1. live.input.next = live.accepted BY DEF Input, Whole
    <3>2. live.accepted \in Nat /\ MaxInput \in Nat BY SessionFields, Constants
    <3> QED BY <2>3, <2>7, <2>8, <3>1, <3>2, Fits
  <2>10. PICK q : q = live.accepted + a.bytes OBVIOUS
  <2>11. PICK js : js = Append(live.jobs, InputJob(b, FALSE)) OBVIOUS
  <2>12. live' = [live EXCEPT !.input = a.ledger, !.accepted = q, !.jobs = js]
    BY <2>10, <2>6, <2>11 DEF Enqueue
  <2>13. js \in Seq(Jobs)
    <3>1. PICK j : j = InputJob(b, FALSE) OBVIOUS
    <3>2. j \in Jobs BY <2>3, <3>1 DEF InputJob, Jobs
    <3> QED BY <2>2, <2>11, <3>1, <3>2, AppendProperties
  <2>14. live' \in Sessions BY <2>9, <2>10, <2>8, <2>12, <2>13 DEF TypeOK, Sessions
  <2>15. stream' \in Seq(Bytes)
    <3>1. stream \in Seq(Bytes) BY DEF TypeOK
    <3> QED BY <2>3, <2>6, <3>1, ConcatProperties DEF Enqueue
  <2> QED BY <2>14, <2>15, <2>6 DEF Enqueue, TypeOK
<1>2. CASE \E offset \in 0 .. MaxInput : WriteEOF(offset)
  <2>1. PICK offset \in 0 .. MaxInput : WriteEOF(offset) BY <1>2
  <2>2. live.input \in InputLedgers /\ live.jobs \in Seq(Jobs) BY DEF TypeOK, Sessions
  <2>3. <<>> \in Seq(Bytes) BY EmptyInput
  <2>4. offset \in Nat BY Constants
  <2>5. PICK a : a = AcceptEOF(live.input, offset) OBVIOUS
  <2>6. Enqueue(a, <<>>, TRUE) BY <2>1, <2>5 DEF WriteEOF
  <2>7. a.ledger \in InputLedgers /\ a.bytes = 0
    BY <2>2, <2>4, <2>5, <2>6, AcceptedEOF DEF Enqueue
  <2>8. live.accepted + a.bytes \in 0 .. MaxInput
    <3>1. live.accepted \in 0 .. MaxInput BY SessionFields
    <3>2. live.accepted + 0 = live.accepted BY <3>1, Constants
    <3> QED BY <2>7, <3>1, <3>2
  <2>9. PICK q : q = live.accepted + a.bytes OBVIOUS
  <2>10. PICK js : js = Append(live.jobs, InputJob(<<>>, TRUE)) OBVIOUS
  <2>11. live' = [live EXCEPT !.input = a.ledger, !.accepted = q, !.jobs = js]
    BY <2>9, <2>6, <2>10 DEF Enqueue
  <2>12. js \in Seq(Jobs)
    <3>1. PICK j : j = InputJob(<<>>, TRUE) OBVIOUS
    <3>2. j \in Jobs BY <2>3, <3>1 DEF InputJob, Jobs
    <3> QED BY <2>2, <2>10, <3>1, <3>2, AppendProperties
  <2>13. live' \in Sessions BY <2>8, <2>9, <2>7, <2>11, <2>12 DEF TypeOK, Sessions
  <2>14. stream' \in Seq(Bytes)
    <3>1. stream \in Seq(Bytes) BY DEF TypeOK
    <3> QED BY <2>3, <2>6, <3>1, ConcatProperties DEF Enqueue
  <2> QED BY <2>13, <2>14, <2>6 DEF Enqueue, TypeOK
<1>3. CASE \E id \in KillIds, signal \in KillSignals : Kill(id, signal)
  <2>1. PICK id \in KillIds, signal \in KillSignals : Kill(id, signal) BY <1>3
  <2>2. PICK answer : answer = Admit(live.kills, id, signal, live.state \in Terminal)
    OBVIOUS
  <2>3. live.kills \in [KillIds -> KillSignals \cup {"none"}] BY DEF TypeOK, Sessions
  <2>4. (live.state \in Terminal) \in BOOLEAN OBVIOUS
  <2>5. answer.ledger \in [KillIds -> KillSignals \cup {"none"}] /\ answer.send \in BOOLEAN
    BY <2>3, <2>4, <2>2, AdmitEffect
  <2>6. /\ live' = [live EXCEPT !.kills = answer.ledger,
                                !.target = IF answer.send THEN "killed" ELSE @]
        /\ panicked' = (answer.send /\ ~live.handle)
        /\ child' = IF answer.send /\ live.handle THEN Signalled(signal) ELSE child
        /\ sent' = [sent EXCEPT ![id] = IF answer.send THEN @ + 1 ELSE @]
        /\ UNCHANGED <<pc, receipt, stdin, stdout, stream>>
    BY <2>1, <2>2 DEF Kill
  <2>7. live' \in Sessions BY <2>5, <2>6 DEF TypeOK, Sessions
  <2>8. child' \in Groups BY <2>6, SignalledEffect DEF TypeOK
  <2>9. sent' \in [KillIds -> Nat] BY <2>1, <2>6 DEF TypeOK
  <2>10. panicked' \in BOOLEAN BY <2>6
  <2> QED BY <2>6, <2>7, <2>8, <2>9, <2>10 DEF TypeOK
<1> QED BY <1>1, <1>2, <1>3 DEF Clients

\* Types, the command.
LEMMA TypeChild == ASSUME TypeOK, Capturing, Child PROVE TypeOK'
<1>1. CASE \E code \in {"zero", "nonzero"}, held \in Holds : ChildExits(code, held)
  <2>1. PICK code \in {"zero", "nonzero"}, held \in Holds : ChildExits(code, held) BY <1>1
  <2>2. child' \in Groups BY <2>1, Constants DEF ChildExits, TypeOK, Groups
  <2> QED BY <2>1, <2>2 DEF ChildExits, TypeOK
<1>2. CASE ChildDies
  <2>1. child' \in Groups
    BY <1>2 DEF ChildDies, TypeOK, Groups
  <2> QED BY <1>2, <2>1 DEF ChildDies, TypeOK
<1>3. CASE DescendantsExit
  <2>1. child' \in Groups
    BY <1>3 DEF DescendantsExit, TypeOK, Groups
  <2> QED BY <1>3, <2>1 DEF DescendantsExit, TypeOK
<1>4. CASE ChildReads
  <2>1. stdin.unread - 1 \in 0 .. PipeSize BY <1>4, PipeFields, Constants DEF ChildReads
  <2>2. stdin' \in [ended : BOOLEAN, got : Seq(Bytes), unread : 0 .. PipeSize]
    BY <1>4, <2>1 DEF ChildReads, TypeOK
  <2> QED BY <1>4, <2>2 DEF ChildReads, TypeOK
<1>5. CASE ChildWrites
  <2>1. stdout.produced + 1 \in 0 .. MaxChunks /\ stdout.pending + 1 \in 0 .. MaxChunks
    BY <1>5, PipeFields, Constants DEF ChildWrites, Capturing
  <2>2. stdout' \in [produced : 0 .. MaxChunks, pending : 0 .. MaxChunks, lost : BOOLEAN]
    BY <1>5, <2>1 DEF ChildWrites, TypeOK
  <2> QED BY <1>5, <2>2 DEF ChildWrites, TypeOK
<1> QED BY <1>1, <1>2, <1>3, <1>4, <1>5 DEF Child

\* Every step keeps the types.
LEMMA TypeNext == IInv /\ [Next]_vars => TypeOK'
<1> SUFFICES ASSUME IInv, [Next]_vars PROVE TypeOK' OBVIOUS
<1> USE DEF IInv
<1>1. CASE Starter BY <1>1, TypeStarter
<1>2. CASE Capture BY <1>2, TypeCapture
<1>3. CASE Writer BY <1>3, TypeWriter
<1>4. CASE Waiter BY <1>4, TypeWaiter
<1>5. CASE Timer BY <1>5, TypeTimer
<1>6. CASE Stopper BY <1>6, TypeStopper
<1>7. CASE ShutdownBegins
  <2>1. pc' \in Places BY <1>7 DEF ShutdownBegins, TypeOK, Places
  <2> QED BY <1>7, <2>1 DEF ShutdownBegins, TypeOK
<1>8. CASE ShutdownExpires
  <2>1. pc' \in Places BY <1>8 DEF ShutdownExpires, TypeOK, Places
  <2> QED BY <1>8, <2>1 DEF ShutdownExpires, TypeOK
<1>9. CASE Clients BY <1>9, TypeClients
<1>10. CASE Child BY <1>10, TypeChild
<1>11. CASE UNCHANGED vars BY <1>11 DEF TypeOK, vars
<1>12. CASE Ended BY <1>11, <1>12 DEF Ended
<1> QED BY <1>1, <1>2, <1>3, <1>4, <1>5, <1>6, <1>7, <1>8, <1>9, <1>10, <1>11, <1>12 DEF Next

\* CaptureFailed puts the failure on record and leaves the rest of the session.
LEMMA CaptureFailedKeeps ==
  ASSUME TypeOK, CaptureFailed
  PROVE  /\ live'.captureErr # "none"
         /\ live'.state = live.state /\ live'.handle = live.handle
         /\ live'.target = live.target /\ live'.input = live.input
         /\ live'.kills = live.kills /\ live'.accepted = live.accepted
         /\ live'.delivered = live.delivered /\ live'.jobs = live.jobs
         /\ live'.jobsClosed = live.jobsClosed
         /\ child'.leader = child.leader /\ child'.held = child.held /\ child'.exit = child.exit
<1>1. child'.leader = child.leader /\ child'.held = child.held /\ child'.exit = child.exit
  BY SignalledEffect DEF CaptureFailed
<1>2. live' = live \/ live' = [live EXCEPT !.captureErr = "output"] BY DEF CaptureFailed
<1>3. live'.captureErr # "none" BY DEF CaptureFailed, TypeOK, Sessions
<1> QED BY <1>1, <1>2, <1>3 DEF TypeOK, Sessions

\* A failed write ends the job and marks the session killed; nothing else
\* changes but a pending signal.
LEMMA WriteFailsKeeps ==
  ASSUME TypeOK, WriteFails
  PROVE  /\ live'.captureErr # "none" /\ live'.target = "killed"
         /\ live'.state = live.state /\ live'.handle = live.handle
         /\ live'.input = live.input
         /\ live'.kills = live.kills /\ live'.accepted = live.accepted
         /\ live'.delivered = live.delivered /\ live'.jobs = live.jobs
         /\ live'.jobsClosed = live.jobsClosed
         /\ child'.leader = child.leader /\ child'.held = child.held /\ child'.exit = child.exit
         /\ pc.writer = "write" /\ pc'.writer = "receive" /\ pc'.job = NoJob
         /\ pc'.starter = pc.starter /\ pc'.waiter = pc.waiter /\ pc'.timer = pc.timer
         /\ pc'.capture = pc.capture /\ pc'.shutdown = pc.shutdown
         /\ UNCHANGED <<receipt, panicked, stdin, stdout, stream, sent>>
<1>1. child'.leader = child.leader /\ child'.held = child.held /\ child'.exit = child.exit
  BY SignalledEffect DEF WriteFails
<1>2. PICK e : e = IF live.captureErr = "none" THEN "input" ELSE live.captureErr OBVIOUS
<1>3. live' = [live EXCEPT !.captureErr = e, !.target = "killed"] BY <1>2 DEF WriteFails
<1>4. /\ live'.captureErr = e /\ live'.target = "killed"
      /\ live'.state = live.state /\ live'.handle = live.handle
      /\ live'.input = live.input
      /\ live'.kills = live.kills /\ live'.accepted = live.accepted
      /\ live'.delivered = live.delivered /\ live'.jobs = live.jobs
      /\ live'.jobsClosed = live.jobsClosed
  BY <1>3 DEF TypeOK, Sessions
<1>5. pc' = [pc EXCEPT !.writer = "receive", !.job = NoJob] /\ pc.writer = "write"
  BY DEF WriteFails, JobDone, Unwritten
<1>6. /\ pc'.writer = "receive" /\ pc'.job = NoJob
      /\ pc'.starter = pc.starter /\ pc'.waiter = pc.waiter /\ pc'.timer = pc.timer
      /\ pc'.capture = pc.capture /\ pc'.shutdown = pc.shutdown
  BY <1>5 DEF TypeOK, Places
<1>7. UNCHANGED <<receipt, panicked, stdin, stdout, stream, sent>> BY DEF WriteFails
<1> QED BY <1>1, <1>2, <1>4, <1>5, <1>6, <1>7

\* The timer sets a target and sends a signal.
LEMMA TimerKeeps ==
  ASSUME TypeOK, Timer
  PROVE  /\ live'.state = live.state /\ live'.captureErr = live.captureErr
         /\ live'.target = "none" => live.target = "none"
         /\ live'.input = live.input
         /\ live'.kills = live.kills /\ live'.accepted = live.accepted
         /\ live'.delivered = live.delivered /\ live'.jobs = live.jobs
         /\ live'.jobsClosed = live.jobsClosed
         /\ child'.leader = child.leader /\ child'.held = child.held /\ child'.exit = child.exit
         /\ pc'.starter = pc.starter /\ pc'.waiter = pc.waiter /\ pc'.writer = pc.writer
         /\ pc'.job = pc.job /\ pc'.capture = pc.capture /\ pc'.shutdown = pc.shutdown
         /\ UNCHANGED <<receipt, panicked, stdin, stdout, stream, sent>>
<1>1. child'.leader = child.leader /\ child'.held = child.held /\ child'.exit = child.exit
  BY SignalledEffect DEF Timer, TimerFires, GraceExpires
<1>2. live' = live \/ live' = [live EXCEPT !.target = "timed_out"]
  BY DEF Timer, TimerFires, GraceExpires
<1>3. pc' = [pc EXCEPT !.timer = "grace"] \/ pc' = [pc EXCEPT !.timer = "done"]
  BY DEF Timer, TimerFires, GraceExpires
<1>4. /\ live'.state = live.state /\ live'.captureErr = live.captureErr
      /\ live'.target = "none" => live.target = "none"
      /\ live'.input = live.input
      /\ live'.kills = live.kills /\ live'.accepted = live.accepted
      /\ live'.delivered = live.delivered /\ live'.jobs = live.jobs
      /\ live'.jobsClosed = live.jobsClosed
  BY <1>2 DEF TypeOK, Sessions
<1>5. /\ pc'.starter = pc.starter /\ pc'.waiter = pc.waiter /\ pc'.writer = pc.writer
      /\ pc'.job = pc.job /\ pc'.capture = pc.capture /\ pc'.shutdown = pc.shutdown
  BY <1>3 DEF TypeOK, Places
<1>6. UNCHANGED <<receipt, panicked, stdin, stdout, stream, sent>>
  BY DEF Timer, TimerFires, GraceExpires
<1> QED BY <1>1, <1>4, <1>5, <1>6

\* Shutdown sets a target, sends a signal, and is done only when the session is
\* terminal.
LEMMA StopperKeeps ==
  ASSUME TypeOK, Stopper
  PROVE  /\ live'.state = live.state /\ live'.captureErr = live.captureErr
         /\ live'.target = "none" => live.target = "none"
         /\ live'.input = live.input
         /\ live'.kills = live.kills /\ live'.accepted = live.accepted
         /\ live'.delivered = live.delivered /\ live'.jobs = live.jobs
         /\ live'.jobsClosed = live.jobsClosed
         /\ child'.leader = child.leader /\ child'.held = child.held /\ child'.exit = child.exit
         /\ pc'.starter = pc.starter /\ pc'.waiter = pc.waiter /\ pc'.writer = pc.writer
         /\ pc'.job = pc.job /\ pc'.capture = pc.capture
         /\ pc'.shutdown = "done" => live.state \in Terminal
         /\ UNCHANGED <<receipt, stdin, stdout, stream, sent>>
<1> USE DEF Stopper, ShutdownTerm, ShutdownWaits, ShutdownKill, ShutdownDone
<1>1. child'.leader = child.leader /\ child'.held = child.held /\ child'.exit = child.exit
  BY SignalledEffect
<1>2. live' = live \/ live' = [live EXCEPT !.target = "killed"] OBVIOUS
<1>3. \E s \in {"grace", "kill", "wait", "done"} :
        /\ pc' = [pc EXCEPT !.shutdown = s]
        /\ s = "done" => live.state \in Terminal
  OBVIOUS
<1>4. UNCHANGED <<receipt, stdin, stdout, stream, sent>> OBVIOUS
<1> HIDE DEF Stopper, ShutdownTerm, ShutdownWaits, ShutdownKill, ShutdownDone
<1>5. /\ live'.state = live.state /\ live'.captureErr = live.captureErr
      /\ live'.target = "none" => live.target = "none"
      /\ live'.input = live.input
      /\ live'.kills = live.kills /\ live'.accepted = live.accepted
      /\ live'.delivered = live.delivered /\ live'.jobs = live.jobs
      /\ live'.jobsClosed = live.jobsClosed
  BY <1>2 DEF TypeOK, Sessions
<1>6. /\ pc'.starter = pc.starter /\ pc'.waiter = pc.waiter /\ pc'.writer = pc.writer
      /\ pc'.job = pc.job /\ pc'.capture = pc.capture
      /\ pc'.shutdown = "done" => live.state \in Terminal
  BY <1>3 DEF TypeOK, Places
<1> QED BY <1>1, <1>4, <1>5, <1>6

\* The receipt is built once the writer is joined, from the counts of the
\* session; completed needs every reason to be clear (Classify).
LEMMA BuildReceiptEffect ==
  ASSUME TypeOK, BuildReceipt
  PROVE  /\ receipt'.state \in Terminal
         /\ receipt'.accepted = live.accepted /\ receipt'.delivered = live.delivered
         /\ receipt'.complete => live.captureErr = "none"
         /\ receipt'.state = "completed"
              => /\ live.target = "none" /\ live.captureErr = "none" /\ child.exit = "zero"
                 /\ live.accepted = live.delivered
         /\ pc.waiter = "join" /\ pc.writer = "done" /\ pc'.waiter = "publish"
         /\ pc'.writer = pc.writer /\ pc'.starter = pc.starter /\ pc'.capture = pc.capture
         /\ pc'.job = pc.job /\ pc'.shutdown = pc.shutdown
         /\ stdin'.ended /\ stdin'.got = stdin.got
         /\ UNCHANGED <<live, panicked, child, stdout, stream, sent>>
<1>1. PICK breach \in {FALSE, Limited} :
        receipt' = ReceiptFor(Classify(live.target, breach, live.captureErr, child.exit,
                                       live.accepted, live.delivered))
  BY DEF BuildReceipt
<1>2. PICK class : class = Classify(live.target, breach, live.captureErr, child.exit,
                                    live.accepted, live.delivered)
  OBVIOUS
<1>3. live.target \in {"none", "timed_out", "killed"} /\ breach \in BOOLEAN
  BY <1>1, Constants, SessionFields
<1>4. /\ class[1] \in Terminal
      /\ class[1] = "completed"
           => /\ live.target = "none" /\ live.captureErr = "none" /\ child.exit = "zero"
              /\ live.accepted = live.delivered
  BY <1>3, <1>2 DEF Classify, Terminal
<1>5. receipt' = ReceiptFor(class) BY <1>1, <1>2
<1>6. /\ receipt'.state = class[1] /\ (receipt'.complete => live.captureErr = "none")
      /\ receipt'.accepted = live.accepted /\ receipt'.delivered = live.delivered
  BY <1>5 DEF ReceiptFor
<1>7. /\ pc.waiter = "join" /\ pc.writer = "done" /\ pc'.waiter = "publish"
      /\ pc'.writer = pc.writer /\ pc'.starter = pc.starter /\ pc'.capture = pc.capture
      /\ pc'.job = pc.job /\ pc'.shutdown = pc.shutdown
  BY DEF BuildReceipt, TypeOK, Places
<1>8. /\ stdin'.ended /\ stdin'.got = stdin.got
      /\ UNCHANGED <<live, panicked, child, stdout, stream, sent>>
  BY DEF BuildReceipt, TypeOK
<1> QED BY <1>4, <1>6, <1>7, <1>8

\* An accepted write appends one job to the channel of a running session.
LEMMA EnqueueKeeps ==
  ASSUME TypeOK, NEW a, NEW b, NEW eof, Enqueue(a, b, eof)
  PROVE  /\ live.state = "running" /\ Addressable /\ a.err = "" /\ ~a.duplicate
         /\ live'.state = live.state /\ live'.handle = live.handle
         /\ live'.target = live.target /\ live'.captureErr = live.captureErr
         /\ live'.kills = live.kills /\ live'.delivered = live.delivered
         /\ live'.jobsClosed = live.jobsClosed
         /\ live'.input = a.ledger /\ live'.accepted = live.accepted + a.bytes
         /\ live'.jobs = Append(live.jobs, InputJob(b, eof)) /\ stream' = stream \o b
         /\ UNCHANGED <<pc, receipt, panicked, child, stdin, stdout, sent>>
<1>1. PICK q : q = live.accepted + a.bytes OBVIOUS
<1>2. PICK js : js = Append(live.jobs, InputJob(b, eof)) OBVIOUS
<1>3. PICK l : l = a.ledger OBVIOUS
<1>4. live' = [live EXCEPT !.input = l, !.accepted = q, !.jobs = js]
  BY <1>1, <1>2, <1>3 DEF Enqueue
<1>5. /\ live'.state = live.state /\ live'.handle = live.handle
      /\ live'.target = live.target /\ live'.captureErr = live.captureErr
      /\ live'.kills = live.kills /\ live'.delivered = live.delivered
      /\ live'.jobsClosed = live.jobsClosed
      /\ live'.input = l /\ live'.accepted = q /\ live'.jobs = js
  BY <1>4 DEF TypeOK, Sessions
<1>6. /\ live.state = "running" /\ Addressable /\ a.err = "" /\ ~a.duplicate
      /\ stream' = stream \o b
      /\ UNCHANGED <<pc, receipt, panicked, child, stdin, stdout, sent>>
  BY DEF Enqueue
<1> QED BY <1>1, <1>2, <1>3, <1>5, <1>6

\* A kill signals only an id that was not in the ledger, and records it.
LEMMA KillKeeps ==
  ASSUME TypeOK, NEW id \in KillIds, NEW signal \in KillSignals, Kill(id, signal)
  PROVE  /\ live'.state = live.state /\ live'.handle = live.handle
         /\ live'.captureErr = live.captureErr
         /\ live'.target = "none" => live.target = "none"
         /\ live'.jobs = live.jobs /\ live'.input = live.input
         /\ live'.accepted = live.accepted /\ live'.delivered = live.delivered
         /\ live'.jobsClosed = live.jobsClosed
         /\ live'.kills = [live.kills EXCEPT ![id] = signal]
         /\ sent' = sent \/ (live.kills[id] = "none" /\ sent' = [sent EXCEPT ![id] = @ + 1])
         /\ child'.leader = child.leader /\ child'.held = child.held /\ child'.exit = child.exit
         /\ UNCHANGED <<pc, receipt, stdin, stdout, stream>>
<1>1. PICK answer : answer = Admit(live.kills, id, signal, live.state \in Terminal) OBVIOUS
<1>2. live.kills \in [KillIds -> KillSignals \cup {"none"}] BY SessionFields
<1>3. (live.state \in Terminal) \in BOOLEAN OBVIOUS
<1>4. /\ answer.send \in BOOLEAN /\ (answer.send => live.kills[id] = "none")
      /\ answer.err = "" => answer.ledger = [live.kills EXCEPT ![id] = signal]
  <2>1. CASE live.kills[id] # "none"
    <3>1. /\ answer.ledger = live.kills /\ answer.send = FALSE
          /\ answer.err = "" => live.kills[id] = signal
      BY <1>1, <2>1 DEF Admit
    <3>2. live.kills[id] = signal => live.kills = [live.kills EXCEPT ![id] = signal] BY <1>2
    <3> QED BY <3>1, <3>2
  <2>2. CASE live.kills[id] = "none"
    <3>1. /\ answer.ledger = [live.kills EXCEPT ![id] = signal]
          /\ answer.send = ~(live.state \in Terminal)
      BY <1>1, <2>2 DEF Admit
    <3> QED BY <2>2, <3>1
  <2> QED BY <2>1, <2>2
<1>5. /\ answer.err = ""
      /\ live' = [live EXCEPT !.kills = answer.ledger,
                              !.target = IF answer.send THEN "killed" ELSE @]
      /\ child' = IF answer.send /\ live.handle THEN Signalled(signal) ELSE child
      /\ sent' = [sent EXCEPT ![id] = IF answer.send THEN @ + 1 ELSE @]
      /\ UNCHANGED <<pc, receipt, stdin, stdout, stream>>
  BY <1>1 DEF Kill
<1>6. PICK l : l = answer.ledger OBVIOUS
<1>7. PICK t : t = IF answer.send THEN "killed" ELSE live.target OBVIOUS
<1>8. live' = [live EXCEPT !.kills = l, !.target = t] BY <1>5, <1>6, <1>7
<1>9. /\ live'.state = live.state /\ live'.handle = live.handle
      /\ live'.captureErr = live.captureErr /\ live'.target = t /\ live'.kills = l
      /\ live'.jobs = live.jobs /\ live'.input = live.input
      /\ live'.accepted = live.accepted /\ live'.delivered = live.delivered
      /\ live'.jobsClosed = live.jobsClosed
  BY <1>8 DEF TypeOK, Sessions
<1>10. t = "none" => live.target = "none" BY <1>7
<1>11. child'.leader = child.leader /\ child'.held = child.held /\ child'.exit = child.exit
  BY <1>5, SignalledEffect
<1>12. sent' = sent \/ (live.kills[id] = "none" /\ sent' = [sent EXCEPT ![id] = @ + 1])
  <2>1. CASE answer.send BY <1>4, <1>5, <2>1
  <2>2. CASE ~answer.send
    <3>1. sent' = [sent EXCEPT ![id] = sent[id]] BY <1>5, <2>2
    <3>2. sent \in [KillIds -> Nat] BY DEF TypeOK
    <3> QED BY <3>1, <3>2
  <2> QED BY <2>1, <2>2
<1>13. l = [live.kills EXCEPT ![id] = signal] BY <1>4, <1>5, <1>6
<1> QED BY <1>5, <1>9, <1>10, <1>11, <1>12, <1>13

\* Requests change neither state nor counts of a session that is not running.
LEMMA ClientsKeep ==
  ASSUME TypeOK, Clients
  PROVE  /\ live'.state = live.state /\ live'.captureErr = live.captureErr
         /\ live'.delivered = live.delivered /\ live'.jobsClosed = live.jobsClosed
         /\ live'.target = "none" => live.target = "none"
         /\ live.state # "running" => /\ live'.accepted = live.accepted /\ stream' = stream
                                      /\ live'.jobs = live.jobs
         /\ child'.leader = child.leader /\ child'.held = child.held /\ child'.exit = child.exit
         /\ pc' = pc /\ receipt' = receipt /\ stdin' = stdin /\ stdout' = stdout
<1>1. CASE \E b \in Payloads, offset \in 0 .. MaxInput : Write(offset, b)
  <2>1. PICK b, a : Enqueue(a, b, FALSE) BY <1>1 DEF Write
  <2> QED BY <2>1, EnqueueKeeps
<1>2. CASE \E offset \in 0 .. MaxInput : WriteEOF(offset)
  <2>1. PICK a : Enqueue(a, <<>>, TRUE) BY <1>2 DEF WriteEOF
  <2> QED BY <2>1, EnqueueKeeps
<1>3. CASE \E id \in KillIds, signal \in KillSignals : Kill(id, signal) BY <1>3, KillKeeps
<1> QED BY <1>1, <1>2, <1>3 DEF Clients

\* Every step keeps Stages.
LEMMA StagesNext == IInv /\ [Next]_vars => Stages'
<1> SUFFICES ASSUME IInv, [Next]_vars PROVE Stages' OBVIOUS
<1> USE DEF IInv
<1>1. CASE Starter
  <2>1. CASE \E mode \in StdinModes : StartChild(mode)
    BY <2>1 DEF StartChild, Stages, TypeOK, Places, Sessions
  <2>2. CASE AttachHandle BY <2>2 DEF AttachHandle, Stages, TypeOK, Places, Sessions
  <2>3. CASE StartGoroutines BY <2>3 DEF StartGoroutines, Stages, TypeOK, Places, Sessions
  <2>4. CASE StartFails BY <2>4 DEF StartFails, Stages, TypeOK, Places, Sessions
  <2>5. CASE FinalizeStartFailure
    BY <2>5 DEF FinalizeStartFailure, Stages, TypeOK, Places, Sessions
  <2>6. CASE FinishStartFailure BY <2>6 DEF FinishStartFailure, Stages, TypeOK, Places, Sessions
  <2> QED BY <1>1, <2>1, <2>2, <2>3, <2>4, <2>5, <2>6 DEF Starter
<1>2. CASE Capture
  <2>1. CASE CaptureChunk BY <2>1 DEF CaptureChunk, Stages, TypeOK, Places, Sessions
  <2>2. CASE CaptureChunkFails
    <3>1. CaptureFailed BY <2>2 DEF CaptureChunkFails
    <3> QED
      BY <2>2, <3>1, CaptureFailedKeeps DEF CaptureChunkFails, TypeOK, Stages, Reaping, Terminal
  <2>3. CASE CaptureReadFails
    <3>1. CaptureFailed BY <2>3 DEF CaptureReadFails
    <3> QED
      BY <2>3, <3>1, CaptureFailedKeeps DEF CaptureReadFails, TypeOK, Places, Stages, Reaping,
         Terminal
  <2>4. CASE CaptureEnds BY <2>4 DEF CaptureEnds, Stages, TypeOK, Places, Sessions
  <2> QED BY <1>2, <2>1, <2>2, <2>3, <2>4 DEF Capture
<1>3. CASE Writer
  <2>1. CASE WriterReceives BY <2>1 DEF WriterReceives, Stages, TypeOK, Places, Sessions
  <2>2. CASE WriteByte BY <2>2 DEF WriteByte, Stages, TypeOK, Places, Sessions
  <2>3. CASE WriteReturns BY <2>3 DEF WriteReturns, JobDone, Stages, TypeOK, Places, Sessions
  <2>4. CASE WriterEndsInput
    BY <2>4 DEF WriterEndsInput, JobDone, Stages, TypeOK, Places, Sessions
  <2>5. CASE WriteFails BY <2>5, WriteFailsKeeps DEF Stages, Reaping, Terminal
  <2>6. CASE WriterEnds BY <2>6 DEF WriterEnds, Stages, TypeOK, Places, Sessions
  <2> QED BY <1>3, <2>1, <2>2, <2>3, <2>4, <2>5, <2>6 DEF Writer
<1>4. CASE Waiter
  <2>1. CASE WaitReturns BY <2>1 DEF WaitReturns, Stages, TypeOK, Places, Sessions
  <2>2. CASE CloseJobs BY <2>2 DEF CloseJobs, Stages, TypeOK, Places, Sessions
  <2>3. CASE BuildReceipt BY <2>3, BuildReceiptEffect DEF Stages, Reaping, Terminal
  <2>4. CASE FinishWait BY <2>4 DEF FinishWait, Stages, TypeOK, Places, Sessions
  <2>5. CASE EvictTerminated BY <2>5 DEF EvictTerminated, Stages, TypeOK, Places, Sessions
  <2> QED BY <1>4, <2>1, <2>2, <2>3, <2>4, <2>5 DEF Waiter
<1>5. CASE Timer BY <1>5, TimerKeeps DEF Stages, Terminal, TypeOK, Places
<1>6. CASE Stopper BY <1>6, StopperKeeps DEF Stages, Terminal, TypeOK, Places
<1>7. CASE Clients BY <1>7, ClientsKeep DEF Stages, Terminal, TypeOK, Places
<1>8. CASE Child
  <2>1. CASE \E code \in {"zero", "nonzero"}, held \in Holds : ChildExits(code, held)
    BY <2>1 DEF ChildExits, Stages, TypeOK, Places, Sessions
  <2>2. CASE ChildDies BY <2>2 DEF ChildDies, Stages, TypeOK, Places, Sessions
  <2>3. CASE DescendantsExit BY <2>3 DEF DescendantsExit, Stages, TypeOK, Places, Sessions
  <2>4. CASE ChildReads BY <2>4 DEF ChildReads, Stages, TypeOK, Places, Sessions
  <2>5. CASE ChildWrites BY <2>5 DEF ChildWrites, Stages, TypeOK, Places, Sessions
  <2> QED BY <1>8, <2>1, <2>2, <2>3, <2>4, <2>5 DEF Child
<1>9. CASE ShutdownBegins
  BY <1>9 DEF ShutdownBegins, Stages, TypeOK, Places, Sessions, Addressable, Terminal
<1>10. CASE ShutdownExpires BY <1>10 DEF ShutdownExpires, Stages, TypeOK, Places, Sessions
<1>11. CASE UNCHANGED vars BY <1>11 DEF vars, Stages, TypeOK, Places, Sessions
<1>12. CASE Ended BY <1>11, <1>12 DEF Ended
<1> QED BY <1>1, <1>2, <1>3, <1>4, <1>5, <1>6, <1>7, <1>8, <1>9, <1>10, <1>11, <1>12 DEF Next

\* Every step keeps Reaping.
LEMMA ReapingNext == IInv /\ [Next]_vars => Reaping'
<1> SUFFICES ASSUME IInv, [Next]_vars PROVE Reaping' OBVIOUS
<1> USE DEF IInv
<1>1. CASE Starter
  <2>1. CASE \E mode \in StdinModes : StartChild(mode)
    BY <2>1 DEF StartChild, Reaping, Stages, TypeOK, Places, Sessions, Groups
  <2>2. CASE AttachHandle
    BY <2>2 DEF AttachHandle, Reaping, Stages, TypeOK, Places, Sessions, Groups
  <2>3. CASE StartGoroutines
    BY <2>3, SignalledEffect DEF StartGoroutines, Reaping, Stages, TypeOK, Places, Sessions,
       Groups
  <2>4. CASE StartFails
    BY <2>4 DEF StartFails, Reaping, Stages, TypeOK, Places, Sessions, Groups
  <2>5. CASE FinalizeStartFailure
    BY <2>5 DEF FinalizeStartFailure, Reaping, Stages, TypeOK, Places, Sessions, Groups
  <2>6. CASE FinishStartFailure
    BY <2>6 DEF FinishStartFailure, Reaping, Stages, TypeOK, Places, Sessions, Groups
  <2> QED BY <1>1, <2>1, <2>2, <2>3, <2>4, <2>5, <2>6 DEF Starter
<1>2. CASE Capture
  <2>1. CASE CaptureChunk
    BY <2>1 DEF CaptureChunk, Reaping, Stages, TypeOK, Places, Sessions, Groups
  <2>2. CASE CaptureChunkFails
    <3>1. CaptureFailed BY <2>2 DEF CaptureChunkFails
    <3> QED BY <2>2, <3>1, CaptureFailedKeeps DEF CaptureChunkFails, TypeOK, Reaping, Stages
  <2>3. CASE CaptureReadFails
    <3>1. CaptureFailed BY <2>3 DEF CaptureReadFails
    <3> QED
      BY <2>3, <3>1, CaptureFailedKeeps DEF CaptureReadFails, TypeOK, Places, Reaping, Stages
  <2>4. CASE CaptureEnds
    BY <2>4 DEF CaptureEnds, Reaping, Stages, TypeOK, Places, Sessions, Groups
  <2> QED BY <1>2, <2>1, <2>2, <2>3, <2>4 DEF Capture
<1>3. CASE Writer
  <2>1. CASE WriterReceives
    BY <2>1 DEF WriterReceives, Reaping, Stages, TypeOK, Places, Sessions, Groups
  <2>2. CASE WriteByte BY <2>2 DEF WriteByte, Reaping, Stages, TypeOK, Places, Sessions, Groups
  <2>3. CASE WriteReturns
    BY <2>3 DEF WriteReturns, JobDone, Reaping, Stages, TypeOK, Places, Sessions, Groups
  <2>4. CASE WriterEndsInput
    BY <2>4 DEF WriterEndsInput, JobDone, Reaping, Stages, TypeOK, Places, Sessions, Groups
  <2>5. CASE WriteFails BY <2>5, WriteFailsKeeps DEF Reaping, Stages
  <2>6. CASE WriterEnds
    BY <2>6 DEF WriterEnds, Reaping, Stages, TypeOK, Places, Sessions, Groups
  <2> QED BY <1>3, <2>1, <2>2, <2>3, <2>4, <2>5, <2>6 DEF Writer
<1>4. CASE Waiter
  <2>1. CASE WaitReturns
    BY <2>1 DEF WaitReturns, Reaping, Stages, TypeOK, Places, Sessions, Groups
  <2>2. CASE CloseJobs BY <2>2 DEF CloseJobs, Reaping, Stages, TypeOK, Places, Sessions, Groups
  <2>3. CASE BuildReceipt BY <2>3, BuildReceiptEffect DEF Reaping, Stages
  <2>4. CASE FinishWait
    BY <2>4 DEF FinishWait, Reaping, Stages, TypeOK, Places, Sessions, Groups
  <2>5. CASE EvictTerminated
    BY <2>5 DEF EvictTerminated, Reaping, Stages, TypeOK, Places, Sessions, Groups
  <2> QED BY <1>4, <2>1, <2>2, <2>3, <2>4, <2>5 DEF Waiter
<1>5. CASE Timer BY <1>5, TimerKeeps DEF Reaping, Stages, Terminal
<1>6. CASE Stopper BY <1>6, StopperKeeps DEF Reaping, Stages, Terminal
<1>7. CASE Clients BY <1>7, ClientsKeep DEF Reaping, Stages, Terminal
<1>8. CASE Child
  <2>1. CASE \E code \in {"zero", "nonzero"}, held \in Holds : ChildExits(code, held)
    BY <2>1 DEF ChildExits, Reaping, Stages, TypeOK, Places, Sessions, Groups
  <2>2. CASE ChildDies
    BY <2>2 DEF ChildDies, Reaping, Stages, TypeOK, Places, Sessions, Groups, GroupAlive
  <2>3. CASE DescendantsExit
    BY <2>3 DEF DescendantsExit, Reaping, Stages, TypeOK, Places, Sessions, Groups
  <2>4. CASE ChildReads
    BY <2>4 DEF ChildReads, Reaping, Stages, TypeOK, Places, Sessions, Groups
  <2>5. CASE ChildWrites
    BY <2>5 DEF ChildWrites, Reaping, Stages, TypeOK, Places, Sessions, Groups
  <2> QED BY <1>8, <2>1, <2>2, <2>3, <2>4, <2>5 DEF Child
<1>9. CASE ShutdownBegins
  BY <1>9 DEF ShutdownBegins, Reaping, Stages, TypeOK, Places, Sessions, Groups
<1>10. CASE ShutdownExpires
  BY <1>10 DEF ShutdownExpires, Reaping, Stages, TypeOK, Places, Sessions, Groups
<1>11. CASE UNCHANGED vars BY <1>11 DEF vars, Reaping, Stages, TypeOK, Places, Sessions, Groups
<1>12. CASE Ended BY <1>11, <1>12 DEF Ended
<1> QED BY <1>1, <1>2, <1>3, <1>4, <1>5, <1>6, <1>7, <1>8, <1>9, <1>10, <1>11, <1>12 DEF Next

\* Every step keeps Capturing.
LEMMA CapturingNext == IInv /\ [Next]_vars => Capturing'
<1> SUFFICES ASSUME IInv, [Next]_vars PROVE Capturing' OBVIOUS
<1> USE DEF IInv
<1>1. CASE Starter
  <2>1. CASE \E mode \in StdinModes : StartChild(mode)
    BY <2>1 DEF StartChild, Capturing, TypeOK, Places, Sessions, Groups, Producer
  <2>2. CASE AttachHandle
    BY <2>2 DEF AttachHandle, Capturing, TypeOK, Places, Sessions, Groups, Producer
  <2>3. CASE StartGoroutines
    BY <2>3, SignalledEffect DEF StartGoroutines, Capturing, TypeOK, Places, Sessions, Groups,
       Producer
  <2>4. CASE StartFails
    BY <2>4 DEF StartFails, Capturing, TypeOK, Places, Sessions, Groups, Producer
  <2>5. CASE FinalizeStartFailure
    BY <2>5 DEF FinalizeStartFailure, Capturing, TypeOK, Places, Sessions, Groups, Producer
  <2>6. CASE FinishStartFailure
    BY <2>6 DEF FinishStartFailure, Capturing, TypeOK, Places, Sessions, Groups, Producer
  <2> QED BY <1>1, <2>1, <2>2, <2>3, <2>4, <2>5, <2>6 DEF Starter
<1>2. CASE Capture
  <2>1. CASE CaptureChunk
    BY <2>1 DEF CaptureChunk, Capturing, TypeOK, Places, Sessions, Groups, Producer
  <2>2. CASE CaptureChunkFails
    <3>1. CaptureFailed BY <2>2 DEF CaptureChunkFails
    <3> QED BY <2>2, <3>1, CaptureFailedKeeps DEF CaptureChunkFails, TypeOK, Capturing, Producer
  <2>3. CASE CaptureReadFails
    <3>1. CaptureFailed BY <2>3 DEF CaptureReadFails
    <3> QED
      BY <2>3, <3>1, CaptureFailedKeeps DEF CaptureReadFails, TypeOK, Places, Capturing,
         Producer
  <2>4. CASE CaptureEnds
    BY <2>4 DEF CaptureEnds, Capturing, TypeOK, Places, Sessions, Groups, Producer
  <2> QED BY <1>2, <2>1, <2>2, <2>3, <2>4 DEF Capture
<1>3. CASE Writer
  <2>1. CASE WriterReceives
    BY <2>1 DEF WriterReceives, Capturing, TypeOK, Places, Sessions, Groups, Producer
  <2>2. CASE WriteByte
    BY <2>2 DEF WriteByte, Capturing, TypeOK, Places, Sessions, Groups, Producer
  <2>3. CASE WriteReturns
    BY <2>3 DEF WriteReturns, JobDone, Capturing, TypeOK, Places, Sessions, Groups, Producer
  <2>4. CASE WriterEndsInput
    BY <2>4 DEF WriterEndsInput, JobDone, Capturing, TypeOK, Places, Sessions, Groups, Producer
  <2>5. CASE WriteFails BY <2>5, WriteFailsKeeps DEF Capturing, Producer
  <2>6. CASE WriterEnds
    BY <2>6 DEF WriterEnds, Capturing, TypeOK, Places, Sessions, Groups, Producer
  <2> QED BY <1>3, <2>1, <2>2, <2>3, <2>4, <2>5, <2>6 DEF Writer
<1>4. CASE Waiter
  <2>1. CASE WaitReturns
    BY <2>1 DEF WaitReturns, Capturing, TypeOK, Places, Sessions, Groups, Producer
  <2>2. CASE CloseJobs
    BY <2>2 DEF CloseJobs, Capturing, TypeOK, Places, Sessions, Groups, Producer
  <2>3. CASE BuildReceipt BY <2>3, BuildReceiptEffect DEF Capturing, Producer
  <2>4. CASE FinishWait
    BY <2>4 DEF FinishWait, Capturing, TypeOK, Places, Sessions, Groups, Producer
  <2>5. CASE EvictTerminated
    BY <2>5 DEF EvictTerminated, Capturing, TypeOK, Places, Sessions, Groups, Producer
  <2> QED BY <1>4, <2>1, <2>2, <2>3, <2>4, <2>5 DEF Waiter
<1>5. CASE Timer BY <1>5, TimerKeeps DEF Capturing, Producer
<1>6. CASE Stopper BY <1>6, StopperKeeps DEF Capturing, Producer
<1>7. CASE Clients BY <1>7, ClientsKeep DEF Capturing, Producer
<1>8. CASE Child
  <2>1. CASE \E code \in {"zero", "nonzero"}, held \in Holds : ChildExits(code, held)
    BY <2>1 DEF ChildExits, Capturing, TypeOK, Places, Sessions, Groups, Producer
  <2>2. CASE ChildDies
    BY <2>2 DEF ChildDies, Capturing, TypeOK, Places, Sessions, Groups, Producer
  <2>3. CASE DescendantsExit
    BY <2>3 DEF DescendantsExit, Capturing, TypeOK, Places, Sessions, Groups, Producer
  <2>4. CASE ChildReads
    BY <2>4 DEF ChildReads, Capturing, TypeOK, Places, Sessions, Groups, Producer
  <2>5. CASE ChildWrites
    BY <2>5 DEF ChildWrites, Capturing, TypeOK, Places, Sessions, Groups, Producer
  <2> QED BY <1>8, <2>1, <2>2, <2>3, <2>4, <2>5 DEF Child
<1>9. CASE ShutdownBegins
  BY <1>9 DEF ShutdownBegins, Capturing, TypeOK, Places, Sessions, Groups, Producer
<1>10. CASE ShutdownExpires
  BY <1>10 DEF ShutdownExpires, Capturing, TypeOK, Places, Sessions, Groups, Producer
<1>11. CASE UNCHANGED vars
  BY <1>11 DEF vars, Capturing, TypeOK, Places, Sessions, Groups, Producer
<1>12. CASE Ended BY <1>11, <1>12 DEF Ended
<1> QED BY <1>1, <1>2, <1>3, <1>4, <1>5, <1>6, <1>7, <1>8, <1>9, <1>10, <1>11, <1>12 DEF Next

\* When the writer is done and the counts agree, the pipe was given the whole
\* stream.
LEMMA AllDelivered ==
  ASSUME TypeOK, Input, pc.writer = "done", live.jobs = <<>>, live.target = "none",
         live.accepted = live.delivered
  PROVE  stdin.got = stream
<1>1. PICK p \in [0 .. Len(live.jobs) + 1 -> 0 .. Len(stream)] : Positions(p) /\ Feeding(p)
  BY DEF Input
<1>2. stream \in Seq(Bytes) /\ stdin.got \in Seq(Bytes) BY SessionFields
<1>3. Len(live.jobs) = 0 /\ Len(pc.job.data) = 0 /\ pc.job.written = 0
  BY DEF Input, Whole, NoJob, InputJob
<1>4. p[0] \in Nat BY <1>1, <1>2, <1>3
<1>5. Len(stdin.got) = Len(stream)
  BY <1>1, <1>2, <1>3, <1>4 DEF Feeding, Input, Whole
<1>6. \A k \in 1 .. Len(stdin.got) : stdin.got[k] = stream[k] BY DEF Input, Whole
<1> QED BY <1>2, <1>5, <1>6, SeqEqual

\* Before the receipt is built nothing is claimed.
LEMMA NothingClaimed ==
  ASSUME Claims, pc.waiter \notin {"publish", "evict", "done"}
  PROVE  receipt.state # "completed" /\ ~receipt.complete
BY DEF Claims

\* Every step keeps Claims: BuildReceipt makes them true, and after it nothing
\* they speak of changes.
LEMMA ClaimsNext == IInv /\ [Next]_vars => Claims'
<1> SUFFICES ASSUME IInv, [Next]_vars PROVE Claims' OBVIOUS
<1> USE DEF IInv
<1>1. CASE Starter
  <2>1. CASE \E mode \in StdinModes : StartChild(mode)
    <3>1. receipt' = receipt /\ pc.starter = "activated" BY <2>1 DEF StartChild
    <3>2. pc.waiter = "off" BY <3>1 DEF Stages
    <3> QED BY <3>1, <3>2, NothingClaimed DEF Claims
  <2>2. CASE AttachHandle
    BY <2>2 DEF AttachHandle, Claims, Stages, Reaping, TypeOK, Places, Sessions, Groups,
       Receipts, Producer, Terminal
  <2>3. CASE StartGoroutines
    BY <2>3, SignalledEffect DEF StartGoroutines, Claims, Stages, Reaping, TypeOK, Places,
       Sessions, Groups, Receipts, Producer, Terminal
  <2>4. CASE StartFails
    BY <2>4 DEF StartFails, Claims, Stages, Reaping, TypeOK, Places, Sessions, Groups, Receipts,
       Producer, Terminal
  <2>5. CASE FinalizeStartFailure
    BY <2>5 DEF FinalizeStartFailure, Claims, Stages, Reaping, TypeOK, Places, Sessions, Groups,
       Receipts, Producer, Terminal, NoReceipt
  <2>6. CASE FinishStartFailure
    BY <2>6 DEF FinishStartFailure, Claims, Stages, Reaping, TypeOK, Places, Sessions, Groups,
       Receipts, Producer, Terminal
  <2> QED BY <1>1, <2>1, <2>2, <2>3, <2>4, <2>5, <2>6 DEF Starter
<1>2. CASE Capture
  <2>1. CASE CaptureChunk
    BY <2>1 DEF CaptureChunk, Claims, Stages, Reaping, TypeOK, Places, Sessions, Groups,
       Receipts, Producer, Terminal
  <2>2. CASE CaptureChunkFails
    <3>1. CaptureFailed BY <2>2 DEF CaptureChunkFails
    <3> QED
      BY <2>2, <3>1, CaptureFailedKeeps DEF CaptureChunkFails, TypeOK, Claims, Reaping, Stages,
         Producer, Terminal
  <2>3. CASE CaptureReadFails
    <3>1. CaptureFailed BY <2>3 DEF CaptureReadFails
    <3> QED
      BY <2>3, <3>1, CaptureFailedKeeps DEF CaptureReadFails, TypeOK, Places, Claims, Reaping,
         Stages, Producer, Terminal
  <2>4. CASE CaptureEnds
    BY <2>4 DEF CaptureEnds, Claims, Stages, Reaping, TypeOK, Places, Sessions, Groups,
       Receipts, Producer, Terminal
  <2> QED BY <1>2, <2>1, <2>2, <2>3, <2>4 DEF Capture
<1>3. CASE Writer
  <2>1. CASE WriterReceives
    BY <2>1 DEF WriterReceives, Claims, Stages, Reaping, TypeOK, Places, Sessions, Groups,
       Receipts, Producer, Terminal
  <2>2. CASE WriteByte
    <3>1. pc.waiter \notin {"publish", "evict", "done"}
      BY <2>2 DEF WriteByte, Unwritten, Reaping
    <3> QED BY <2>2, <3>1, NothingClaimed DEF WriteByte, Claims
  <2>3. CASE WriteReturns
    BY <2>3 DEF WriteReturns, JobDone, Claims, Stages, Reaping, TypeOK, Places, Sessions,
       Groups, Receipts, Producer, Terminal
  <2>4. CASE WriterEndsInput
    BY <2>4 DEF WriterEndsInput, JobDone, Claims, Stages, Reaping, TypeOK, Places, Sessions,
       Groups, Receipts, Producer, Terminal
  <2>5. CASE WriteFails BY <2>5, WriteFailsKeeps DEF Claims, Reaping, Stages, Producer, Terminal
  <2>6. CASE WriterEnds
    BY <2>6 DEF WriterEnds, Claims, Stages, Reaping, TypeOK, Places, Sessions, Groups, Receipts,
       Producer, Terminal
  <2> QED BY <1>3, <2>1, <2>2, <2>3, <2>4, <2>5, <2>6 DEF Writer
<1>4. CASE Waiter
  <2>1. CASE WaitReturns
    BY <2>1 DEF WaitReturns, Claims, Stages, Reaping, TypeOK, Places, Sessions, Groups,
       Receipts, Producer, Terminal
  <2>2. CASE CloseJobs
    BY <2>2 DEF CloseJobs, Claims, Stages, Reaping, TypeOK, Places, Sessions, Groups, Receipts,
       Producer, Terminal
  <2>3. CASE BuildReceipt
    <3>1. live.jobs = <<>> BY <2>3, BuildReceiptEffect DEF Reaping
    <3>2. receipt'.state = "completed" => stdin.got = stream
      BY <2>3, <3>1, BuildReceiptEffect, AllDelivered
    <3>3. live.captureErr = "none" => ~stdout.lost /\ stdout.pending = 0 /\ ~Producer
      BY <2>3, BuildReceiptEffect DEF Capturing, Reaping
    <3> QED BY <2>3, <3>2, <3>3, BuildReceiptEffect DEF Claims, Producer
  <2>4. CASE FinishWait
    BY <2>4 DEF FinishWait, Claims, Stages, Reaping, TypeOK, Places, Sessions, Groups, Receipts,
       Producer, Terminal
  <2>5. CASE EvictTerminated
    BY <2>5 DEF EvictTerminated, Claims, Stages, Reaping, TypeOK, Places, Sessions, Groups,
       Receipts, Producer, Terminal
  <2> QED BY <1>4, <2>1, <2>2, <2>3, <2>4, <2>5 DEF Waiter
<1>5. CASE Timer BY <1>5, TimerKeeps DEF Claims, Reaping, Stages, Producer, Terminal
<1>6. CASE Stopper BY <1>6, StopperKeeps DEF Claims, Reaping, Stages, Producer, Terminal
<1>7. CASE Clients BY <1>7, ClientsKeep DEF Claims, Reaping, Stages, Producer, Terminal
<1>8. CASE Child
  <2>1. CASE \E code \in {"zero", "nonzero"}, held \in Holds : ChildExits(code, held)
    <3>1. pc.waiter \notin {"publish", "evict", "done"} BY <2>1 DEF ChildExits, Reaping
    <3> QED BY <2>1, <3>1, NothingClaimed DEF ChildExits, Claims
  <2>2. CASE ChildDies
    BY <2>2 DEF ChildDies, Claims, Stages, Reaping, TypeOK, Places, Sessions, Groups, Receipts,
       Producer, Terminal
  <2>3. CASE DescendantsExit
    BY <2>3 DEF DescendantsExit, Claims, Stages, Reaping, TypeOK, Places, Sessions, Groups,
       Receipts, Producer, Terminal
  <2>4. CASE ChildReads
    BY <2>4 DEF ChildReads, Claims, Stages, Reaping, TypeOK, Places, Sessions, Groups, Receipts,
       Producer, Terminal
  <2>5. CASE ChildWrites
    BY <2>5 DEF ChildWrites, Claims, Stages, Reaping, TypeOK, Places, Sessions, Groups,
       Receipts, Producer, Terminal
  <2> QED BY <1>8, <2>1, <2>2, <2>3, <2>4, <2>5 DEF Child
<1>9. CASE ShutdownBegins
  BY <1>9 DEF ShutdownBegins, Claims, Stages, Reaping, TypeOK, Places, Sessions, Groups,
     Receipts, Producer, Terminal
<1>10. CASE ShutdownExpires
  BY <1>10 DEF ShutdownExpires, Claims, Stages, Reaping, TypeOK, Places, Sessions, Groups,
     Receipts, Producer, Terminal
<1>11. CASE UNCHANGED vars
  BY <1>11 DEF vars, Claims, Stages, Reaping, TypeOK, Places, Sessions, Groups, Receipts,
     Producer, Terminal
<1>12. CASE Ended BY <1>11, <1>12 DEF Ended
<1> QED BY <1>1, <1>2, <1>3, <1>4, <1>5, <1>6, <1>7, <1>8, <1>9, <1>10, <1>11, <1>12 DEF Next

\* A step that leaves jobs, ledger, counts and pipe alone keeps the cut.
LEMMA InputKept ==
  ASSUME TypeOK, Input, live'.jobs = live.jobs, live'.input = live.input,
         live'.accepted = live.accepted, live'.delivered = live.delivered,
         live'.target = "none" => live.target = "none", pc'.job = pc.job,
         pc'.writer # "write" => pc.writer # "write",
         stdin'.got = stdin.got, Broken => Broken', stream' = stream
  PROVE  Input'
<1>1. PICK p \in [0 .. Len(live.jobs) + 1 -> 0 .. Len(stream)] : Positions(p) /\ Feeding(p)
  BY DEF Input
<1>2. Whole' BY DEF Whole, Input
<1>3. Positions(p)' BY <1>1 DEF Positions
<1>4. Feeding(p)' BY <1>1 DEF Feeding
<1>5. p \in [0 .. Len(live'.jobs) + 1 -> 0 .. Len(stream')] BY <1>1
<1> QED BY <1>2, <1>3, <1>4, <1>5 DEF Input

\* The numbers of a cut.
LEMMA PositionFields ==
  ASSUME TypeOK, NEW p \in [0 .. Len(live.jobs) + 1 -> 0 .. Len(stream)]
  PROVE  /\ Len(live.jobs) \in Nat /\ Len(stream) \in Nat /\ Len(pc.job.data) \in Nat
         /\ pc.job.written \in Nat /\ Len(stdin.got) \in Nat
         /\ \A i \in 0 .. Len(live.jobs) + 1 : p[i] \in Nat /\ p[i] <= Len(stream)
         /\ \A i \in 1 .. Len(live.jobs) : live.jobs[i] \in Jobs /\ Len(live.jobs[i].data) \in Nat
         /\ live.input.queued \in Nat /\ live.delivered \in Nat
<1>1. /\ live.jobs \in Seq(Jobs) /\ stream \in Seq(Bytes) /\ pc.job \in Jobs
      /\ stdin.got \in Seq(Bytes) /\ live.input \in InputLedgers
      /\ live.delivered \in Nat
  BY SessionFields, Constants
<1>2. /\ Len(live.jobs) \in Nat /\ Len(stream) \in Nat /\ Len(stdin.got) \in Nat BY <1>1
<1>3. pc.job.written \in Nat /\ Len(pc.job.data) \in Nat BY <1>1 DEF Jobs
<1>4. live.input.queued \in Nat BY <1>1, LedgerFields
<1>5. \A i \in 0 .. Len(live.jobs) + 1 : p[i] \in Nat /\ p[i] <= Len(stream) BY <1>2
<1>6. \A i \in 1 .. Len(live.jobs) : live.jobs[i] \in Jobs /\ Len(live.jobs[i].data) \in Nat
  <2>1. ASSUME NEW i \in 1 .. Len(live.jobs) PROVE live.jobs[i] \in Jobs BY <1>1, <2>1
  <2> QED BY <2>1 DEF Jobs
<1> QED BY <1>1, <1>2, <1>3, <1>4, <1>5, <1>6

\* The writer lets go of its job: from then on it is at the next one.
LEMMA JobLetGo ==
  ASSUME TypeOK, Input, live'.jobs = live.jobs, live'.input.closed = live.input.closed,
         live'.input.next = live.input.next, live'.accepted = live.accepted,
         stdin'.got = stdin.got, Broken => Broken', stream' = stream,
         pc'.writer = "receive", pc'.job = NoJob,
         \A p \in [0 .. Len(live.jobs) + 1 -> 0 .. Len(stream)] : Positions(p) /\ Feeding(p) =>
           /\ Len(stream) - p[1] <= live'.input.queued
           /\ live'.target = "none" => live'.delivered = p[1]
           /\ live'.delivered <= p[1]
           /\ live'.target = "none" \/ ~Broken' => Len(stdin.got) = p[1]
  PROVE  Input'
<1>1. PICK p \in [0 .. Len(live.jobs) + 1 -> 0 .. Len(stream)] : Positions(p) /\ Feeding(p)
  BY DEF Input
<1>2. /\ Len(live.jobs) \in Nat /\ Len(stream) \in Nat /\ Len(pc.job.data) \in Nat
      /\ pc.job.written \in Nat /\ Len(stdin.got) \in Nat
      /\ \A i \in 0 .. Len(live.jobs) + 1 : p[i] \in Nat /\ p[i] <= Len(stream)
  BY PositionFields
<1>3. NoJob.data = <<>> /\ NoJob.written = 0 /\ ~NoJob.eof /\ Len(NoJob.data) = 0
  BY DEF NoJob, InputJob
<1>4. Whole' BY <1>3 DEF Whole, Input
<1>5. PICK q : q = [i \in 0 .. Len(live.jobs) + 1 |-> IF i = 0 THEN p[1] ELSE p[i]] OBVIOUS
<1>6. /\ q \in [0 .. Len(live.jobs) + 1 -> 0 .. Len(stream)]
      /\ \A i \in 1 .. Len(live.jobs) + 1 : q[i] = p[i]
      /\ q[0] = p[1] /\ q[1] = p[1]
  BY <1>2, <1>5
<1>7. Positions(q)'
  <2>1. Len(live.jobs) + 1 \in 1 .. Len(live.jobs) + 1 BY <1>2
  <2>2. q[Len(live.jobs) + 1] = Len(stream) BY <1>1, <1>6, <2>1 DEF Positions
  <2>3. q[1] = q[0] + 0 BY <1>2, <1>6
  <2>4. \A i \in 1 .. Len(live.jobs) :
          /\ q[i + 1] = q[i] + Len(live.jobs[i].data)
          /\ \A k \in 1 .. Len(live.jobs[i].data) : live.jobs[i].data[k] = stream[q[i] + k]
    <3> TAKE i \in 1 .. Len(live.jobs)
    <3>1. i \in 1 .. Len(live.jobs) + 1 /\ i + 1 \in 1 .. Len(live.jobs) + 1 BY <1>2
    <3>2. q[i] = p[i] /\ q[i + 1] = p[i + 1] BY <1>6, <3>1
    <3> QED BY <1>1, <3>2 DEF Positions
  <2> QED BY <1>3, <2>2, <2>3, <2>4 DEF Positions
<1>8. Feeding(q)'
  <2>1. /\ Len(stream) - p[1] <= live'.input.queued
        /\ live'.target = "none" => live'.delivered = p[1]
        /\ live'.delivered <= p[1]
        /\ live'.target = "none" \/ ~Broken' => Len(stdin.got) = p[1]
    BY <1>1
  <2>2. ~live.input.closed
          => \A i, j \in 1 .. Len(live.jobs) + 1 : i <= j => q[j] - q[i] >= j - i
    BY <1>1, <1>6 DEF Feeding
  <2>3. Len(stdin.got) <= p[1]
    <3>1. pc.job.written <= Len(pc.job.data) BY DEF Input, Whole
    <3>2. Len(stdin.got) <= p[0] + pc.job.written /\ p[1] = p[0] + Len(pc.job.data)
      BY <1>1 DEF Feeding, Positions
    <3>3. p[0] \in Nat /\ p[1] \in Nat BY <1>2
    <3> QED BY <1>2, <3>1, <3>2, <3>3
  <2>4. p[1] + 0 = p[1] BY <1>2
  <2> QED BY <1>3, <1>6, <2>1, <2>2, <2>3, <2>4 DEF Feeding
<1>9. q \in [0 .. Len(live'.jobs) + 1 -> 0 .. Len(stream')] BY <1>6
<1> QED BY <1>4, <1>7, <1>8, <1>9 DEF Input

\* The writer takes the first job of the channel: the cut loses its first
\* position.
LEMMA InputReceive == ASSUME TypeOK, Input, WriterReceives PROVE Input'
<1>1. PICK p \in [0 .. Len(live.jobs) + 1 -> 0 .. Len(stream)] : Positions(p) /\ Feeding(p)
  BY DEF Input
<1>2. /\ Len(live.jobs) \in Nat /\ Len(stream) \in Nat
      /\ Len(stdin.got) \in Nat
      /\ \A i \in 0 .. Len(live.jobs) + 1 : p[i] \in Nat /\ p[i] <= Len(stream)
  BY PositionFields
<1>3. NoJob.data = <<>> /\ NoJob.written = 0 /\ Len(NoJob.data) = 0 BY DEF NoJob, InputJob
<1>4. pc.job = NoJob BY DEF WriterReceives, Input, Whole
<1>5. PICK n \in Nat : n = Len(live.jobs) - 1 /\ n + 1 = Len(live.jobs)
  <2>1. live.jobs \in Seq(Jobs) /\ live.jobs # <<>> BY SessionFields DEF WriterReceives
  <2>2. Len(live.jobs) > 0 BY <2>1
  <2>3. Len(live.jobs) - 1 \in Nat /\ (Len(live.jobs) - 1) + 1 = Len(live.jobs) BY <1>2, <2>2
  <2> QED BY <2>3
<1>6. PICK js : js = Tail(live.jobs) OBVIOUS
<1>7. Len(js) = n /\ \A i \in 1 .. n : js[i] = live.jobs[i + 1]
  <2>1. live.jobs \in Seq(Jobs) /\ live.jobs # <<>> BY SessionFields DEF WriterReceives
  <2> QED BY <1>5, <1>6, <2>1, HeadTailProperties
<1>8. /\ live'.jobs = js /\ pc'.job = live.jobs[1] /\ pc'.writer = "write"
      /\ live'.input = live.input /\ live'.accepted = live.accepted
      /\ live'.delivered = live.delivered /\ live'.target = live.target
      /\ stream' = stream /\ stdin' = stdin /\ child' = child
  <2>1. live' = [live EXCEPT !.jobs = js] BY <1>6 DEF WriterReceives
  <2>2. PICK h : h = Head(live.jobs) OBVIOUS
  <2>3. pc' = [pc EXCEPT !.writer = "write", !.job = h] BY <2>2 DEF WriterReceives
  <2>4. h = live.jobs[1] BY <2>2
  <2>5. pc'.job = h /\ pc'.writer = "write" BY <2>3 DEF TypeOK, Places
  <2>6. /\ live'.jobs = js /\ live'.input = live.input /\ live'.accepted = live.accepted
        /\ live'.delivered = live.delivered /\ live'.target = live.target
    BY <2>1 DEF TypeOK, Sessions
  <2> QED BY <2>4, <2>5, <2>6 DEF WriterReceives
<1>9. 1 \in 1 .. Len(live.jobs) BY <1>5
<1>10. live.jobs[1].written = 0 /\ (live.jobs[1].eof => live.jobs[1].data = <<>>)
       /\ Len(live.jobs[1].data) \in Nat
  BY <1>9, PositionFields DEF Input, Whole
<1>11. Whole'
  <2>1. ASSUME NEW i \in 1 .. n
        PROVE  js[i].written = 0 /\ (js[i].eof => js[i].data = <<>>)
    <3>1. i + 1 \in 1 .. Len(live.jobs) BY <1>5
    <3>2. /\ live.jobs[i + 1].written = 0
          /\ live.jobs[i + 1].eof => live.jobs[i + 1].data = <<>>
      BY <3>1 DEF Input, Whole
    <3>3. js[i] = live.jobs[i + 1] BY <1>7
    <3> QED BY <3>2, <3>3
  <2>2. live'.accepted = Len(stream') /\ live'.input.next = Len(stream')
    BY <1>8 DEF Whole, Input
  <2>3. /\ pc'.job.written <= Len(pc'.job.data)
        /\ pc'.job.eof => pc'.job.data = <<>>
        /\ pc'.writer # "write" => pc'.job = NoJob
    BY <1>8, <1>10
  <2>4. \A i \in 1 .. Len(live'.jobs) :
          live'.jobs[i].written = 0 /\ (live'.jobs[i].eof => live'.jobs[i].data = <<>>)
    BY <1>7, <1>8, <2>1
  <2>5. /\ Len(stdin'.got) <= Len(stream')
        /\ \A k \in 1 .. Len(stdin'.got) : stdin'.got[k] = stream'[k]
    BY <1>8 DEF Whole, Input
  <2> QED BY <2>2, <2>3, <2>4, <2>5 DEF Whole, NoJob, InputJob
<1>12. PICK q : q = [i \in 0 .. n + 1 |-> p[i + 1]] OBVIOUS
<1>13. /\ q \in [0 .. n + 1 -> 0 .. Len(stream)] /\ \A i \in 0 .. n + 1 : q[i] = p[i + 1]
       /\ q[0] = p[1] /\ q[1] = p[2]
  <2>1. \A i \in 0 .. n + 1 : i + 1 \in 0 .. Len(live.jobs) + 1 BY <1>5
  <2>2. 0 \in 0 .. n + 1 /\ 1 \in 0 .. n + 1 /\ 0 + 1 = 1 /\ 1 + 1 = 2 OBVIOUS
  <2>3. \A i \in 0 .. n + 1 : q[i] = p[i + 1] BY <1>12
  <2>4. q \in [0 .. n + 1 -> 0 .. Len(stream)] BY <1>12, <2>1
  <2> QED BY <2>2, <2>3, <2>4
<1>14. p[1] = p[0] /\ p[0] \in Nat
  <2>1. p[0] \in Nat /\ p[1] \in Nat BY <1>2
  <2>2. p[1] = p[0] + 0 BY <1>1, <1>3, <1>4 DEF Positions
  <2> QED BY <2>1, <2>2
<1>15. Positions(q)'
  <2>1. q[n + 1] = Len(stream)
    <3>1. n + 1 \in 0 .. n + 1 OBVIOUS
    <3> QED BY <1>1, <1>5, <1>13, <3>1 DEF Positions
  <2>2. q[1] = q[0] + Len(live.jobs[1].data)
    <3>1. p[1 + 1] = p[1] + Len(live.jobs[1].data) BY <1>1, <1>9 DEF Positions
    <3> QED BY <1>13, <3>1
  <2>3. \A k \in 1 .. Len(live.jobs[1].data) : live.jobs[1].data[k] = stream[q[0] + k]
    BY <1>1, <1>9, <1>13 DEF Positions
  <2>4. \A i \in 1 .. n :
          /\ q[i + 1] = q[i] + Len(js[i].data)
          /\ \A k \in 1 .. Len(js[i].data) : js[i].data[k] = stream[q[i] + k]
    <3> TAKE i \in 1 .. n
    <3>1. i + 1 \in 1 .. Len(live.jobs) /\ i \in 0 .. n + 1 /\ i + 1 \in 0 .. n + 1 BY <1>5
    <3>2. js[i] = live.jobs[i + 1] /\ q[i] = p[i + 1] /\ q[i + 1] = p[(i + 1) + 1]
      BY <1>7, <1>13, <3>1
    <3> QED BY <1>1, <3>1, <3>2 DEF Positions
  <2> QED BY <1>7, <1>8, <2>1, <2>2, <2>3, <2>4 DEF Positions
<1>16. Feeding(q)'
  <2>1. Broken' <=> Broken BY <1>8 DEF Broken
  <2>2. ~live.input.closed => \A i, j \in 1 .. n + 1 : i <= j => q[j] - q[i] >= j - i
    <3> SUFFICES ASSUME ~live.input.closed, NEW i \in 1 .. n + 1, NEW j \in 1 .. n + 1, i <= j
                 PROVE  q[j] - q[i] >= j - i
      OBVIOUS
    <3>1. /\ i + 1 \in 1 .. Len(live.jobs) + 1 /\ j + 1 \in 1 .. Len(live.jobs) + 1
          /\ i + 1 <= j + 1 /\ i \in 0 .. n + 1 /\ j \in 0 .. n + 1
      BY <1>5
    <3>2. p[j + 1] - p[i + 1] >= (j + 1) - (i + 1) BY <1>1, <3>1 DEF Feeding
    <3>3. q[j] = p[j + 1] /\ q[i] = p[i + 1] BY <1>13, <3>1
    <3> QED BY <3>2, <3>3
  <2>3. q[0] = p[0] /\ pc.job.written = 0 BY <1>3, <1>4, <1>13, <1>14
  <2> QED BY <1>1, <1>7, <1>8, <1>10, <2>1, <2>2, <2>3 DEF Feeding
<1>17. q \in [0 .. Len(live'.jobs) + 1 -> 0 .. Len(stream')] BY <1>7, <1>8, <1>13
<1> QED BY <1>11, <1>15, <1>16, <1>17 DEF Input

\* One byte goes into the pipe; it is the next one of the stream.
LEMMA InputByte == ASSUME TypeOK, Input, WriteByte PROVE Input'
<1>1. PICK p \in [0 .. Len(live.jobs) + 1 -> 0 .. Len(stream)] : Positions(p) /\ Feeding(p)
  BY DEF Input
<1>2. /\ Len(live.jobs) \in Nat /\ Len(stream) \in Nat /\ Len(pc.job.data) \in Nat
      /\ pc.job.written \in Nat /\ Len(stdin.got) \in Nat
      /\ \A i \in 0 .. Len(live.jobs) + 1 : p[i] \in Nat /\ p[i] <= Len(stream)
  BY PositionFields
<1>3. PICK w \in Nat : w = pc.job.written BY <1>2
<1>4. PICK c : c = pc.job.data[w + 1] OBVIOUS
<1>5. w < Len(pc.job.data) /\ pc.writer = "write" /\ ~Broken
  BY <1>3 DEF WriteByte, Unwritten, Broken, Reader
<1>6. p[0] \in Nat /\ p[1] \in Nat /\ p[1] = p[0] + Len(pc.job.data) /\ p[1] <= Len(stream)
  BY <1>1, <1>2 DEF Positions
<1>7. Len(stdin.got) = p[0] + w BY <1>1, <1>3, <1>5 DEF Feeding
<1>8. c = stream[p[0] + (w + 1)]
  <2>1. w + 1 \in 1 .. Len(pc.job.data) BY <1>2, <1>5
  <2> QED BY <1>1, <1>4, <2>1 DEF Positions
<1>9. PICK g : g = Append(stdin.got, c) OBVIOUS
<1>10. /\ Len(g) = Len(stdin.got) + 1 /\ g[Len(stdin.got) + 1] = c
       /\ \A k \in 1 .. Len(stdin.got) : g[k] = stdin.got[k]
  <2>1. c \in Bytes
    <3>1. pc.job \in Jobs BY SessionFields
    <3>2. pc.job.data \in Seq(Bytes) BY <3>1 DEF Jobs
    <3> QED BY <1>4, <1>5, <1>2, <3>2
  <2>2. stdin.got \in Seq(Bytes) BY SessionFields
  <2> QED BY <1>9, <2>1, <2>2, AppendProperties
<1>11. /\ stdin'.got = g /\ stdin'.ended = stdin.ended
       /\ pc'.job.data = pc.job.data /\ pc'.job.written = w + 1 /\ pc'.job.eof = pc.job.eof
       /\ pc'.writer = pc.writer /\ live' = live /\ child' = child /\ stream' = stream
  <2>1. PICK u : u = stdin.unread + 1 OBVIOUS
  <2>2. stdin' = [stdin EXCEPT !.got = g, !.unread = u]
    BY <1>3, <1>4, <1>9, <2>1 DEF WriteByte
  <2>3. stdin'.got = g /\ stdin'.ended = stdin.ended BY <2>2 DEF TypeOK
  <2>4. PICK j : j = [pc.job EXCEPT !.written = w + 1] OBVIOUS
  <2>5. pc' = [pc EXCEPT !.job = j] BY <1>3, <2>4 DEF WriteByte, TypeOK, Places
  <2>6. pc'.job = j /\ pc'.writer = pc.writer BY <2>5 DEF TypeOK, Places
  <2>7. pc.job \in Jobs BY SessionFields
  <2>8. j.data = pc.job.data /\ j.written = w + 1 /\ j.eof = pc.job.eof BY <2>4, <2>7 DEF Jobs
  <2> QED BY <2>3, <2>6, <2>8 DEF WriteByte
<1>12. \A k \in 1 .. Len(g) : g[k] = stream[k]
  <2> TAKE k \in 1 .. Len(g)
  <2>1. CASE k \in 1 .. Len(stdin.got) BY <1>10, <2>1 DEF Input, Whole
  <2>2. CASE k = Len(stdin.got) + 1
    <3>1. k = p[0] + (w + 1) BY <1>6, <1>7, <2>2
    <3> QED BY <1>8, <1>10, <2>2, <3>1
  <2> QED BY <1>2, <1>10, <2>1, <2>2
<1>13. Len(g) <= Len(stream) /\ w + 1 <= Len(pc.job.data) BY <1>2, <1>5, <1>6, <1>7, <1>10
<1>14. Whole' BY <1>5, <1>11, <1>12, <1>13 DEF Whole, Input
<1>15. Positions(p)' BY <1>1, <1>11 DEF Positions
<1>16. Len(g) = p[0] + (w + 1) BY <1>6, <1>7, <1>10
<1>17. Feeding(p)'
  <2>1. Len(g) <= p[0] + (w + 1) BY <1>2, <1>6, <1>16
  <2> QED BY <1>1, <1>11, <1>16, <2>1 DEF Feeding
<1>18. p \in [0 .. Len(live'.jobs) + 1 -> 0 .. Len(stream')] BY <1>1, <1>11
<1> QED BY <1>14, <1>15, <1>17, <1>18 DEF Input

\* The write is over: the count and the ledger move on by the job.
LEMMA InputReturns == ASSUME TypeOK, Input, WriteReturns PROVE Input'
<1>1. PICK n \in Nat : n = Len(pc.job.data)
  <2>1. pc.job \in Jobs BY SessionFields
  <2> QED BY <2>1 DEF Jobs
<1>2. pc.job.written = n
  <2>1. pc.job \in Jobs BY SessionFields
  <2>2. pc.job.written \in Nat BY <2>1 DEF Jobs
  <2>3. pc.job.written <= n /\ ~(pc.job.written < n)
    BY <1>1 DEF WriteReturns, Unwritten, Input, Whole
  <2> QED BY <2>2, <2>3
<1>3. live.input \in InputLedgers /\ live.input.queued \in Nat BY SessionFields, LedgerFields
<1>4. PICK l : l = Delivered(live.input, n) OBVIOUS
<1>5. /\ l.queued = IF live.input.queued < n THEN 0 ELSE live.input.queued - n
      /\ l.next = live.input.next /\ l.closed = live.input.closed
  BY <1>3, <1>4, DeliveredEffect
<1>6. /\ live'.jobs = live.jobs /\ live'.input = l /\ live'.accepted = live.accepted
      /\ live'.delivered = live.delivered + n /\ live'.target = live.target
      /\ pc'.writer = "receive" /\ pc'.job = NoJob
      /\ stdin' = stdin /\ child' = child /\ stream' = stream
  <2>1. PICK d : d = live.delivered + n OBVIOUS
  <2>2. live' = [live EXCEPT !.delivered = d, !.input = l] BY <1>1, <1>4, <2>1 DEF WriteReturns
  <2>3. /\ live'.jobs = live.jobs /\ live'.input = l /\ live'.accepted = live.accepted
        /\ live'.delivered = d /\ live'.target = live.target
    BY <2>2 DEF TypeOK, Sessions
  <2>4. pc'.writer = "receive" /\ pc'.job = NoJob BY DEF WriteReturns, JobDone, TypeOK, Places
  <2> QED BY <2>1, <2>3, <2>4 DEF WriteReturns
<1>7. ASSUME NEW p \in [0 .. Len(live.jobs) + 1 -> 0 .. Len(stream)], Positions(p), Feeding(p)
      PROVE  /\ Len(stream) - p[1] <= live'.input.queued
             /\ live'.target = "none" => live'.delivered = p[1]
             /\ live'.delivered <= p[1]
             /\ live'.target = "none" \/ ~Broken' => Len(stdin.got) = p[1]
  <2>1. /\ Len(live.jobs) \in Nat /\ Len(stream) \in Nat /\ Len(stdin.got) \in Nat
        /\ live.delivered \in Nat
        /\ \A i \in 0 .. Len(live.jobs) + 1 : p[i] \in Nat /\ p[i] <= Len(stream)
    BY PositionFields
  <2>2. p[0] \in Nat /\ p[1] \in Nat /\ p[1] <= Len(stream) BY <2>1
  <2>3. p[1] = p[0] + n BY <1>1, <1>7 DEF Positions
  <2>4. Broken' <=> Broken BY <1>6 DEF Broken
  <2>5. /\ Len(stream) - p[0] <= live.input.queued
        /\ live.target = "none" => live.delivered = p[0]
        /\ live.delivered <= p[0]
        /\ live.target = "none" \/ ~Broken => Len(stdin.got) = p[0] + n
    BY <1>2, <1>7 DEF Feeding
  <2>6. Len(stream) - p[1] <= l.queued BY <1>3, <1>5, <2>1, <2>2, <2>3, <2>5
  <2>7. live.delivered + n <= p[1] BY <2>1, <2>2, <2>3, <2>5
  <2>8. live.target = "none" => live.delivered + n = p[1] BY <2>2, <2>3, <2>5
  <2> QED BY <1>6, <2>3, <2>4, <2>5, <2>6, <2>7, <2>8
<1>8. Broken => Broken' BY <1>6 DEF Broken
<1> QED BY <1>5, <1>6, <1>7, <1>8, JobLetGo

\* The writer closes stdin; its job has no byte.
LEMMA InputEnds == ASSUME TypeOK, Input, WriterEndsInput PROVE Input'
<1>1. pc.job.data = <<>> /\ Len(pc.job.data) = 0 /\ pc.job.written = 0
  <2>1. pc.job \in Jobs BY SessionFields
  <2>2. pc.job.written \in Nat BY <2>1 DEF Jobs
  <2>3. pc.job.data = <<>> BY DEF WriterEndsInput, Input, Whole
  <2>4. Len(pc.job.data) = 0 BY <2>3
  <2>5. pc.job.written <= Len(pc.job.data) BY DEF Input, Whole
  <2> QED BY <2>2, <2>3, <2>4, <2>5
<1>2. /\ pc'.writer = "receive" /\ pc'.job = NoJob
  BY DEF WriterEndsInput, JobDone, TypeOK, Places
<1>3. stdin'.got = stdin.got /\ stdin'.ended /\ live' = live /\ stream' = stream
  BY DEF WriterEndsInput, TypeOK
<1>4. Broken' BY <1>3 DEF Broken
<1>5. ASSUME NEW p \in [0 .. Len(live.jobs) + 1 -> 0 .. Len(stream)], Positions(p), Feeding(p)
      PROVE  /\ Len(stream) - p[1] <= live'.input.queued
             /\ live'.target = "none" => live'.delivered = p[1]
             /\ live'.delivered <= p[1]
             /\ live'.target = "none" \/ ~Broken' => Len(stdin.got) = p[1]
  <2>1. p[0] \in Nat BY PositionFields
  <2>2. p[1] = p[0] + 0 BY <1>1, <1>5 DEF Positions
  <2>3. p[1] = p[0] /\ p[0] + 0 = p[0] BY <2>1, <2>2
  <2> QED BY <1>1, <1>3, <1>4, <1>5, <2>3 DEF Feeding
<1> QED BY <1>2, <1>3, <1>4, <1>5, JobLetGo

\* A failed write: the job is let go, the target is killed, and the reader is
\* gone for good.
LEMMA InputFails == ASSUME TypeOK, Input, Stages, Reaping, WriteFails PROVE Input'
<1>1. Broken
  BY DEF WriteFails, Unwritten, Reader, Broken, Stages, Reaping, TypeOK, Groups, Places
<1>2. /\ live'.target = "killed" /\ live'.input = live.input /\ live'.accepted = live.accepted
      /\ live'.delivered = live.delivered /\ live'.jobs = live.jobs
      /\ pc'.writer = "receive" /\ pc'.job = NoJob
      /\ stdin' = stdin /\ stream' = stream
      /\ child'.leader = child.leader /\ child'.held = child.held
  BY WriteFailsKeeps
<1>3. Broken' BY <1>1, <1>2 DEF Broken
<1>4. ASSUME NEW p \in [0 .. Len(live.jobs) + 1 -> 0 .. Len(stream)], Positions(p), Feeding(p)
      PROVE  /\ Len(stream) - p[1] <= live'.input.queued
             /\ live'.target = "none" => live'.delivered = p[1]
             /\ live'.delivered <= p[1]
             /\ live'.target = "none" \/ ~Broken' => Len(stdin.got) = p[1]
  <2>1. /\ Len(live.jobs) \in Nat /\ Len(stream) \in Nat /\ Len(pc.job.data) \in Nat
        /\ live.delivered \in Nat /\ live.input.queued \in Nat
        /\ \A i \in 0 .. Len(live.jobs) + 1 : p[i] \in Nat /\ p[i] <= Len(stream)
    BY PositionFields
  <2>2. p[0] \in Nat /\ p[1] \in Nat BY <2>1
  <2>3. p[1] = p[0] + Len(pc.job.data) BY <1>4 DEF Positions
  <2>4. Len(stream) - p[0] <= live.input.queued /\ live.delivered <= p[0] BY <1>4 DEF Feeding
  <2>5. Len(stream) - p[1] <= live.input.queued /\ live.delivered <= p[1]
    BY <2>1, <2>2, <2>3, <2>4
  <2> QED BY <1>2, <1>3, <2>5
<1> QED BY <1>2, <1>3, <1>4, JobLetGo

\* A write that is accepted becomes the last job of the channel.
LEMMA InputEnqueue ==
  ASSUME TypeOK, Input, NEW a, NEW b \in Seq(Bytes), NEW eof \in BOOLEAN, Enqueue(a, b, eof),
         a.bytes = Len(b), a.ledger.next = live.input.next + Len(b),
         a.ledger.queued = live.input.queued + Len(b),
         ~a.ledger.closed => ~live.input.closed /\ Len(b) > 0,
         eof => b = <<>>
  PROVE  Input'
<1>1. PICK p \in [0 .. Len(live.jobs) + 1 -> 0 .. Len(stream)] : Positions(p) /\ Feeding(p)
  BY DEF Input
<1>2. /\ Len(live.jobs) \in Nat /\ Len(stream) \in Nat /\ Len(pc.job.data) \in Nat
      /\ Len(stdin.got) \in Nat /\ live.input.queued \in Nat
      /\ \A i \in 0 .. Len(live.jobs) + 1 : p[i] \in Nat /\ p[i] <= Len(stream)
      /\ \A i \in 1 .. Len(live.jobs) : Len(live.jobs[i].data) \in Nat
  BY PositionFields
<1>3. PICK m \in Nat : m = Len(live.jobs) BY <1>2
<1>4. PICK n \in Nat : n = Len(b) OBVIOUS
<1>5. PICK s : s = stream \o b OBVIOUS
<1>6. /\ Len(s) = Len(stream) + n /\ \A k \in 1 .. Len(stream) : s[k] = stream[k]
      /\ \A k \in 1 .. n : s[Len(stream) + k] = b[k]
  <2>1. stream \in Seq(Bytes) BY SessionFields
  <2>2. Len(s) = Len(stream) + n BY <1>4, <1>5, <2>1, ConcatProperties
  <2>3. ASSUME NEW k \in 1 .. Len(stream) + n
        PROVE  s[k] = IF k <= Len(stream) THEN stream[k] ELSE b[k - Len(stream)]
    BY <1>4, <1>5, <2>1, ConcatProperties
  <2>4. ASSUME NEW k \in 1 .. Len(stream) PROVE s[k] = stream[k] BY <1>2, <2>3
  <2>5. ASSUME NEW k \in 1 .. n PROVE s[Len(stream) + k] = b[k]
    <3>1. Len(stream) + k \in 1 .. Len(stream) + n /\ ~(Len(stream) + k <= Len(stream))
          /\ (Len(stream) + k) - Len(stream) = k
      BY <1>2
    <3> QED BY <2>3, <3>1
  <2> QED BY <2>2, <2>4, <2>5
<1>7. PICK j : j = InputJob(b, eof) OBVIOUS
<1>8. j.data = b /\ j.eof = eof /\ j.written = 0 /\ j \in Jobs BY <1>7 DEF InputJob, Jobs
<1>9. PICK js : js = Append(live.jobs, j) OBVIOUS
<1>10. Len(js) = m + 1 /\ js[m + 1] = j /\ \A i \in 1 .. m : js[i] = live.jobs[i]
  <2>1. live.jobs \in Seq(Jobs) BY SessionFields
  <2> QED BY <1>3, <1>8, <1>9, <2>1, AppendProperties
<1>11. /\ live'.jobs = js /\ live'.input = a.ledger /\ live'.accepted = live.accepted + n
       /\ live'.delivered = live.delivered /\ live'.target = live.target
       /\ pc' = pc /\ stdin' = stdin /\ child' = child /\ stream' = s
  BY <1>4, <1>5, <1>7, <1>9, EnqueueKeeps
<1>12. Whole'
  <2>1. ASSUME NEW i \in 1 .. m + 1
        PROVE  js[i].written = 0 /\ (js[i].eof => js[i].data = <<>>)
    <3>1. CASE i \in 1 .. m BY <1>3, <1>10, <3>1 DEF Input, Whole
    <3>2. CASE i = m + 1 BY <1>8, <1>10, <3>2
    <3> QED BY <3>1, <3>2
  <2>2. Len(stdin.got) <= Len(s) /\ \A k \in 1 .. Len(stdin.got) : stdin.got[k] = s[k]
    <3>1. Len(stdin.got) <= Len(stream) BY DEF Input, Whole
    <3>2. ASSUME NEW k \in 1 .. Len(stdin.got) PROVE stdin.got[k] = s[k]
      <4>1. k \in 1 .. Len(stream) BY <1>2, <3>1
      <4> QED BY <1>6, <4>1 DEF Input, Whole
    <3> QED BY <1>2, <1>6, <3>1, <3>2
  <2>3. live.accepted + n = Len(s) /\ live.input.next + n = Len(s) BY <1>6 DEF Input, Whole
  <2> QED BY <1>4, <1>10, <1>11, <2>1, <2>2, <2>3 DEF Input, Whole
<1>13. PICK q : q = [i \in 0 .. m + 2 |-> IF i <= m + 1 THEN p[i] ELSE Len(s)] OBVIOUS
<1>14. /\ q \in [0 .. m + 2 -> 0 .. Len(s)] /\ q[m + 2] = Len(s)
       /\ \A i \in 0 .. m + 1 : q[i] = p[i]
       /\ q[m + 1] = Len(stream) /\ q[0] = p[0] /\ q[1] = p[1]
  <2>1. p[m + 1] = Len(stream) BY <1>1, <1>3 DEF Positions
  <2>2. \A i \in 0 .. m + 1 : p[i] \in 0 .. Len(s) BY <1>2, <1>3, <1>6
  <2>3. Len(s) \in 0 .. Len(s) BY <1>2, <1>6
  <2>4. \A i \in 0 .. m + 2 : q[i] = IF i <= m + 1 THEN p[i] ELSE Len(s) BY <1>13
  <2>5. \A i \in 0 .. m + 1 : q[i] = p[i] BY <2>4
  <2>6. q[m + 2] = Len(s) BY <2>4
  <2>7. \A i \in 0 .. m + 2 : (IF i <= m + 1 THEN p[i] ELSE Len(s)) \in 0 .. Len(s)
    BY <2>2, <2>3
  <2>8. q \in [0 .. m + 2 -> 0 .. Len(s)] BY <1>13, <2>7
  <2>9. m + 1 \in 0 .. m + 1 /\ 0 \in 0 .. m + 1 /\ 1 \in 0 .. m + 1 OBVIOUS
  <2> QED BY <2>1, <2>5, <2>6, <2>8, <2>9
<1>15. Positions(q)'
  <2>1. \A k \in 1 .. Len(pc.job.data) : pc.job.data[k] = s[p[0] + k]
    <3> TAKE k \in 1 .. Len(pc.job.data)
    <3>1. p[0] \in Nat /\ p[1] <= Len(stream) BY <1>2
    <3>2. p[1] = p[0] + Len(pc.job.data) BY <1>1 DEF Positions
    <3>3. p[0] + k \in 1 .. Len(stream) BY <1>2, <3>1, <3>2
    <3> QED BY <1>1, <1>6, <3>3 DEF Positions
  <2>2. ASSUME NEW i \in 1 .. m + 1
        PROVE  /\ q[i + 1] = q[i] + Len(js[i].data)
               /\ \A k \in 1 .. Len(js[i].data) : js[i].data[k] = s[q[i] + k]
    <3>1. CASE i \in 1 .. m
      <4>1. i \in 1 .. Len(live.jobs) /\ i \in 0 .. m + 1 /\ i + 1 \in 0 .. m + 1
            /\ i \in 0 .. Len(live.jobs) + 1 /\ i + 1 \in 0 .. Len(live.jobs) + 1
        BY <1>3, <3>1
      <4>2. /\ p[i + 1] = p[i] + Len(live.jobs[i].data)
            /\ \A k \in 1 .. Len(live.jobs[i].data) : live.jobs[i].data[k] = stream[p[i] + k]
        BY <1>1, <4>1 DEF Positions
      <4>3. q[i] = p[i] /\ q[i + 1] = p[i + 1] /\ js[i] = live.jobs[i]
        BY <1>10, <1>14, <3>1, <4>1
      <4>4. p[i] \in Nat /\ p[i + 1] <= Len(stream) /\ Len(live.jobs[i].data) \in Nat
        BY <1>2, <4>1
      <4>5. \A k \in 1 .. Len(live.jobs[i].data) : p[i] + k \in 1 .. Len(stream)
        BY <1>2, <4>2, <4>4, WithinStream
      <4>6. \A k \in 1 .. Len(live.jobs[i].data) : s[p[i] + k] = stream[p[i] + k]
        BY <1>6, <4>5
      <4> QED BY <4>2, <4>3, <4>6
    <3>2. CASE i = m + 1
      <4>1. i + 1 = m + 2 BY <3>2
      <4>2. q[i + 1] = Len(stream) + n /\ q[i] = Len(stream) BY <1>6, <1>14, <3>2, <4>1
      <4>3. js[i].data = b BY <1>8, <1>10, <3>2
      <4>4. Len(js[i].data) = n BY <1>4, <4>3
      <4>5. \A k \in 1 .. n : s[Len(stream) + k] = b[k] BY <1>6
      <4> QED BY <4>2, <4>3, <4>4, <4>5
    <3> QED BY <3>1, <3>2
  <2>3. p[1] = p[0] + Len(pc.job.data) BY <1>1 DEF Positions
  <2>4. (m + 1) + 1 = m + 2 OBVIOUS
  <2> QED BY <1>10, <1>11, <1>14, <2>1, <2>2, <2>3, <2>4 DEF Positions
<1>16. Feeding(q)'
  <2>1. Broken' <=> Broken BY <1>11 DEF Broken
  <2>2. Len(s) - p[0] <= a.ledger.queued
    <3>1. Len(stream) - p[0] <= live.input.queued BY <1>1 DEF Feeding
    <3>2. p[0] \in Nat BY <1>2
    <3>3. a.ledger.queued = live.input.queued + n BY <1>4
    <3> QED BY <1>2, <1>6, <3>1, <3>2, <3>3
  <2>3. ~a.ledger.closed => \A i, k \in 1 .. m + 2 : i <= k => q[k] - q[i] >= k - i
    <3> SUFFICES ASSUME ~a.ledger.closed, NEW i \in 1 .. m + 2, NEW k \in 1 .. m + 2, i <= k
                 PROVE  q[k] - q[i] >= k - i
      OBVIOUS
    <3>1. ~live.input.closed /\ n > 0 BY <1>4
    <3>2. \A x, y \in 1 .. m + 1 : x <= y => p[y] - p[x] >= y - x
      BY <1>1, <1>3, <3>1 DEF Feeding
    <3>3. CASE k \in 1 .. m + 1
      <4>1. i \in 1 .. m + 1 /\ i \in 0 .. m + 1 /\ k \in 0 .. m + 1 BY <3>3
      <4>2. p[k] - p[i] >= k - i BY <3>2, <3>3, <4>1
      <4> QED BY <1>14, <4>1, <4>2
    <3>4. CASE k = m + 2 /\ i = m + 2
      <4>1. q[m + 2] \in Nat BY <1>2, <1>6, <1>14
      <4> QED BY <3>4, <4>1
    <3>5. CASE k = m + 2 /\ i \in 1 .. m + 1
      <4>1. i \in 0 .. m + 1 /\ m + 1 \in 1 .. m + 1 /\ i <= m + 1 /\ i \in 0 .. Len(live.jobs) + 1
        BY <1>3, <3>5
      <4>2. p[m + 1] - p[i] >= (m + 1) - i BY <3>2, <3>5, <4>1
      <4>3. p[m + 1] = Len(stream) /\ q[i] = p[i] /\ p[i] \in Nat
        BY <1>1, <1>2, <1>3, <1>14, <4>1 DEF Positions
      <4>4. q[k] = Len(stream) + n BY <1>6, <1>14, <3>5
      <4>5. (Len(stream) + n) - p[i] >= (m + 2) - i BY <1>2, <3>1, <4>2, <4>3
      <4> QED BY <3>5, <4>3, <4>4, <4>5
    <3> QED BY <3>3, <3>4, <3>5
  <2>4. (m + 1) + 1 = m + 2 OBVIOUS
  <2> QED BY <1>1, <1>10, <1>11, <1>14, <2>1, <2>2, <2>3, <2>4 DEF Feeding
<1>17. q \in [0 .. Len(live'.jobs) + 1 -> 0 .. Len(stream')]
  <2>1. (m + 1) + 1 = m + 2 OBVIOUS
  <2> QED BY <1>10, <1>11, <1>14, <2>1
<1> QED BY <1>12, <1>15, <1>16, <1>17 DEF Input

\* The start changes nothing of the input.
LEMMA InputStarter == ASSUME TypeOK, Input, Stages, Reaping, Starter PROVE Input'
<1>1. CASE \E mode \in StdinModes : StartChild(mode)
  <2>1. ~Broken BY <1>1 DEF StartChild, Reaping, Broken
  <2> QED BY <1>1, <2>1, InputKept DEF StartChild, TypeOK, Places
<1>2. CASE AttachHandle BY <1>2, InputKept DEF AttachHandle, Broken, TypeOK, Places, Sessions
<1>3. CASE StartGoroutines
  <2>1. child'.leader = child.leader /\ child'.held = child.held
    BY <1>3, SignalledEffect DEF StartGoroutines
  <2>2. pc'.writer = "receive" /\ pc'.job = pc.job BY <1>3 DEF StartGoroutines, TypeOK, Places
  <2>3. pc.writer # "write" BY <1>3 DEF StartGoroutines, TypeOK, Stages
  <2> QED BY <1>3, <2>1, <2>2, <2>3, InputKept DEF StartGoroutines, Broken
<1>4. CASE StartFails BY <1>4, InputKept DEF StartFails, Broken, TypeOK, Places
<1>5. CASE FinalizeStartFailure
  BY <1>5, InputKept DEF FinalizeStartFailure, Broken, TypeOK, Places, Sessions
<1>6. CASE FinishStartFailure
  BY <1>6, InputKept DEF FinishStartFailure, Broken, TypeOK, Places, Sessions
<1> QED BY <1>1, <1>2, <1>3, <1>4, <1>5, <1>6 DEF Starter

\* Nor does the capture of output.
LEMMA InputCapture == ASSUME TypeOK, Input, Capture PROVE Input'
<1>1. CASE CaptureChunk BY <1>1, InputKept DEF CaptureChunk, Broken
<1>2. CASE CaptureChunkFails
  <2>1. CaptureFailed BY <1>2 DEF CaptureChunkFails
  <2> QED BY <1>2, <2>1, CaptureFailedKeeps, InputKept DEF CaptureChunkFails, Broken
<1>3. CASE CaptureReadFails
  <2>1. CaptureFailed BY <1>3 DEF CaptureReadFails
  <2>2. pc'.job = pc.job /\ pc'.writer = pc.writer BY <1>3 DEF CaptureReadFails, TypeOK, Places
  <2> QED BY <1>3, <2>1, <2>2, CaptureFailedKeeps, InputKept DEF CaptureReadFails, Broken
<1>4. CASE CaptureEnds BY <1>4, InputKept DEF CaptureEnds, Broken, TypeOK, Places
<1> QED BY <1>1, <1>2, <1>3, <1>4 DEF Capture

\* Every step of the writer.
LEMMA InputWriter == ASSUME TypeOK, Input, Stages, Reaping, Writer PROVE Input'
<1>1. CASE WriterEnds
  <2>1. pc.writer = "receive" /\ pc'.job = pc.job BY <1>1 DEF WriterEnds, TypeOK, Places
  <2> QED BY <1>1, <2>1, InputKept DEF WriterEnds, Broken
<1> QED BY <1>1, InputReceive, InputByte, InputReturns, InputEnds, InputFails DEF Writer

\* Every step of the waiter.
LEMMA InputWaiter == ASSUME TypeOK, Input, Waiter PROVE Input'
<1>1. CASE WaitReturns BY <1>1, InputKept DEF WaitReturns, Broken, TypeOK, Places, Sessions
<1>2. CASE CloseJobs BY <1>2, InputKept DEF CloseJobs, Broken, TypeOK, Places, Sessions
<1>3. CASE BuildReceipt BY <1>3, BuildReceiptEffect, InputKept DEF Broken
<1>4. CASE FinishWait BY <1>4, InputKept DEF FinishWait, Broken, TypeOK, Places, Sessions
<1>5. CASE EvictTerminated BY <1>5, InputKept DEF EvictTerminated, Broken, TypeOK, Places
<1> QED BY <1>1, <1>2, <1>3, <1>4, <1>5 DEF Waiter

\* A write adds the bytes it was accepted for at the end of stream and channel;
\* a kill adds none.
LEMMA InputClients == ASSUME TypeOK, Input, Clients PROVE Input'
<1>1. live.input \in InputLedgers BY SessionFields
<1>2. live.input.next \in Nat /\ live.input.queued \in Nat BY <1>1, LedgerFields
<1>3. CASE \E b \in Payloads, offset \in 0 .. MaxInput : Write(offset, b)
  <2>1. PICK b \in Payloads, offset \in 0 .. MaxInput : Write(offset, b) BY <1>3
  <2>2. b \in Seq(Bytes) /\ Len(b) \in Nat /\ Len(b) > 0 /\ offset \in Nat
    BY PayloadLength, Constants
  <2>3. PICK a : a = AcceptChars(live.input, offset, b) OBVIOUS
  <2>4. Enqueue(a, b, FALSE) BY <2>1, <2>3 DEF Write
  <2>5. ~(live.input.next + Len(b) > MaxInput)
    BY <1>2, <2>1, <2>2, Constants DEF Write
  <2>6. /\ ~live.input.closed /\ a.bytes = Len(b)
        /\ a.ledger.next = live.input.next + Len(b)
        /\ a.ledger.queued = live.input.queued + Len(b)
    BY <1>1, <2>2, <2>3, <2>4, <2>5, AcceptedChars DEF Enqueue
  <2> QED BY <2>2, <2>4, <2>6, InputEnqueue
<1>4. CASE \E offset \in 0 .. MaxInput : WriteEOF(offset)
  <2>1. PICK offset \in 0 .. MaxInput : WriteEOF(offset) BY <1>4
  <2>2. offset \in Nat BY Constants
  <2>3. PICK a : a = AcceptEOF(live.input, offset) OBVIOUS
  <2>4. PICK b : b = <<>> OBVIOUS
  <2>5. b \in Seq(Bytes) /\ Len(b) = 0 BY <2>4, EmptyInput
  <2>6. Enqueue(a, b, TRUE) BY <2>1, <2>3, <2>4 DEF WriteEOF
  <2>7. /\ a.bytes = 0 /\ a.ledger.queued = live.input.queued
        /\ a.ledger.next = live.input.next /\ a.ledger.closed
    BY <1>1, <2>2, <2>3, <2>6, AcceptedEOF DEF Enqueue
  <2>8. /\ a.bytes = Len(b) /\ a.ledger.next = live.input.next + Len(b)
        /\ a.ledger.queued = live.input.queued + Len(b)
    BY <1>2, <2>5, <2>7
  <2> QED BY <2>4, <2>5, <2>6, <2>7, <2>8, InputEnqueue
<1>5. CASE \E id \in KillIds, signal \in KillSignals : Kill(id, signal)
  <2>1. PICK id \in KillIds, signal \in KillSignals : Kill(id, signal) BY <1>5
  <2> QED BY <2>1, KillKeeps, InputKept DEF Broken
<1> QED BY <1>3, <1>4, <1>5 DEF Clients

\* The command may die or close its end, but never gives back what it was
\* handed.
LEMMA InputChild == ASSUME TypeOK, Input, Child PROVE Input'
<1>1. CASE \E code \in {"zero", "nonzero"}, held \in Holds : ChildExits(code, held)
  BY <1>1, InputKept DEF ChildExits, Broken
<1>2. CASE ChildDies BY <1>2, InputKept DEF ChildDies, Broken, TypeOK, Groups
<1>3. CASE DescendantsExit BY <1>3, InputKept DEF DescendantsExit, Broken, TypeOK, Groups
<1>4. CASE ChildReads BY <1>4, InputKept DEF ChildReads, Broken, TypeOK
<1>5. CASE ChildWrites BY <1>5, InputKept DEF ChildWrites, Broken
<1> QED BY <1>1, <1>2, <1>3, <1>4, <1>5 DEF Child

\* Every step keeps the cut.
LEMMA InputNext == IInv /\ [Next]_vars => Input'
<1> SUFFICES ASSUME IInv, [Next]_vars PROVE Input' OBVIOUS
<1> USE DEF IInv
<1>1. CASE Starter BY <1>1, InputStarter
<1>2. CASE Capture BY <1>2, InputCapture
<1>3. CASE Writer BY <1>3, InputWriter
<1>4. CASE Waiter BY <1>4, InputWaiter
<1>5. CASE Timer BY <1>5, TimerKeeps, InputKept DEF Broken
<1>6. CASE Stopper BY <1>6, StopperKeeps, InputKept DEF Broken
<1>7. CASE ShutdownBegins BY <1>7, InputKept DEF ShutdownBegins, Broken, TypeOK, Places
<1>8. CASE ShutdownExpires BY <1>8, InputKept DEF ShutdownExpires, Broken, TypeOK, Places
<1>9. CASE Clients BY <1>9, InputClients
<1>10. CASE Child BY <1>10, InputChild
<1>11. CASE UNCHANGED vars BY <1>11, InputKept DEF vars, Broken
<1>12. CASE Ended BY <1>11, <1>12 DEF Ended
<1> QED BY <1>1, <1>2, <1>3, <1>4, <1>5, <1>6, <1>7, <1>8, <1>9, <1>10, <1>11, <1>12 DEF Next

\* The requests keep Killing: Admit asks for a signal once.
LEMMA KillingClients == ASSUME TypeOK, Killing, Clients PROVE Killing'
<1>1. CASE \E b \in Payloads, offset \in 0 .. MaxInput : Write(offset, b)
  <2>1. PICK b, a : Enqueue(a, b, FALSE) BY <1>1 DEF Write
  <2> QED BY <2>1, EnqueueKeeps DEF Killing
<1>2. CASE \E offset \in 0 .. MaxInput : WriteEOF(offset)
  <2>1. PICK a : Enqueue(a, <<>>, TRUE) BY <1>2 DEF WriteEOF
  <2> QED BY <2>1, EnqueueKeeps DEF Killing
<1>3. CASE \E id \in KillIds, signal \in KillSignals : Kill(id, signal)
  <2>1. PICK id \in KillIds, signal \in KillSignals : Kill(id, signal) BY <1>3
  <2>2. live.kills \in [KillIds -> KillSignals \cup {"none"}] BY SessionFields
  <2>3. signal # "none" BY Constants
  <2>4. live'.kills = [live.kills EXCEPT ![id] = signal] BY <2>1, KillKeeps
  <2>5. sent' = sent \/ (live.kills[id] = "none" /\ sent' = [sent EXCEPT ![id] = @ + 1])
    BY <2>1, KillKeeps
  <2>6. sent \in [KillIds -> Nat] BY DEF TypeOK
  <2> SUFFICES ASSUME NEW k \in KillIds
               PROVE  sent'[k] <= 1 /\ (live'.kills[k] = "none" => sent'[k] = 0)
    BY DEF Killing
  <2>7. sent[k] <= 1 /\ (live.kills[k] = "none" => sent[k] = 0) BY DEF Killing
  <2>8. CASE k = id
    <3>1. live'.kills[k] = signal BY <2>2, <2>4, <2>8
    <3>2. sent'[k] <= 1 BY <2>5, <2>6, <2>7, <2>8
    <3> QED BY <2>3, <3>1, <3>2
  <2>9. CASE k # id
    <3>1. live'.kills[k] = live.kills[k] BY <2>2, <2>4, <2>9
    <3>2. sent'[k] = sent[k] BY <2>5, <2>6, <2>9
    <3> QED BY <2>7, <3>1, <3>2
  <2> QED BY <2>8, <2>9
<1> QED BY <1>1, <1>2, <1>3 DEF Clients

\* Every step keeps Killing.
LEMMA KillingNext == IInv /\ [Next]_vars => Killing'
<1> SUFFICES ASSUME IInv, [Next]_vars PROVE Killing' OBVIOUS
<1> USE DEF IInv
<1>1. CASE Starter
  <2>1. CASE \E mode \in StdinModes : StartChild(mode)
    BY <2>1 DEF StartChild, Killing, TypeOK, Sessions
  <2>2. CASE AttachHandle BY <2>2 DEF AttachHandle, Killing, TypeOK, Sessions
  <2>3. CASE StartGoroutines BY <2>3 DEF StartGoroutines, Killing, TypeOK, Sessions
  <2>4. CASE StartFails BY <2>4 DEF StartFails, Killing, TypeOK, Sessions
  <2>5. CASE FinalizeStartFailure BY <2>5 DEF FinalizeStartFailure, Killing, TypeOK, Sessions
  <2>6. CASE FinishStartFailure BY <2>6 DEF FinishStartFailure, Killing, TypeOK, Sessions
  <2> QED BY <1>1, <2>1, <2>2, <2>3, <2>4, <2>5, <2>6 DEF Starter
<1>2. CASE Capture
  <2>1. CASE CaptureChunk BY <2>1 DEF CaptureChunk, Killing, TypeOK, Sessions
  <2>2. CASE CaptureChunkFails
    <3>1. CaptureFailed BY <2>2 DEF CaptureChunkFails
    <3> QED BY <2>2, <3>1, CaptureFailedKeeps DEF CaptureChunkFails, Killing
  <2>3. CASE CaptureReadFails
    <3>1. CaptureFailed BY <2>3 DEF CaptureReadFails
    <3> QED BY <2>3, <3>1, CaptureFailedKeeps DEF CaptureReadFails, Killing
  <2>4. CASE CaptureEnds BY <2>4 DEF CaptureEnds, Killing, TypeOK, Sessions
  <2> QED BY <1>2, <2>1, <2>2, <2>3, <2>4 DEF Capture
<1>3. CASE Writer
  <2>1. CASE WriterReceives BY <2>1 DEF WriterReceives, Killing, TypeOK, Sessions
  <2>2. CASE WriteByte BY <2>2 DEF WriteByte, Killing, TypeOK, Sessions
  <2>3. CASE WriteReturns
    <3>1. PICK d, l : live' = [live EXCEPT !.delivered = d, !.input = l]
      BY <2>3 DEF WriteReturns
    <3>2. live'.kills = live.kills BY <3>1 DEF TypeOK, Sessions
    <3> QED BY <2>3, <3>2 DEF WriteReturns, Killing
  <2>4. CASE WriterEndsInput BY <2>4 DEF WriterEndsInput, Killing, TypeOK, Sessions
  <2>5. CASE WriteFails BY <2>5, WriteFailsKeeps DEF Killing
  <2>6. CASE WriterEnds BY <2>6 DEF WriterEnds, Killing, TypeOK, Sessions
  <2> QED BY <1>3, <2>1, <2>2, <2>3, <2>4, <2>5, <2>6 DEF Writer
<1>4. CASE Waiter
  <2>1. CASE WaitReturns BY <2>1 DEF WaitReturns, Killing, TypeOK, Sessions
  <2>2. CASE CloseJobs BY <2>2 DEF CloseJobs, Killing, TypeOK, Sessions
  <2>3. CASE BuildReceipt BY <2>3, BuildReceiptEffect DEF Killing
  <2>4. CASE FinishWait BY <2>4 DEF FinishWait, Killing, TypeOK, Sessions
  <2>5. CASE EvictTerminated BY <2>5 DEF EvictTerminated, Killing, TypeOK, Sessions
  <2> QED BY <1>4, <2>1, <2>2, <2>3, <2>4, <2>5 DEF Waiter
<1>5. CASE Timer BY <1>5, TimerKeeps DEF Killing
<1>6. CASE Stopper BY <1>6, StopperKeeps DEF Killing
<1>7. CASE Clients BY <1>7, KillingClients
<1>8. CASE Child
  <2>1. CASE \E code \in {"zero", "nonzero"}, held \in Holds : ChildExits(code, held)
    BY <2>1 DEF ChildExits, Killing, TypeOK, Sessions
  <2>2. CASE ChildDies BY <2>2 DEF ChildDies, Killing, TypeOK, Sessions
  <2>3. CASE DescendantsExit BY <2>3 DEF DescendantsExit, Killing, TypeOK, Sessions
  <2>4. CASE ChildReads BY <2>4 DEF ChildReads, Killing, TypeOK, Sessions
  <2>5. CASE ChildWrites BY <2>5 DEF ChildWrites, Killing, TypeOK, Sessions
  <2> QED BY <1>8, <2>1, <2>2, <2>3, <2>4, <2>5 DEF Child
<1>9. CASE ShutdownBegins BY <1>9 DEF ShutdownBegins, Killing, TypeOK, Sessions
<1>10. CASE ShutdownExpires BY <1>10 DEF ShutdownExpires, Killing, TypeOK, Sessions
<1>11. CASE UNCHANGED vars BY <1>11 DEF vars, Killing, TypeOK, Sessions
<1>12. CASE Ended BY <1>11, <1>12 DEF Ended
<1> QED BY <1>1, <1>2, <1>3, <1>4, <1>5, <1>6, <1>7, <1>8, <1>9, <1>10, <1>11, <1>12 DEF Next

\* A session that was just admitted satisfies the invariant.
LEMMA InvariantInit == Init => IInv
<1> SUFFICES ASSUME Init PROVE IInv OBVIOUS
<1>1. NewInputLedger(MaxQueued, FALSE) \in InputLedgers
  BY Constants DEF NewInputLedger, InputLedgers
<1>2. NewKillLedger(KillIds) \in [KillIds -> KillSignals \cup {"none"}] BY DEF NewKillLedger
<1>3. <<>> \in Seq(Jobs) OBVIOUS
<1>4. live \in Sessions BY <1>1, <1>2, <1>3, Constants DEF Init, Sessions
<1>5. pc \in Places BY NoJobType DEF Init, Places
<1>6. receipt \in Receipts BY Constants DEF Init, NoReceipt, Receipts
<1>7. child \in Groups BY DEF Init, Groups
<1>8. /\ stdin \in [ended : BOOLEAN, got : Seq(Bytes), unread : 0 .. PipeSize]
      /\ stdout \in [produced : 0 .. MaxChunks, pending : 0 .. MaxChunks, lost : BOOLEAN]
      /\ stream \in Seq(Bytes) /\ sent \in [KillIds -> Nat] /\ panicked \in BOOLEAN
  <2>1. 0 \in 0 .. PipeSize /\ 0 \in 0 .. MaxChunks BY Constants
  <2>2. stdin \in [ended : BOOLEAN, got : Seq(Bytes), unread : 0 .. PipeSize]
    BY <2>1, EmptyInput DEF Init
  <2>3. stdout \in [produced : 0 .. MaxChunks, pending : 0 .. MaxChunks, lost : BOOLEAN]
    BY <2>1 DEF Init
  <2>4. stream \in Seq(Bytes) BY EmptyInput DEF Init
  <2>5. sent \in [KillIds -> Nat] /\ panicked \in BOOLEAN BY DEF Init
  <2> QED BY <2>2, <2>3, <2>4, <2>5
<1>9. TypeOK BY <1>4, <1>5, <1>6, <1>7, <1>8 DEF TypeOK
<1>10. Stages /\ Reaping BY DEF Init, Stages, Reaping
<1>11. Capturing BY DEF Init, Capturing
<1>12. Claims BY DEF Init, Claims, NoReceipt
<1>13. Killing BY DEF Init, Killing
<1>14. /\ live.jobs = <<>> /\ Len(live.jobs) = 0 /\ stream = <<>> /\ Len(stream) = 0
       /\ stdin.got = <<>> /\ Len(stdin.got) = 0 /\ pc.job = NoJob
       /\ live.accepted = 0 /\ live.delivered = 0
       /\ live.input = NewInputLedger(MaxQueued, FALSE)
  BY DEF Init
<1>15. /\ NoJob.data = <<>> /\ Len(NoJob.data) = 0 /\ NoJob.written = 0 /\ ~NoJob.eof
  BY DEF NoJob, InputJob
<1>16. live.input.next = 0 /\ live.input.queued = 0 BY <1>14 DEF NewInputLedger
<1>17. Whole
  <2>1. live.accepted = Len(stream) /\ live.input.next = Len(stream) BY <1>14, <1>16
  <2>2. /\ pc.job.written <= Len(pc.job.data) /\ (pc.job.eof => pc.job.data = <<>>)
        /\ pc.writer # "write" => pc.job = NoJob
    BY <1>14, <1>15
  <2>3. 1 .. Len(live.jobs) = {} /\ 1 .. Len(stdin.got) = {} BY <1>14
  <2>4. Len(stdin.got) <= Len(stream) BY <1>14
  <2> QED BY <2>1, <2>2, <2>3, <2>4 DEF Whole
<1>18. PICK p : p = [i \in 0 .. 1 |-> 0] OBVIOUS
<1>19. p \in [0 .. Len(live.jobs) + 1 -> 0 .. Len(stream)] /\ p[0] = 0 /\ p[1] = 0
  BY <1>14, <1>18
<1>20. Positions(p) BY <1>14, <1>15, <1>19 DEF Positions
<1>21. Feeding(p)
  <2>1. Len(stream) = 0 /\ p[0] = 0 BY <1>14, <1>19
  <2>2. Len(stream) - p[0] = 0 BY <2>1
  <2>3. Len(stream) - p[0] <= live.input.queued BY <1>16, <2>2
  <2>4. \A i, j \in 1 .. Len(live.jobs) + 1 : i <= j => p[j] - p[i] >= j - i
    <3>1. \A i \in 1 .. Len(live.jobs) + 1 : i = 1 BY <1>14
    <3> QED BY <1>19, <3>1
  <2>5. live.delivered = p[0] /\ live.delivered <= p[0] BY <1>14, <1>19
  <2>6. Len(stdin.got) = p[0] + pc.job.written /\ Len(stdin.got) <= p[0] + pc.job.written
    BY <1>14, <1>15, <1>19
  <2> QED BY <2>3, <2>4, <2>5, <2>6 DEF Feeding
<1>22. Input BY <1>17, <1>19, <1>20, <1>21 DEF Input
<1> QED BY <1>9, <1>10, <1>11, <1>12, <1>13, <1>22 DEF IInv

\* The invariant holds in every reachable state.
LEMMA Invariance == Spec => []IInv
<1>1. IInv /\ [Next]_vars => IInv'
  BY TypeNext, InputNext, StagesNext, ReapingNext, CapturingNext, ClaimsNext, KillingNext
     DEF IInv
<1> QED BY <1>1, InvariantInit, PTL DEF Spec

\* The session, the steps of its goroutines, the receipt and the pipes keep
\* their types: in particular the bytes queued in the ledger never exceed its
\* limit nor go below zero, and the delivered count never exceeds the bound on
\* accepted input.
THEOREM TypeCorrect == Spec => []TypeOK
<1>1. IInv => TypeOK BY DEF IInv
<1> QED BY <1>1, Invariance, PTL

\* The bytes that writeLoop hands to the child are a prefix of the bytes that
\* Service.Write accepted, in order and once, whatever partial writes,
\* failures, kills and timeouts come between.
THEOREM InputIsInOrder == Spec => []InputInOrder
<1>1. IInv => InputInOrder
  <2> SUFFICES ASSUME IInv PROVE InputInOrder OBVIOUS
  <2>1. stdin.got \in Seq(Bytes) /\ stream \in Seq(Bytes) BY SessionFields DEF IInv
  <2>2. /\ Len(stdin.got) <= Len(stream)
        /\ \A k \in 1 .. Len(stdin.got) : stdin.got[k] = stream[k]
    BY DEF IInv, Input, Whole
  <2>3. PICK a : a = SubSeq(stdin.got, 1, Len(stdin.got)) OBVIOUS
  <2>4. PICK b : b = SubSeq(stream, 1, Len(stdin.got)) OBVIOUS
  <2>5. /\ a \in Seq(Bytes) /\ Len(a) = Len(stdin.got)
        /\ \A k \in 1 .. Len(stdin.got) : a[k] = stdin.got[k]
    BY <2>1, <2>3
  <2>6. /\ b \in Seq(Bytes) /\ Len(b) = Len(stdin.got)
        /\ \A k \in 1 .. Len(stdin.got) : b[k] = stream[k]
    BY <2>1, <2>2, <2>4
  <2>7. \A k \in 1 .. Len(stdin.got) : a[k] = b[k] BY <2>2, <2>5, <2>6
  <2>8. a = b BY <2>5, <2>6, <2>7, SeqEqual
  <2> QED BY <2>2, <2>3, <2>4, <2>8 DEF InputInOrder, IsPrefix
<1> QED BY <1>1, Invariance, PTL

\* Service.Write sends on the channel of jobs with the session locked; whenever
\* the ledger would accept a write the channel has room for it, so the send
\* never blocks.
THEOREM JobsHaveRoom == Spec => []JobsNeverFull
<1>1. IInv => JobsNeverFull
  <2> SUFFICES ASSUME IInv PROVE JobsNeverFull OBVIOUS
  <2>1. CASE live.input.closed BY <2>1 DEF JobsNeverFull, AcceptChars, Refused
  <2>2. CASE ~live.input.closed
    <3>1. PICK p \in [0 .. Len(live.jobs) + 1 -> 0 .. Len(stream)] : Positions(p) /\ Feeding(p)
      BY DEF IInv, Input
    <3>2. /\ Len(live.jobs) \in Nat /\ Len(stream) \in Nat /\ Len(pc.job.data) \in Nat
          /\ \A i \in 0 .. Len(live.jobs) + 1 : p[i] \in Nat /\ p[i] <= Len(stream)
      BY PositionFields DEF IInv
    <3>3. p[0] \in Nat /\ p[1] \in Nat BY <3>2
    <3>4. p[1] = p[0] + Len(pc.job.data) /\ p[Len(live.jobs) + 1] = Len(stream)
      BY <3>1 DEF Positions
    <3>5. Len(stream) - p[0] <= live.input.queued BY <3>1 DEF Feeding
    <3>6. p[Len(live.jobs) + 1] - p[1] >= (Len(live.jobs) + 1) - 1
      <4>1. 1 \in 1 .. Len(live.jobs) + 1 /\ Len(live.jobs) + 1 \in 1 .. Len(live.jobs) + 1
            /\ 1 <= Len(live.jobs) + 1
        BY <3>2
      <4> QED BY <2>2, <3>1, <4>1 DEF Feeding
    <3>7. live.input.queued \in Nat /\ live.input.queued <= MaxQueued /\ MaxQueued \in Nat
      <4>1. live.input \in InputLedgers BY SessionFields DEF IInv
      <4> QED BY <4>1, LedgerFields, Constants
    <3>8. Len(stream) - p[1] >= Len(live.jobs) BY <3>2, <3>4, <3>6
    <3>9. Len(stream) - p[1] <= live.input.queued BY <3>2, <3>3, <3>4, <3>5, <3>7
    <3>10. Len(live.jobs) < MaxQueued + 1 BY <3>2, <3>3, <3>7, <3>8, <3>9
    <3> QED BY <3>10 DEF JobsNeverFull
  <2> QED BY <2>1, <2>2
<1> QED BY <1>1, Invariance, PTL

\* The receipt that waitLoop builds says completed only if the child exited
\* zero, all its output was captured and it was handed all accepted input; it
\* says output_complete only if no output was lost; and nothing it counts
\* changes after it.
THEOREM ReceiptsAreTrue == Spec => []ReceiptIsTrue
<1>1. IInv => ReceiptIsTrue
  <2> SUFFICES ASSUME IInv PROVE ReceiptIsTrue OBVIOUS
  <2>1. SuccessIsProven BY DEF IInv, Claims, SuccessIsProven
  <2>2. CompleteOutputIsComplete BY DEF IInv, Claims, CompleteOutputIsComplete
  <2>3. TerminalIsFinal
    BY DEF IInv, TypeOK, Places, Stages, Reaping, TerminalIsFinal, Terminal
  <2> QED BY <2>1, <2>2, <2>3 DEF ReceiptIsTrue
<1> QED BY <1>1, Invariance, PTL

\* Service.Kill signals the process group at most once for a kill id, however
\* often the request is repeated and whatever the session does meanwhile.
THEOREM KillIsSentOnce == Spec => []KillSentOnce
<1>1. IInv => KillSentOnce BY DEF IInv, Killing, KillSentOnce
<1> QED BY <1>1, Invariance, PTL

\* Shutdown that returns without an error leaves no command running and no
\* started session without a receipt.
THEOREM ShutdownIsThorough == Spec => []ShutdownLeavesNothing
<1>1. IInv => ShutdownLeavesNothing
  BY DEF IInv, Stages, Reaping, ShutdownLeavesNothing, Terminal
<1> QED BY <1>1, Invariance, PTL
==========================================================================
