--------------------------- MODULE SessionLedgers ---------------------------
(***************************************************************************)
(* The two idempotency ledgers of a live session (internal/core/session):  *)
(* InputLedger admits bytes for the child's stdin by offset, KillLedger    *)
(* admits signals by kill id.  Both are pure: an operator takes a ledger   *)
(* and returns the answer with the next ledger.  A payload is a sequence   *)
(* of bytes; its SHA-256 in an InputRecord is the payload itself.          *)
(***************************************************************************)
EXTENDS Integers, Sequences

NewInputLedger(maxQueued, tty) ==
  [maxQueued |-> maxQueued, queued |-> 0, tty |-> tty, closed |-> FALSE,
   next |-> 0, entries |-> {}]

CharsRecord(offset, b) == [kind |-> "chars", offset |-> offset, data |-> b]
EOFRecord(offset)      == [kind |-> "eof", offset |-> offset, data |-> <<>>]

\* The three answers: an error, an acknowledged duplicate, an acceptance.
Refused(l, err)  == [ledger |-> l, err |-> err, duplicate |-> FALSE, bytes |-> 0]
Duplicate(l)     == [ledger |-> l, err |-> "", duplicate |-> TRUE, bytes |-> 0]
Accepted(l, n)   == [ledger |-> l, err |-> "", duplicate |-> FALSE, bytes |-> n]

\* InputLedger.AcceptChars.  Two records at one offset always differ in data,
\* and every recorded offset is below next, so the map lookup is membership.
AcceptChars(l, offset, b) ==
  IF l.closed THEN Refused(l, "input_closed")
  ELSE IF b = <<>> THEN Refused(l, "empty input")
  ELSE IF CharsRecord(offset, b) \in l.entries THEN Duplicate(l)
  ELSE IF offset < l.next THEN Refused(l, "input_conflict")
  ELSE IF offset > l.next THEN Refused(l, "input_gap")
  ELSE IF l.queued + Len(b) > l.maxQueued THEN Refused(l, "input_backpressure")
  ELSE Accepted([l EXCEPT !.entries = @ \cup {CharsRecord(offset, b)},
                          !.next = @ + Len(b), !.queued = @ + Len(b)], Len(b))

\* InputLedger.AcceptEOF.
AcceptEOF(l, offset) ==
  IF l.tty THEN Refused(l, "input_eof_unsupported")
  ELSE IF EOFRecord(offset) \in l.entries THEN Duplicate(l)
  ELSE IF l.closed THEN Refused(l, "input_closed")
  ELSE IF offset < l.next THEN Refused(l, "input_conflict")
  ELSE IF offset > l.next THEN Refused(l, "input_gap")
  ELSE Accepted([l EXCEPT !.entries = @ \cup {EOFRecord(offset)}, !.closed = TRUE], 0)

\* Mutant of Delivered: the whole queue is released.
DeliveredAll(l, n) == [l EXCEPT !.queued = 0]

\* InputLedger.Delivered: bytes that reached the pipe leave the queue.
Delivered(l, n) == [l EXCEPT !.queued = IF @ < n THEN 0 ELSE @ - n]

-----------------------------------------------------------------------------
\* A KillLedger maps each kill id to the signal of its attempt, or to "none".
NewKillLedger(ids) == [id \in ids |-> "none"]

\* Mutant of Admit: a replayed attempt is sent again.
AdmitAgain(l, id, signal, terminal) ==
  IF l[id] # "none" /\ l[id] # signal
  THEN [ledger |-> l, err |-> "kill_conflict", send |-> FALSE]
  ELSE [ledger |-> [l EXCEPT ![id] = signal], err |-> "", send |-> ~terminal]

\* KillLedger.Admit: the attempt is recorded, and is sent the first time only
\* and only while the session is not terminal.
Admit(l, id, signal, terminal) ==
  IF l[id] # "none"
  THEN [ledger |-> l, send |-> FALSE,
        err |-> IF l[id] = signal THEN "" ELSE "kill_conflict"]
  ELSE [ledger |-> [l EXCEPT ![id] = signal], err |-> "", send |-> ~terminal]
=============================================================================
