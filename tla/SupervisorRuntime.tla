------------------------- MODULE SupervisorRuntime -------------------------
(***************************************************************************)
(* The supervisor of a persistent session while its child lives: the       *)
(* Runtime with its input and kill ledgers, its spool, its timeout and its *)
(* shutdown, and the daemon's half of a kill, which may be repeated after  *)
(* a crash or a lost answer.                                               *)
(*                                                                         *)
(* controlMu serialises Start, Write, Signal, the timeout, Shutdown and    *)
(* the end of waitLoop.  A section that does not block is one step; Write  *)
(* holds the lock while the child does not read, so it takes two.          *)
(***************************************************************************)
EXTENDS Naturals, Sequences, SequencesExt

CONSTANTS
  Chunks,      \* input a client may send, besides end of file
  MaxRecords,  \* InputLimits.MaxRecords
  MaxQueued,   \* InputLimits.MaxQueuedBytes, in chunks
  Kills,       \* kill identifiers
  KillSignals, \* the signals clients ask for, of TERM and KILL (INT is as TERM)
  MaxOutput,   \* bound: chunks of output the child writes
  MaxFaults    \* bound: writes of the supervisor or the daemon that fail

ASSUME RuntimeAssumption ==
  /\ {MaxRecords, MaxQueued, MaxOutput, MaxFaults} \subseteq Nat
  /\ KillSignals \subseteq {"TERM", "KILL"}

EOF == "eof"
ASSUME EOFAssumption == EOF \notin Chunks

VARIABLES
  state,      \* Runtime.state, "exited" once Run has returned
  target,     \* terminal target: the first that is set stays
  handle,     \* Runtime.handle is set
  captureErr, inputErr,
  lock,       \* controlMu: "free", "start" or "write"
  input,      \* InputLedger.Records: what was accepted and whether delivered
  pending,    \* record that Write is delivering
  kills,      \* KillLedger: one record for each kill_id
  timer,      \* timeoutLoop
  stop,       \* Shutdown
  record,     \* the frozen terminal record
  spool,      \* chunks of output kept
  child,      \* the command's process group
  code,       \* its exit status
  sig,        \* strongest signal it was sent
  stdin,      \* what was written to its input
  wrote,      \* chunks of output it has written
  requests,   \* the daemon's kill request in flight, for each kill_id
  killFiles,  \* the daemon's kill records
  sent,       \* history: signals sent for each kill_id
  late,       \* history: a signal was sent after the group was reaped
  faults

runtime == <<state, target, handle, captureErr, inputErr, lock>>
ledgers == <<input, pending, kills>>
threads == <<timer, stop>>
durable == <<record, spool>>
process == <<child, code, sig, stdin, wrote>>
daemon  == <<requests, killFiles>>
history == <<sent, late, faults>>
vars == <<runtime, ledgers, threads, durable, process, daemon, history>>

Signals  == {"TERM", "KILL"}
Ended    == {"completed", "failed", "killed", "timed_out"}
Terminal == state \in Ended
Gone     == state = "exited"

NoKill   == [signal |-> "none", needed |-> FALSE, attempted |-> FALSE]
KillType == [signal : Signals \cup {"none"}, needed : BOOLEAN, attempted : BOOLEAN]
NoFile   == [signal |-> "none", complete |-> FALSE, attempted |-> FALSE]
FileType == [signal : Signals \cup {"none"}, complete : BOOLEAN, attempted : BOOLEAN]
InputRecords == [data : Chunks \cup {EOF}, delivered : BOOLEAN]
NoRecord == [state |-> "none", complete |-> FALSE, accepted |-> 0, delivered |-> 0]

TypeOK ==
  /\ state \in {"starting", "running", "exited"} \cup Ended
  /\ target \in {"none", "killed", "timed_out"}
  /\ handle \in BOOLEAN /\ captureErr \in BOOLEAN /\ inputErr \in BOOLEAN /\ late \in BOOLEAN
  /\ lock \in {"free", "start", "write"}
  /\ input \in Seq(InputRecords)
  /\ pending \in 0 .. Len(input) /\ (lock = "write" <=> pending > 0)
  /\ kills \in [Kills -> KillType]
  /\ timer \in {"off", "set", "fired"}
  /\ stop \in {"idle", "asked", "delayed", "grace", "pressed", "over"}
  /\ record.state \in Ended \cup {"none"} /\ spool \in Seq(1 .. MaxOutput)
  /\ child \in {"none", "running", "gone"} /\ code \in {"none", "zero", "nonzero"}
  /\ sig \in Signals \cup {"none"} /\ stdin \in Seq(Chunks \cup {EOF})
  /\ wrote \in 0 .. MaxOutput
  /\ requests \in [Kills -> {"none", "signal", "moot", "attempted"}]
  /\ killFiles \in [Kills -> FileType]
  /\ sent \in [Kills -> Nat] /\ faults \in 0 .. MaxFaults

Init ==
  /\ state = "starting" /\ target = "none" /\ handle = FALSE
  /\ captureErr = FALSE /\ inputErr = FALSE /\ lock = "start"
  /\ input = <<>> /\ pending = 0 /\ kills = [k \in Kills |-> NoKill]
  /\ timer \in {"off", "set"} /\ stop = "idle" /\ record = NoRecord /\ spool = <<>>
  /\ child = "none" /\ code = "none" /\ sig = "none" /\ stdin = <<>> /\ wrote = 0
  /\ requests = [k \in Kills |-> "none"] /\ killFiles = [k \in Kills |-> NoFile]
  /\ sent = [k \in Kills |-> 0] /\ late = FALSE /\ faults = 0

Fault == faults < MaxFaults /\ faults' = faults + 1

Accepted  == SelectSeq(input, LAMBDA r : r.data # EOF)
Delivered == SelectSeq(Accepted, LAMBDA r : r.delivered)
Data(s)   == [i \in DOMAIN s |-> s[i].data]

\* Handle.Signal: to the process group, whether or not it still exists.
Send(s) ==
  /\ sig' = IF child = "gone" THEN sig ELSE IF "KILL" \in {s, sig} THEN "KILL" ELSE s
  /\ late' = (late \/ child = "gone")

\* setTargetLocked
SetTarget(t) == target' = IF target = "none" THEN t ELSE target

-----------------------------------------------------------------------------
(* Start.                                                                  *)

\* freezeTerminal: the record, and the state even when it cannot be written.
FreezeTerminal(r) ==
  /\ state' = r.state
  /\ \/ record' = r /\ UNCHANGED faults
     \/ Fault /\ UNCHANGED record

\* The deadline is frozen, then owner.Start spawns; its capture begins before
\* Start stores the handle.
StartSpawns ==
  /\ lock = "start" /\ child = "none" /\ child' = "running"
  /\ UNCHANGED <<runtime, ledgers, threads, durable, code, sig, stdin, wrote, daemon,
                 history>>

\* Without a frozen deadline nothing starts and nothing is recorded; a spawn
\* that fails is frozen as a failure.  Either way Run returns.
StartFails ==
  /\ lock = "start" /\ child = "none" /\ Fault /\ state' = "exited" /\ lock' = "free"
  /\ \/ timer = "set" /\ UNCHANGED record
     \/ record' = [NoRecord EXCEPT !.state = "failed", !.complete = TRUE]
  /\ UNCHANGED <<target, handle, captureErr, inputErr, ledgers, threads, spool, process,
                 daemon, sent, late>>

\* terminateForFailure("output_capture_failed") finds captureErr already set and
\* sends nothing.
StartStores ==
  /\ lock = "start" /\ child # "none"
  /\ handle' = TRUE /\ state' = "running" /\ lock' = "free"
  /\ UNCHANGED <<target, captureErr, inputErr, ledgers, threads, durable, process,
                 daemon, history>>

Start == StartSpawns \/ StartFails \/ StartStores

-----------------------------------------------------------------------------
(* Output.                                                                 *)

\* Mutant of CaptureFailure: the child is asked to end, the error is not kept.
CaptureFailureUnrecorded ==
  /\ SetTarget("killed") /\ UNCHANGED captureErr
  /\ IF handle THEN Send("TERM") ELSE UNCHANGED <<sig, late>>

\* captureFailure, without controlMu: the first error asks the child to end.
CaptureFailure ==
  IF captureErr THEN UNCHANGED <<captureErr, target, sig, late>>
  ELSE /\ captureErr' = TRUE /\ SetTarget("killed")
       /\ IF handle THEN Send("TERM") ELSE UNCHANGED <<sig, late>>

\* The owner hands over every chunk, also after one was refused.
Capture ==
  /\ child = "running" /\ ~Gone /\ wrote < MaxOutput /\ wrote' = wrote + 1
  /\ \/ spool' = Append(spool, wrote') /\ UNCHANGED <<captureErr, target, sig, late, faults>>
     \/ Fault /\ CaptureFailure /\ UNCHANGED spool
  /\ UNCHANGED <<state, handle, inputErr, lock, ledgers, threads, record, child, code,
                 stdin, daemon, sent>>

-----------------------------------------------------------------------------
(* Input.                                                                  *)

Queued == Len(Accepted) - Len(Delivered)

\* failInputDelivery
FailInputDelivery ==
  IF inputErr THEN UNCHANGED <<inputErr, target, sig, late>>
  ELSE inputErr' = TRUE /\ SetTarget("killed") /\ Send("TERM")

\* Mutant of Accept: a repeated record is delivered again, delivered or not.
AcceptDelivered(offset, data) ==
  \/ offset \in DOMAIN input /\ input[offset].data = data /\ UNCHANGED <<input, faults>>
  \/ /\ offset = Len(input) + 1 /\ EOF \notin {input[i].data : i \in DOMAIN input}
     /\ Len(input) < MaxRecords
     /\ input' = Append(input, [data |-> data, delivered |-> FALSE]) /\ UNCHANGED faults

\* AcceptChars and AcceptEOF.  A record at that offset is looked for first; only
\* the same data may be delivered again, and only if it was not delivered yet.
Accept(offset, data) ==
  \/ /\ offset \in DOMAIN input /\ input[offset].data = data
     /\ ~input[offset].delivered
     /\ UNCHANGED <<input, faults>>
  \/ /\ offset = Len(input) + 1 /\ EOF \notin {input[i].data : i \in DOMAIN input}
     /\ Len(input) < MaxRecords
     /\ data # EOF => Queued < MaxQueued
     /\ input' = Append(input, [data |-> data, delivered |-> FALSE])
     /\ UNCHANGED faults

Write(offset, data) ==
  /\ lock = "free" /\ state = "running"
  /\ Accept(offset, data) /\ lock' = "write" /\ pending' = offset
  /\ UNCHANGED <<state, target, handle, captureErr, inputErr, kills, threads, durable,
                 process, daemon, sent, late>>

Takes == child = "running" \/ input[pending].data = EOF

\* The child took the data (closing its input needs no child); MarkDelivered may
\* fail to be written.
Deliver ==
  /\ lock = "write" /\ Takes /\ lock' = "free" /\ pending' = 0
  /\ stdin' = Append(stdin, input[pending].data)
  /\ \/ /\ input' = [input EXCEPT ![pending].delivered = TRUE]
        /\ UNCHANGED <<inputErr, target, sig, late, faults>>
     \/ Fault /\ FailInputDelivery /\ UNCHANGED input
  /\ UNCHANGED <<state, handle, captureErr, kills, threads, durable, child, code, wrote,
                 daemon, sent>>

\* Mutant of DeliverFails: a write to a child that is gone does not come back.
DeliverFailsWhileAlive ==
  /\ lock = "write" /\ input[pending].data # EOF /\ child = "running"
  /\ lock' = "free" /\ pending' = 0 /\ FailInputDelivery
  /\ UNCHANGED <<state, handle, captureErr, input, kills, threads, durable, child, code,
                 stdin, wrote, daemon, sent, faults>>

\* The write of a chunk waits for a child that does not read.
InputBlocks == lock = "write" /\ child = "running" /\ input[pending].data # EOF

\* The pipe is broken: the child has closed its input, or is gone.
DeliverFails ==
  /\ lock = "write" /\ input[pending].data # EOF /\ lock' = "free" /\ pending' = 0
  /\ FailInputDelivery
  /\ UNCHANGED <<state, handle, captureErr, input, kills, threads, durable, child, code,
                 stdin, wrote, daemon, sent, faults>>

-----------------------------------------------------------------------------
(* Kills.  The daemon reserves a record, asks the supervisor, completes the *)
(* record; the client repeats the kill_id when it got no answer.            *)

\* ReservePersistentKill: a record that exists is returned as it is.  A session
\* the daemon sees terminal needs no signal.
KillReserves(k, s) ==
  /\ requests[k] = "none" /\ killFiles[k].signal \in {"none", s} /\ ~killFiles[k].complete
  /\ killFiles' = [killFiles EXCEPT ![k] =
       IF @.signal = "none" THEN [NoFile EXCEPT !.signal = s, !.complete = Terminal \/ Gone]
       ELSE @]
  /\ requests' = [requests EXCEPT ![k] = IF killFiles'[k].complete THEN @ ELSE "signal"]
  /\ UNCHANGED <<runtime, ledgers, threads, durable, process, history>>

\* Mutant of Reply: only an attempt of this very call is reported.
ReplyOfThisCall(k) ==
  requests' = [requests EXCEPT
    ![k] = IF kills'[k].attempted /\ ~kills[k].attempted THEN "attempted" ELSE "moot"]

Reply(k) ==
  requests' = [requests EXCEPT ![k] = IF kills'[k].attempted THEN "attempted" ELSE "moot"]
NoReply(k) == requests' = [requests EXCEPT ![k] = "none"]

\* KillLedger.Admit: a known kill_id is sent again only while it is needed and
\* no attempt is recorded.
Admit(k, s) ==
  IF kills[k].signal # "none" THEN kills[k]
  ELSE [signal |-> s, needed |-> ~Terminal, attempted |-> FALSE]
MustSend(r) == r.needed /\ ~r.attempted

SignalReplays(k) ==
  LET r == Admit(k, killFiles[k].signal) IN
  /\ requests[k] = "signal" /\ lock = "free" /\ ~Gone /\ ~MustSend(r)
  /\ kills' = [kills EXCEPT ![k] = r] /\ Reply(k)
  /\ UNCHANGED <<runtime, input, pending, threads, durable, process, killFiles, history>>

\* The attempt is recorded after the signal; when that fails the child is asked
\* to end and the caller gets an error.
SignalSends(k) ==
  LET r == Admit(k, killFiles[k].signal) IN
  /\ requests[k] = "signal" /\ lock = "free" /\ ~Gone /\ MustSend(r)
  /\ SetTarget("killed") /\ Send(r.signal) /\ sent' = [sent EXCEPT ![k] = @ + 1]
  /\ \/ /\ kills' = [kills EXCEPT ![k] = [r EXCEPT !.attempted = TRUE]]
        /\ Reply(k) /\ UNCHANGED faults
     \/ Fault /\ kills' = [kills EXCEPT ![k] = r] /\ NoReply(k)
  /\ UNCHANGED <<state, handle, captureErr, inputErr, lock, input, pending, threads,
                 durable, child, code, stdin, wrote, killFiles>>

\* The daemon crashes, the connection breaks, or the ledger cannot be written.
KillIsLost(k) ==
  /\ requests[k] # "none" /\ NoReply(k)
  /\ UNCHANGED <<runtime, ledgers, threads, durable, process, killFiles, history>>

\* CompletePersistentKill
KillCompletes(k) ==
  /\ requests[k] \in {"moot", "attempted"} /\ NoReply(k)
  /\ killFiles' = [killFiles EXCEPT ![k].complete = TRUE,
                                    ![k].attempted = (requests[k] = "attempted")]
  /\ UNCHANGED <<runtime, ledgers, threads, durable, process, history>>

-----------------------------------------------------------------------------
(* The timeout, the shutdown and the end.                                  *)

\* The deadline passes: TERM, unless the session is over already.
TimeoutFires ==
  /\ timer = "set" /\ lock = "free" /\ ~Gone
  /\ IF state = "running"
       THEN SetTarget("timed_out") /\ Send("TERM") /\ timer' = "fired"
       ELSE timer' = "off" /\ UNCHANGED <<target, sig, late>>
  /\ UNCHANGED <<state, handle, captureErr, inputErr, lock, ledgers, stop, durable, child,
                 code, stdin, wrote, daemon, sent, faults>>

\* The grace passes too: KILL.
TimeoutKills ==
  /\ timer = "fired" /\ lock = "free" /\ ~Gone /\ timer' = "off"
  /\ IF state = "running" THEN Send("KILL") ELSE UNCHANGED <<sig, late>>
  /\ UNCHANGED <<runtime, ledgers, stop, durable, child, code, stdin, wrote, daemon,
                 sent, faults>>

\* Run asks for a shutdown, with a budget of the grace and five seconds, when the
\* supervisor is told to stop or its control server failed.
ShutdownAsked ==
  /\ stop = "idle" /\ lock # "start" /\ state = "running" /\ stop' = "asked"
  /\ UNCHANGED <<runtime, ledgers, timer, durable, process, daemon, history>>

\* A write keeps the lock for more than those five seconds.
ShutdownDelayed ==
  /\ stop = "asked" /\ InputBlocks /\ stop' = "delayed"
  /\ UNCHANGED <<runtime, ledgers, timer, durable, process, daemon, history>>

\* Runtime.Shutdown: TERM, then a grace, which ends before the budget does unless
\* the lock was late.
ShutdownTerms ==
  /\ stop \in {"asked", "delayed"} /\ lock = "free" /\ state = "running"
  /\ SetTarget("killed") /\ Send("TERM")
  /\ stop' = IF stop = "asked" THEN "grace" ELSE "pressed"
  /\ UNCHANGED <<state, handle, captureErr, inputErr, lock, ledgers, timer, durable, child,
                 code, stdin, wrote, daemon, sent, faults>>

\* Mutant of ShutdownKills: the grace ends without KILL.
ShutdownGivesUp ==
  /\ stop \in {"grace", "pressed"} /\ lock = "free" /\ state = "running" /\ stop' = "over"
  /\ UNCHANGED <<runtime, ledgers, timer, durable, process, daemon, history>>

\* The grace is over: KILL, however late the lock comes.
ShutdownKills ==
  /\ stop \in {"grace", "pressed"} /\ lock = "free" /\ state = "running"
  /\ Send("KILL") /\ stop' = "over"
  /\ UNCHANGED <<runtime, ledgers, timer, durable, child, code, stdin, wrote, daemon,
                 sent, faults>>

\* The budget of the shutdown is spent, after KILL or already in the grace: Run
\* returns without the record.
ShutdownExpires ==
  /\ stop \in {"pressed", "over"} /\ ~Terminal /\ ~Gone /\ state' = "exited"
  /\ UNCHANGED <<target, handle, captureErr, inputErr, lock, ledgers, threads, durable,
                 process, daemon, history>>

\* The child ends of itself or by a signal; its leader is reaped and its output
\* read to the end before Wait returns.
ChildExits ==
  /\ child = "running" /\ child' = "gone" /\ code' \in {"zero", "nonzero"}
  /\ UNCHANGED <<runtime, ledgers, threads, durable, sig, stdin, wrote, daemon, history>>

\* terminalOutcome
TerminalOutcome ==
  IF target # "none" THEN target
  ELSE IF captureErr \/ inputErr THEN "killed"
  ELSE IF code = "zero" /\ Len(Accepted) = Len(Delivered) THEN "completed" ELSE "failed"

\* waitLoop: the record of what was seen, frozen under the lock.
Finalize ==
  /\ child = "gone" /\ state = "running" /\ lock = "free"
  /\ FreezeTerminal([state |-> TerminalOutcome, complete |-> ~captureErr,
                     accepted |-> Len(Accepted), delivered |-> Len(Delivered)])
  /\ UNCHANGED <<target, handle, captureErr, inputErr, lock, ledgers, threads, spool,
                 process, daemon, sent, late>>

\* Run sees the terminal state, closes the socket and returns.
RunReturns ==
  /\ Terminal /\ state' = "exited"
  /\ UNCHANGED <<target, handle, captureErr, inputErr, lock, ledgers, threads, durable,
                 process, daemon, history>>

Shutdown == ShutdownAsked \/ ShutdownDelayed \/ ShutdownTerms \/ ShutdownKills \/ ShutdownExpires

Next ==
  \/ Start \/ Capture \/ ChildExits \/ Finalize \/ RunReturns
  \/ \E offset \in 1 .. MaxRecords, data \in Chunks \cup {EOF} : Write(offset, data)
  \/ Deliver \/ DeliverFails
  \/ \E k \in Kills, s \in KillSignals : KillReserves(k, s)
  \/ \E k \in Kills : SignalReplays(k) \/ SignalSends(k) \/ KillIsLost(k) \/ KillCompletes(k)
  \/ TimeoutFires \/ TimeoutKills \/ Shutdown

Spec == Init /\ [][Next]_vars

\* The supervisor's goroutines run and take a lock that is free again and again
\* (a Go mutex starves nobody); timers expire; a killed group ends; a write to a
\* group that is gone fails, and closing the input does not wait.  Nothing makes
\* the child read, or end by itself.
Fairness ==
  /\ WF_vars(Start) /\ SF_vars(Finalize) /\ WF_vars(RunReturns)
  /\ SF_vars(TimeoutFires) /\ SF_vars(TimeoutKills)
  /\ WF_vars(sig = "KILL" /\ ChildExits)
  /\ WF_vars(~InputBlocks /\ (Deliver \/ DeliverFails))

FairSpec == Spec /\ Fairness

-----------------------------------------------------------------------------
(* Properties.                                                             *)

\* As long as no delivery has failed the child has read exactly the records that
\* are marked delivered, each once and in the order they were accepted, whichever
\* writes were repeated (InputLedger).
InputInOrder ==
  ~inputErr => /\ IsPrefix(stdin, Data(input))
               /\ \A i \in DOMAIN input : input[i].delivered <=> i <= Len(stdin)

\* "Terminal success is impossible when accepted bytes are not proven delivered":
\* a record says completed only if the child ended with zero, got all the input
\* that was accepted once, and all its output is kept.
SuccessIsProven ==
  record.state = "completed" =>
    /\ code = "zero" /\ sig = "none"
    /\ stdin = Data(input)
    /\ spool = [i \in 1 .. wrote |-> i]

\* Output is declared complete only when nothing is missing, although capture
\* goes on after a chunk was lost and ends before the record is made.
CompleteOutputIsComplete == record.complete => spool = [i \in 1 .. wrote |-> i]

\* terminal.json claims neither a success nor a completeness that did not happen.
RecordIsTrue == SuccessIsProven /\ CompleteOutputIsComplete

\* The daemon's answer to a kill is what happened: an attempt that was reported
\* was made, and a kill reported unnecessary was never sent and never will be,
\* whatever was lost between the two ledgers (killPersistent).
KillAnswerIsTrue ==
  \A k \in Kills : killFiles[k].complete => (killFiles[k].attempted <=> sent[k] > 0)

\* A supervisor that leaves, after the end, a failed start or a shutdown whose
\* budget is spent, leaves no child that was not sent KILL; the one way out is a
\* shutdown that had to wait for a write, and its child was sent TERM.
NoChildIsLeft ==
  Gone => \/ child # "running" \/ sig = "KILL"
          \/ stop = "pressed" /\ sig = "TERM"

\* A child that is gone is recorded, although a write may hold the lock.
ExitIsRecorded == (child = "gone") ~> (Terminal \/ Gone)

\* A session with a timeout ends, or its supervisor was made to leave.
TimeoutEnds == (timer = "set" /\ child = "running") ~> (child = "gone" \/ Gone)

\* The lock that writes, signals, the timer and the final record share is given up:
\* an exit is recorded always, and a timeout ends its session unless a write to a
\* child that never reads keeps the lock for ever (SupervisorTimeout.cfg).
LockIsGivenUp == ExitIsRecorded /\ ([]<>~InputBlocks => TimeoutEnds)

-----------------------------------------------------------------------------
(* What the design says and the code does not do.                          *)

\* "The supervisor performs the existing TERM -> grace -> KILL": a session with a
\* timeout ends, also when its child does not read its input.
TimeoutAlwaysEnds == TimeoutEnds

\* A supervisor never leaves a child behind that it did not send KILL.
ChildIsKilled == Gone => child # "running" \/ sig = "KILL"

\* "No fault may cause ... duplicate signal under one kill_id".
KillSentOnce == \A k \in Kills : sent[k] <= 1

\* "A signal is sent only to the supervisor-owned process group": not to the
\* number of a group that was reaped.
SignalsOwnedGroup == ~late

\* "If ... durable recovery capture fails, the supervisor terminates its owned
\* process group".
CaptureFailureTerminates == captureErr ~> (sig # "none" \/ child = "gone")
=============================================================================
