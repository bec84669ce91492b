---------------------------- MODULE LiveSession ----------------------------
(***************************************************************************)
(* One direct (neither persistent nor delegated) session of the daemon     *)
(* from Service.activateLiveSession to its eviction: the liveSession       *)
(* record under its mutex, the goroutines that share it (the starter, the  *)
(* writer, the waiter, the timer and its grace goroutine, the capture      *)
(* loop, Shutdown) and the requests that reach it (Write and Kill).        *)
(*                                                                         *)
(* Every block the code runs under l.mu is one action.  The child, its     *)
(* descendants and the two pipes are external: a command may exit with any *)
(* status at any time, ignore TERM, leave descendants that hold its pipes, *)
(* read its stdin or not.                                                  *)
(***************************************************************************)
EXTENDS SessionLedgers, SequencesExt

CONSTANTS
  MaxQueued,      \* options.MaxQueuedInputBytes
  PipeSize,       \* bytes the kernel buffers in the stdin pipe
  Payloads,       \* payloads clients write
  MaxInput,       \* bound: bytes clients write in one behaviour
  StdinModes,     \* stdin modes the policy may resolve to
  KillIds,        \* kill ids clients use
  KillSignals,    \* signals they ask for
  Timeout,        \* TRUE when spec.TimeoutMS > 0
  Limited,        \* TRUE when resource limits are enforced on the command
  Stubborn,       \* TRUE when the command ignores TERM
  Holds,          \* pipes its descendants may keep open after it exits
  MaxChunks,      \* bound: chunks of output
  CaptureMayFail, \* TRUE when the store may refuse output
  ShutdownAllowed,\* TRUE when the daemon may be shut down
  EarlyRequests   \* TRUE when Kill and Shutdown may come while Starting

\* The bytes clients write.
Bytes == UNION {Range(b) : b \in Payloads}

ASSUME LiveAssumption ==
  /\ {MaxQueued, PipeSize} \subseteq Nat \ {0}
  /\ {MaxInput, MaxChunks} \subseteq Nat
  /\ Payloads \subseteq Seq(Bytes) \ {<<>>}
  /\ StdinModes \subseteq {"closed", "stream"}
  /\ KillSignals \subseteq {"INT", "TERM", "KILL"}
  /\ Holds \subseteq SUBSET {"in", "out"} /\ {} \in Holds
  /\ {Timeout, Limited, Stubborn, CaptureMayFail, ShutdownAllowed, EarlyRequests}
       \subseteq BOOLEAN

VARIABLES
  live,     \* the liveSession record; handle is l.handle # nil, jobs the channel
  pc,       \* where each goroutine is, and the job the writer holds
  receipt,  \* the terminal receipt that is published
  panicked, \* a nil handle was called: the daemon is gone
  child,    \* the process group
  stdin,    \* the stdin pipe
  stdout,   \* the output pipe and what was captured of it
  stream,   \* history: bytes accepted, in order
  sent      \* history: signals sent for each kill id

history == <<stream, sent>>
vars    == <<live, pc, receipt, panicked, child, stdin, stdout, history>>

Terminal == {"completed", "failed", "timed_out", "killed"}
InputJob(b, eof) == [data |-> b, eof |-> eof, written |-> 0]
NoJob == InputJob(<<>>, FALSE)
NoReceipt == [state |-> "none", reason |-> "", complete |-> FALSE,
              accepted |-> 0, delivered |-> 0]

\* The jobs of the channel, and the one in the writer's hands.
Jobs == [data : Seq(Bytes), eof : BOOLEAN, written : Nat]

\* What an InputLedger and a liveSession hold, where each goroutine may be, and
\* what a receipt says.
InputLedgers ==
  [maxQueued : {MaxQueued}, queued : 0 .. MaxQueued, tty : {FALSE}, closed : BOOLEAN,
   next : 0 .. MaxInput,
   entries : SUBSET [kind : {"chars", "eof"}, offset : Nat, data : Seq(Bytes)]]

Sessions ==
  [state : {"starting", "running", "finalizing"} \cup Terminal, handle : BOOLEAN,
   target : {"none", "timed_out", "killed"}, captureErr : {"none", "output", "input"},
   input : InputLedgers, kills : [KillIds -> KillSignals \cup {"none"}],
   accepted : 0 .. MaxInput, delivered : 0 .. MaxInput,
   jobs : Seq(Jobs), jobsClosed : BOOLEAN]

Places ==
  [starter : {"activated", "spawned", "attached", "started", "failing", "publishing",
              "failed"},
   writer : {"off", "receive", "write", "done"}, job : Jobs,
   waiter : {"off", "wait", "close", "join", "publish", "evict", "done"},
   timer : {"off", "armed", "grace", "done"}, capture : {"off", "reading", "done"},
   shutdown : {"off", "term", "grace", "kill", "wait", "done", "expired"}]

Receipts ==
  [state : Terminal \cup {"none"},
   reason : {"", "spawn_failed", "resource_limit", "output_capture_failed",
             "input_delivery_failed"},
   complete : BOOLEAN, accepted : 0 .. MaxInput, delivered : 0 .. MaxInput]

\* The process group of the command, and which ends of the pipes it holds.
Groups ==
  [leader : {"none", "alive", "dead"}, held : SUBSET {"in", "out"},
   exit : {"none", "zero", "nonzero", "signal"}, sig : {"none", "TERM", "KILL"}]

TypeOK ==
  /\ live \in Sessions /\ pc \in Places /\ receipt \in Receipts /\ panicked \in BOOLEAN
  /\ child \in Groups
  /\ stdin \in [ended : BOOLEAN, got : Seq(Bytes), unread : 0 .. PipeSize]
  /\ stdout \in [produced : 0 .. MaxChunks, pending : 0 .. MaxChunks, lost : BOOLEAN]
  /\ stream \in Seq(Bytes) /\ sent \in [KillIds -> Nat]

Init ==
  /\ live = [state |-> "starting", handle |-> FALSE, target |-> "none",
             captureErr |-> "none", input |-> NewInputLedger(MaxQueued, FALSE),
             kills |-> NewKillLedger(KillIds), accepted |-> 0, delivered |-> 0,
             jobs |-> <<>>, jobsClosed |-> FALSE]
  /\ pc = [starter |-> "activated", writer |-> "off", job |-> NoJob, waiter |-> "off",
           timer |-> "off", capture |-> "off", shutdown |-> "off"]
  /\ receipt = NoReceipt /\ panicked = FALSE
  /\ child = [leader |-> "none", held |-> {}, exit |-> "none", sig |-> "none"]
  /\ stdin = [ended |-> FALSE, got |-> <<>>, unread |-> 0]
  /\ stdout = [produced |-> 0, pending |-> 0, lost |-> FALSE]
  /\ stream = <<>> /\ sent = [k \in KillIds |-> 0]

-----------------------------------------------------------------------------
(* The process group, and Handle.Signal that reaches it.                   *)

GroupAlive == child.leader = "alive" \/ child.held # {}

\* The group keeps the strongest signal it was sent; INT is as deadly as TERM.
Signalled(name) ==
  IF ~GroupAlive THEN child
  ELSE [child EXCEPT !.sig = IF name = "KILL" \/ @ = "KILL" THEN "KILL" ELSE "TERM"]

\* The command exits by itself, whatever signal it may have trapped.
ChildExits(code, held) ==
  /\ child.leader = "alive"
  /\ child' = [child EXCEPT !.leader = "dead", !.exit = code, !.held = held]
  /\ UNCHANGED <<live, pc, receipt, panicked, stdin, stdout, history>>

\* The group dies of a signal.
ChildDies ==
  /\ GroupAlive
  /\ child.sig = "KILL" \/ (child.sig = "TERM" /\ ~Stubborn)
  /\ child' = [child EXCEPT !.leader = "dead", !.held = {},
                            !.exit = IF @ = "none" THEN "signal" ELSE @]
  /\ UNCHANGED <<live, pc, receipt, panicked, stdin, stdout, history>>

DescendantsExit ==
  /\ child.leader = "dead" /\ child.held # {}
  /\ child' = [child EXCEPT !.held = {}]
  /\ UNCHANGED <<live, pc, receipt, panicked, stdin, stdout, history>>

Reader   == child.leader = "alive" \/ "in" \in child.held
Producer == child.leader = "alive" \/ "out" \in child.held

ChildReads ==
  /\ Reader /\ stdin.unread > 0
  /\ stdin' = [stdin EXCEPT !.unread = @ - 1]
  /\ UNCHANGED <<live, pc, receipt, panicked, child, stdout, history>>

ChildWrites ==
  /\ Producer /\ stdout.produced < MaxChunks
  /\ stdout' = [stdout EXCEPT !.produced = @ + 1, !.pending = @ + 1]
  /\ UNCHANGED <<live, pc, receipt, panicked, child, stdin, history>>

-----------------------------------------------------------------------------
(* spawnPreparedStart, once the session is in the live map.                *)

\* owner.Start: the child runs and is captured before Start has its handle.  A
\* closed stdin mode ends the pipe at once.
StartChild(mode) ==
  /\ pc.starter = "activated"
  /\ child' = [child EXCEPT !.leader = "alive"]
  /\ stdin' = [stdin EXCEPT !.ended = (mode = "closed")]
  /\ pc' = [pc EXCEPT !.starter = "spawned", !.capture = "reading"]
  /\ UNCHANGED <<live, receipt, panicked, stdout, history>>

AttachHandle ==
  /\ pc.starter = "spawned"
  /\ live' = [live EXCEPT !.handle = TRUE, !.state = "running"]
  /\ pc' = [pc EXCEPT !.starter = "attached"]
  /\ UNCHANGED <<receipt, panicked, child, stdin, stdout, history>>

\* AdvanceSession may fail, which asks the child to stop; the goroutines start
\* either way.
StartGoroutines ==
  /\ pc.starter = "attached"
  /\ child' \in {child, Signalled("TERM")}
  /\ pc' = [pc EXCEPT !.starter = "started", !.writer = "receive", !.waiter = "wait",
                      !.timer = IF Timeout THEN "armed" ELSE "off"]
  /\ UNCHANGED <<live, receipt, panicked, stdin, stdout, history>>

\* owner.Start fails: finalizeAdmittedStartFailure moves to Finalizing ...
StartFails ==
  /\ pc.starter = "activated"
  /\ pc' = [pc EXCEPT !.starter = "failing"]
  /\ UNCHANGED <<live, receipt, panicked, child, stdin, stdout, history>>

FinalizeStartFailure ==
  /\ pc.starter = "failing"
  /\ live' = [live EXCEPT !.state = "finalizing"]
  /\ receipt' = [NoReceipt EXCEPT !.state = "failed", !.reason = "spawn_failed"]
  /\ pc' = [pc EXCEPT !.starter = "publishing"]
  /\ UNCHANGED <<panicked, child, stdin, stdout, history>>

\* ... and, once the receipt is durable, to Failed, and evicts the session.
FinishStartFailure ==
  /\ pc.starter = "publishing"
  /\ live' = [live EXCEPT !.state = "failed"]
  /\ pc' = [pc EXCEPT !.starter = "failed"]
  /\ UNCHANGED <<receipt, panicked, child, stdin, stdout, history>>

-----------------------------------------------------------------------------
(* Handle.capture and sessionSink.                                         *)

CaptureChunk ==
  /\ pc.capture = "reading" /\ stdout.pending > 0
  /\ stdout' = [stdout EXCEPT !.pending = @ - 1]
  /\ UNCHANGED <<live, pc, receipt, panicked, child, stdin, history>>

\* The first error is kept and asks the child to stop, provided that the handle
\* is there.
CaptureFailed ==
  IF live.captureErr = "none"
  THEN /\ live' = [live EXCEPT !.captureErr = "output"]
       /\ child' = IF live.handle THEN Signalled("TERM") ELSE child
  ELSE UNCHANGED <<live, child>>

\* Append fails (quota, reserve, I/O): the chunk is lost, reading goes on.
CaptureChunkFails ==
  /\ CaptureMayFail
  /\ pc.capture = "reading" /\ stdout.pending > 0
  /\ stdout' = [stdout EXCEPT !.pending = @ - 1, !.lost = TRUE]
  /\ CaptureFailed
  /\ UNCHANGED <<pc, receipt, panicked, stdin, history>>

\* A read error other than end of file ends the capture with what is unread.
CaptureReadFails ==
  /\ CaptureMayFail
  /\ pc.capture = "reading"
  /\ stdout' = [stdout EXCEPT !.lost = TRUE]
  /\ CaptureFailed
  /\ pc' = [pc EXCEPT !.capture = "done"]
  /\ UNCHANGED <<receipt, panicked, stdin, history>>

CaptureEnds ==
  /\ pc.capture = "reading" /\ stdout.pending = 0 /\ ~Producer
  /\ pc' = [pc EXCEPT !.capture = "done"]
  /\ UNCHANGED <<live, receipt, panicked, child, stdin, stdout, history>>

-----------------------------------------------------------------------------
(* writeLoop and Handle.Write.                                             *)

WriterReceives ==
  /\ pc.writer = "receive" /\ live.jobs # <<>>
  /\ pc' = [pc EXCEPT !.writer = "write", !.job = Head(live.jobs)]
  /\ live' = [live EXCEPT !.jobs = Tail(@)]
  /\ UNCHANGED <<receipt, panicked, child, stdin, stdout, history>>

Unwritten == pc.writer = "write" /\ pc.job.written < Len(pc.job.data)
JobDone   == [pc EXCEPT !.writer = "receive", !.job = NoJob]

\* One write(2): it blocks while the pipe is full.
WriteByte ==
  /\ Unwritten
  /\ ~stdin.ended /\ Reader /\ stdin.unread < PipeSize
  /\ stdin' = [stdin EXCEPT !.got = Append(@, pc.job.data[pc.job.written + 1]),
                            !.unread = @ + 1]
  /\ pc' = [pc EXCEPT !.job.written = @ + 1]
  /\ UNCHANGED <<live, receipt, panicked, child, stdout, history>>

\* Handle.Write returned nil: the whole payload reached the pipe.
WriteReturns ==
  /\ pc.writer = "write" /\ ~pc.job.eof /\ ~Unwritten
  /\ live' = [live EXCEPT !.delivered = @ + Len(pc.job.data),
                          !.input = Delivered(@, Len(pc.job.data))]
  /\ pc' = JobDone
  /\ UNCHANGED <<receipt, panicked, child, stdin, stdout, history>>

\* Handle.CloseStdin.
WriterEndsInput ==
  /\ pc.writer = "write" /\ pc.job.eof
  /\ stdin' = [stdin EXCEPT !.ended = TRUE]
  /\ pc' = JobDone
  /\ UNCHANGED <<live, receipt, panicked, child, stdout, history>>

\* Mutant of WriteFails: the payload is written again from its first byte.
WriteFailureRetried ==
  /\ Unwritten
  /\ live' = [live EXCEPT !.jobs = <<InputJob(pc.job.data, FALSE)>> \o @]
  /\ pc' = JobDone
  /\ UNCHANGED <<receipt, panicked, child, stdin, stdout, history>>

\* Handle.Write failed: stdin was ended, or nobody reads the pipe any more.
WriteFails ==
  /\ Unwritten /\ (stdin.ended \/ ~Reader)
  /\ live' = [live EXCEPT !.captureErr = IF @ = "none" THEN "input" ELSE @,
                          !.target = "killed"]
  /\ child' = Signalled("TERM")
  /\ pc' = JobDone
  /\ UNCHANGED <<receipt, panicked, stdin, stdout, history>>

WriterEnds ==
  /\ pc.writer = "receive" /\ live.jobs = <<>> /\ live.jobsClosed
  /\ pc' = [pc EXCEPT !.writer = "done"]
  /\ UNCHANGED <<live, receipt, panicked, child, stdin, stdout, history>>

-----------------------------------------------------------------------------
(* waitLoop.                                                               *)

\* Mutant of WaitReturns: the output is not drained first.
WaitReturnsUndrained ==
  /\ pc.waiter = "wait" /\ child.leader = "dead"
  /\ live' = [live EXCEPT !.state = "finalizing"]
  /\ pc' = [pc EXCEPT !.waiter = "close"]
  /\ UNCHANGED <<receipt, panicked, child, stdin, stdout, history>>

\* Handle.Wait: the leader is reaped and the output drained.
WaitReturns ==
  /\ pc.waiter = "wait" /\ child.leader = "dead" /\ pc.capture = "done"
  /\ live' = [live EXCEPT !.state = "finalizing"]
  /\ pc' = [pc EXCEPT !.waiter = "close"]
  /\ UNCHANGED <<receipt, panicked, child, stdin, stdout, history>>

\* Mutant of CloseJobs: the channel is left open.
CloseJobsForgotten ==
  /\ pc.waiter = "close"
  /\ pc' = [pc EXCEPT !.waiter = "join"]
  /\ UNCHANGED <<live, receipt, panicked, child, stdin, stdout, history>>

\* No more jobs: the writer ends when it has drained the channel.
CloseJobs ==
  /\ pc.waiter = "close"
  /\ live' = [live EXCEPT !.jobsClosed = TRUE]
  /\ pc' = [pc EXCEPT !.waiter = "join"]
  /\ UNCHANGED <<receipt, panicked, child, stdin, stdout, history>>

\* classifyTerminalResult.
Classify(target, breach, err, exit, accepted, delivered) ==
  IF target # "none" THEN <<target, "">>
  ELSE IF breach THEN <<"failed", "resource_limit">>
  ELSE IF err # "none" THEN <<"killed", "output_capture_failed">>
  ELSE IF exit = "zero" /\ accepted = delivered THEN <<"completed", "">>
  ELSE IF accepted # delivered THEN <<"failed", "input_delivery_failed">>
  ELSE <<"failed", "">>

ReceiptFor(class) ==
  [state |-> class[1], reason |-> class[2], complete |-> live.captureErr = "none",
   accepted |-> live.accepted, delivered |-> live.delivered]

\* The writer is joined, the exit classified and the handle closed.
BuildReceipt ==
  /\ pc.waiter = "join" /\ pc.writer = "done"
  /\ \E breach \in {FALSE, Limited} :
       receipt' = ReceiptFor(Classify(live.target, breach, live.captureErr,
                                      child.exit, live.accepted, live.delivered))
  /\ stdin' = [stdin EXCEPT !.ended = TRUE]
  /\ pc' = [pc EXCEPT !.waiter = "publish"]
  /\ UNCHANGED <<live, panicked, child, stdout, history>>

\* publishUntilDurable has returned: the session becomes terminal ...
FinishWait ==
  /\ pc.waiter = "publish"
  /\ live' = [live EXCEPT !.state = receipt.state]
  /\ pc' = [pc EXCEPT !.waiter = "evict"]
  /\ UNCHANGED <<receipt, panicked, child, stdin, stdout, history>>

\* ... and then leaves the live map.
EvictTerminated ==
  /\ pc.waiter = "evict"
  /\ pc' = [pc EXCEPT !.waiter = "done"]
  /\ UNCHANGED <<live, receipt, panicked, child, stdin, stdout, history>>

-----------------------------------------------------------------------------
(* timeoutLoop and its grace goroutine.                                    *)

TimerFires ==
  /\ pc.timer = "armed"
  /\ IF live.state = "running"
     THEN /\ live' = [live EXCEPT !.target = "timed_out"]
          /\ child' = Signalled("TERM")
          /\ pc' = [pc EXCEPT !.timer = "grace"]
     ELSE /\ pc' = [pc EXCEPT !.timer = "done"]
          /\ UNCHANGED <<live, child>>
  /\ UNCHANGED <<receipt, panicked, stdin, stdout, history>>

\* Mutant of GraceExpires: a second TERM instead of KILL.
GraceExpiresPolitely ==
  /\ pc.timer = "grace"
  /\ child' = IF live.state \in {"running", "finalizing"} THEN Signalled("TERM") ELSE child
  /\ pc' = [pc EXCEPT !.timer = "done"]
  /\ UNCHANGED <<live, receipt, panicked, stdin, stdout, history>>

GraceExpires ==
  /\ pc.timer = "grace"
  /\ child' = IF live.state \in {"running", "finalizing"} THEN Signalled("KILL") ELSE child
  /\ pc' = [pc EXCEPT !.timer = "done"]
  /\ UNCHANGED <<live, receipt, panicked, stdin, stdout, history>>

-----------------------------------------------------------------------------
(* Requests.  A session is addressable while it is in Service.live.        *)

Addressable == pc.starter # "failed" /\ pc.waiter # "done"
Early == live.handle \/ EarlyRequests

\* Service.Write of bytes or of end-of-input; a refused or a duplicate write
\* changes nothing.
Enqueue(answer, b, eof) ==
  /\ Addressable /\ live.state = "running"
  /\ answer.err = "" /\ ~answer.duplicate
  /\ Len(live.jobs) < MaxQueued + 1
  /\ live' = [live EXCEPT !.input = answer.ledger, !.accepted = @ + answer.bytes,
                          !.jobs = Append(@, InputJob(b, eof))]
  /\ stream' = stream \o b
  /\ UNCHANGED <<pc, receipt, panicked, child, stdin, stdout, sent>>

Write(offset, b) ==
  /\ live.input.next + Len(b) <= MaxInput
  /\ Enqueue(AcceptChars(live.input, offset, b), b, FALSE)

WriteEOF(offset) == Enqueue(AcceptEOF(live.input, offset), <<>>, TRUE)

\* Service.Kill: a first attempt on a session that is not terminal is sent,
\* without looking at the handle.
Kill(id, signal) ==
  LET answer == Admit(live.kills, id, signal, live.state \in Terminal) IN
  /\ Addressable /\ Early
  /\ answer.err = ""
  /\ live' = [live EXCEPT !.kills = answer.ledger,
                          !.target = IF answer.send THEN "killed" ELSE @]
  /\ panicked' = (answer.send /\ ~live.handle)
  /\ child' = IF answer.send /\ live.handle THEN Signalled(signal) ELSE child
  /\ sent' = [sent EXCEPT ![id] = IF answer.send THEN @ + 1 ELSE @]
  /\ UNCHANGED <<pc, receipt, stdin, stdout, stream>>

-----------------------------------------------------------------------------
(* Service.Shutdown, for the one session.                                  *)

\* nonTerminalSessions finds it or not.
ShutdownBegins ==
  /\ ShutdownAllowed /\ pc.shutdown = "off" /\ Early
  /\ pc' = [pc EXCEPT !.shutdown = IF Addressable /\ live.state \notin Terminal
                                   THEN "term" ELSE "done"]
  /\ UNCHANGED <<live, receipt, panicked, child, stdin, stdout, history>>

ShutdownTerm ==
  /\ pc.shutdown = "term"
  /\ IF live.state = "running"
     THEN /\ live' = [live EXCEPT !.target = "killed"]
          /\ child' = Signalled("TERM")
     ELSE UNCHANGED <<live, child>>
  /\ pc' = [pc EXCEPT !.shutdown = "grace"]
  /\ UNCHANGED <<receipt, panicked, stdin, stdout, history>>

\* Mutant of ShutdownWaits: the end of the grace period counts as finished.
ShutdownWaitsOnce ==
  /\ pc.shutdown = "grace"
  /\ pc' = [pc EXCEPT !.shutdown = "done"]
  /\ UNCHANGED <<live, receipt, panicked, child, stdin, stdout, history>>

\* waitForSessions returns, or its grace period ends.
ShutdownWaits ==
  /\ pc.shutdown = "grace"
  /\ pc' = [pc EXCEPT !.shutdown = IF live.state \in Terminal THEN "done" ELSE "kill"]
  /\ UNCHANGED <<live, receipt, panicked, child, stdin, stdout, history>>

ShutdownKill ==
  /\ pc.shutdown = "kill"
  /\ panicked' = (live.state \notin Terminal /\ ~live.handle)
  /\ child' = IF live.state \notin Terminal /\ live.handle THEN Signalled("KILL")
                                                          ELSE child
  /\ pc' = [pc EXCEPT !.shutdown = "wait"]
  /\ UNCHANGED <<live, receipt, stdin, stdout, history>>

ShutdownDone ==
  /\ pc.shutdown = "wait" /\ live.state \in Terminal
  /\ pc' = [pc EXCEPT !.shutdown = "done"]
  /\ UNCHANGED <<live, receipt, panicked, child, stdin, stdout, history>>

\* The context of the shutdown expires.
ShutdownExpires ==
  /\ pc.shutdown \in {"grace", "wait"} /\ live.state \notin Terminal
  /\ pc' = [pc EXCEPT !.shutdown = "expired"]
  /\ UNCHANGED <<live, receipt, panicked, child, stdin, stdout, history>>

-----------------------------------------------------------------------------
Starter == \/ \E mode \in StdinModes : StartChild(mode)
           \/ AttachHandle \/ StartGoroutines
           \/ StartFails \/ FinalizeStartFailure \/ FinishStartFailure
Capture == CaptureChunk \/ CaptureChunkFails \/ CaptureReadFails \/ CaptureEnds
Writer  == WriterReceives \/ WriteByte \/ WriteReturns \/ WriterEndsInput
           \/ WriteFails \/ WriterEnds
Waiter  == WaitReturns \/ CloseJobs \/ BuildReceipt \/ FinishWait \/ EvictTerminated
Timer   == TimerFires \/ GraceExpires
Stopper == ShutdownTerm \/ ShutdownWaits \/ ShutdownKill \/ ShutdownDone
Clients == \/ \E b \in Payloads, offset \in 0 .. MaxInput : Write(offset, b)
           \/ \E offset \in 0 .. MaxInput : WriteEOF(offset)
           \/ \E id \in KillIds, signal \in KillSignals : Kill(id, signal)
Child   == \/ \E code \in {"zero", "nonzero"}, held \in Holds : ChildExits(code, held)
           \/ ChildDies \/ DescendantsExit \/ ChildReads \/ ChildWrites

\* The session is over.
Ended == ~Addressable /\ UNCHANGED vars

Next ==
  /\ ~panicked
  /\ \/ Starter \/ Capture \/ Writer \/ Waiter \/ Timer
     \/ Stopper \/ ShutdownBegins \/ ShutdownExpires
     \/ Clients \/ Child \/ Ended

Spec == Init /\ [][Next]_vars

-----------------------------------------------------------------------------
(* Safety.                                                                 *)

\* README "Execution truth": a receipt says completed only if the child exited
\* zero, everything it wrote was captured, and it was handed every byte of
\* input a client was told was accepted -- in order and once.
SuccessIsProven ==
  receipt.state = "completed" =>
    /\ child.exit = "zero"
    /\ stdout.pending = 0 /\ ~stdout.lost
    /\ stdin.got = stream

\* The child is handed a prefix of the accepted input: no write, retry, failure
\* or partial write(2) reorders, repeats or skips a byte.
InputInOrder == IsPrefix(stdin.got, stream)

\* A terminal state is not visible before the child is reaped, the output is
\* drained and the writer is joined, and the receipt's accounting is final.
TerminalIsFinal ==
  (live.state \in Terminal /\ pc.starter # "failed") =>
    /\ child.leader = "dead" /\ pc.capture = "done" /\ pc.writer = "done"
    /\ receipt.accepted = live.accepted /\ receipt.delivered = live.delivered

\* output_complete = true is not claimed for output that was lost, although capture
\* may fail in one chunk and go on with the next, and may end after the child.
CompleteOutputIsComplete == receipt.complete => ~stdout.lost /\ stdout.pending = 0

\* The receipt claims neither a success nor a completeness that did not happen, and
\* nothing happens after it (BuildReceipt, after Classify).
ReceiptIsTrue == SuccessIsProven /\ CompleteOutputIsComplete /\ TerminalIsFinal

\* Service.Write sends on l.jobs while it holds l.mu.  The channel always has
\* room for a write the ledger accepts, or the session would be locked up.
JobsNeverFull ==
  \/ Len(live.jobs) < MaxQueued + 1
  \/ /\ live.input.closed
     /\ \A b \in Payloads : AcceptChars(live.input, live.input.next, b).err # ""

\* A kill id is signalled once, however often the request is retried.
KillSentOnce == \A id \in KillIds : sent[id] <= 1

\* Shutdown that returns without an error leaves no command behind, and the
\* session has its receipt.
ShutdownLeavesNothing ==
  (pc.shutdown = "done" /\ pc.starter # "failed") =>
    /\ child.leader # "alive" /\ receipt.state # "none"

\* No request or shutdown calls a nil process handle.
NoPanic == ~panicked

\* "It is nonterminal and accepts no new input or signal attempt."
FinalizingTakesNoSignal ==
  [][live.state = "finalizing" => /\ live'.target = live.target
                                  /\ child'.sig = child.sig]_vars

-----------------------------------------------------------------------------
(* Liveness.  The goroutines of the daemon are scheduled, the timers fire, *)
(* and a signal that kills, kills.  The command, its descendants and the   *)
(* clients promise nothing: a command may run for ever and never read.     *)
Fairness ==
  /\ WF_vars(~panicked /\ Starter) /\ WF_vars(~panicked /\ Capture)
  /\ WF_vars(~panicked /\ Writer)  /\ WF_vars(~panicked /\ Waiter)
  /\ WF_vars(~panicked /\ Timer)   /\ WF_vars(~panicked /\ Stopper)
  /\ WF_vars(~panicked /\ ChildDies)

FairSpec == Spec /\ Fairness

\* A command with a timeout does not outlive it for ever.
TimeoutIsMet == pc.timer = "armed" ~> live.state \in Terminal

\* The waiter joins a writer that is blocked on a pipe which a descendant of the
\* command keeps open and does not read.
InputIsHeld == pc.waiter = "join" /\ Unwritten /\ "in" \in child.held

\* A command with a timeout, also one that ignores TERM, whose output cannot be
\* captured or whose descendants hold its pipes, does not outlive it for ever,
\* unless a descendant that nobody signals again keeps its stdin for ever.
TimeoutEndsSession == []<>~InputIsHeld => TimeoutIsMet

\* A command that was sent KILL, by a client, by its timeout or by shutdown, is
\* reaped and gets a terminal state.
KillEndsSession == child.sig = "KILL" ~> live.state \in Terminal

\* A command whose output can no longer be captured is ended.
CaptureFailureEnds == live.captureErr = "output" ~> live.state \in Terminal

\* "Sends TERM to the owned process group, waits the configured grace period,
\* then sends KILL if necessary", also when it is the capture that failed.
CaptureFailureEscalates ==
  (live.captureErr = "output" /\ child.sig = "TERM") ~> live.state \in Terminal
=============================================================================
