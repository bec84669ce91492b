------------------------- MODULE PersistentSession -------------------------
(***************************************************************************)
(* One persistent session across daemon crashes: the start that reserves a *)
(* binding and launches a supervisor, the supervisor that owns the child,  *)
(* the reconciler that imports its output and its terminal record, and the *)
(* startup pass that reattaches to it or declares it lost.                 *)
(*                                                                         *)
(* Every durable write is an action of its own, so that a crash may come   *)
(* between any two.  How one receipt is published in several writes is     *)
(* OperationStore's subject, and is one step here.  What happens inside    *)
(* the supervisor while the child runs (input, signals, the timeout) is    *)
(* SupervisorRuntime's.                                                    *)
(***************************************************************************)
EXTENDS Naturals, Sequences, SequencesExt

CONSTANTS
  MaxOutput,    \* bound: chunks of output the child writes
  MaxCrashes,   \* bound: stops of the daemon
  MaxFaults,    \* bound: writes of the daemon and the supervisor that fail, and
                \* startups too slow to repair a decided session
  SupervisorMayDie,  \* TRUE when the supervisor may be killed
  SlowStartup   \* TRUE when the startup budget may expire on a healthy session

ASSUME PersistentAssumption ==
  /\ {MaxOutput, MaxCrashes, MaxFaults} \subseteq Nat
  /\ {SupervisorMayDie, SlowStartup} \subseteq BOOLEAN

VARIABLES
  sess,     \* the session snapshot: "none", "starting" or "running"
  receipt,  \* its terminal receipt
  binding,  \* lifecycle of the persistent binding
  mark,     \* the recovery marker in persistent-sessions/active exists
  canon,    \* the canonical output.log
  priv,     \* the supervisor's private directory exists
  launch,   \* launch.json was claimed
  spool,    \* contents of output.spool
  size,     \* the extent the supervisor counts (Spool.size)
  ack,      \* output-ack.json
  term,     \* terminal.json
  sup,      \* the supervisor process
  child,    \* the command
  wrote,    \* chunks of output it has written: chunk k is k
  code,     \* its exit status
  capture,  \* captureErr of the supervisor is set
  boot,     \* how far the daemon is: "down", a step of its startup, "up"
  st,       \* step of the start request
  rc,       \* the reconciler of the session
  launches, \* history: supervisors spawned
  crashes, faults

store   == <<sess, receipt, binding, mark, canon>>
private == <<priv, launch, spool, size, ack, term>>
process == <<sup, child, wrote, code, capture>>
daemon  == <<boot, st, rc>>
counts  == <<launches, crashes, faults>>
vars    == <<store, private, process, daemon, counts>>

Open   == {"provisioning", "live"}
Closed == {"terminal", "lost"}

NoRecord == [state |-> "none", out |-> 0, complete |-> FALSE]
Torn     == [NoRecord EXCEPT !.state = "torn"]
Records  == [state : {"completed", "failed", "killed"}, out : 0 .. MaxOutput,
             complete : BOOLEAN]

NoReceipt   == [kind |-> "none", rec |-> NoRecord]
FailedStart == [kind |-> "failed_start", rec |-> NoRecord]
Abandoned   == [kind |-> "abandoned", rec |-> NoRecord]
FromRecord(r) == [kind |-> "terminal", rec |-> r]
Receipts == {NoReceipt, FailedStart, Abandoned} \cup {FromRecord(r) : r \in Records}

RcOff == [pc |-> "off", inline |-> FALSE, conn |-> FALSE, off |-> 0, target |-> 0,
          ended |-> FALSE, fin |-> FALSE]
Reconcilers ==
  [pc : {"off", "status", "read", "wait", "recover", "publish", "close", "unmark",
         "cleanup", "abandon", "lose"},
   inline : BOOLEAN, conn : BOOLEAN, off : 0 .. MaxOutput, target : 0 .. MaxOutput,
   ended : BOOLEAN, fin : BOOLEAN]

TypeOK ==
  /\ sess \in {"none", "starting", "running"}
  /\ receipt \in Receipts
  /\ binding \in {"none"} \cup Open \cup Closed
  /\ mark \in BOOLEAN /\ priv \in BOOLEAN /\ launch \in BOOLEAN /\ capture \in BOOLEAN
  /\ canon \in Seq(Nat) /\ spool \in Seq(Nat)
  /\ size \in 0 .. MaxOutput /\ ack \in 0 .. MaxOutput /\ wrote \in 0 .. MaxOutput
  /\ term \in {NoRecord, Torn} \cup Records
  /\ sup \in {"none", "booting", "serving", "finalizing", "frozen", "gone"}
  /\ child \in {"none", "running", "gone"} /\ code \in {"none", "zero", "nonzero"}
  /\ boot \in {"down", "abandon", "list", "candidate", "unmark", "attached",
               "inline", "up"}
  /\ st \in {"idle", "mark", "bind", "prepare", "claim", "spawn", "attach",
             "advance", "run", "publish", "lose", "unmark"}
  /\ rc \in Reconcilers
  /\ launches \in Nat /\ crashes \in 0 .. MaxCrashes /\ faults \in 0 .. MaxFaults

Init ==
  /\ sess = "none" /\ receipt = NoReceipt /\ binding = "none" /\ mark = FALSE
  /\ canon = <<>> /\ priv = FALSE /\ launch = FALSE /\ spool = <<>> /\ size = 0
  /\ ack = 0 /\ term = NoRecord /\ sup = "none" /\ child = "none" /\ code = "none"
  /\ wrote = 0 /\ capture = FALSE /\ boot = "up" /\ st = "idle" /\ rc = RcOff
  /\ launches = 0 /\ crashes = 0 /\ faults = 0

Fault == faults < MaxFaults /\ faults' = faults + 1

-----------------------------------------------------------------------------
(* The supervisor process.                                                 *)

Serving == sup \in {"serving", "finalizing", "frozen"}
Alive   == sup = "booting" \/ Serving

\* Run: private state, control socket, runtime.Start.  A bootstrap that is
\* refused ends the process; a spawn that fails freezes a record first.
SupervisorStarts ==
  /\ sup = "booting"
  /\ \/ sup' = "serving" /\ child' = "running" /\ UNCHANGED <<term, faults>>
     \/ Fault /\ sup' = "gone" /\ UNCHANGED <<child, term>>
     \/ /\ Fault /\ sup' = "gone" /\ UNCHANGED child
        /\ term' = [state |-> "failed", out |-> 0, complete |-> TRUE]
  /\ UNCHANGED <<store, priv, launch, spool, size, ack, wrote, code, capture, daemon,
                 launches, crashes>>

\* Spool.AppendRange.  On an error (the limit, or a write of which a part may
\* reach the file) the counted extent stays and capture has failed.  The owner
\* goes on reading, and a later chunk that fits is appended all the same.
SpoolAppends ==
  /\ sup = "serving" /\ child = "running" /\ wrote < MaxOutput
  /\ wrote' = wrote + 1
  /\ \/ /\ spool' = Append(spool, wrote') /\ size' = size + 1
        /\ UNCHANGED <<capture, faults>>
     \/ /\ Fault /\ capture' = TRUE /\ UNCHANGED size
        /\ spool' \in {spool, Append(spool, wrote')}
  /\ UNCHANGED <<store, priv, launch, ack, term, sup, child, code, daemon,
                 launches, crashes>>

\* The command ends; the supervisor that waits for it is finalizing.
ChildExits ==
  /\ child = "running" /\ child' = "gone"
  /\ code' \in {"zero", "nonzero"}
  /\ sup' = IF sup = "serving" THEN "finalizing" ELSE sup
  /\ UNCHANGED <<store, private, wrote, capture, daemon, counts>>

TerminalOutcome ==
  IF capture THEN "killed" ELSE IF code = "zero" THEN "completed" ELSE "failed"

\* freezeTerminal: the state becomes terminal whether or not the record could
\* be written.
FreezeTerminal ==
  /\ sup = "finalizing" /\ sup' = "frozen"
  /\ \/ /\ term' = [state |-> TerminalOutcome, out |-> size, complete |-> ~capture]
        /\ UNCHANGED faults
     \/ Fault /\ UNCHANGED term
  /\ UNCHANGED <<store, priv, launch, spool, size, ack, child, wrote, code, capture,
                 daemon, launches, crashes>>

\* Run returns once the runtime is terminal: the socket is closed.
SupervisorExits ==
  /\ sup = "frozen" /\ sup' = "gone"
  /\ UNCHANGED <<store, private, child, wrote, code, capture, daemon, counts>>

\* The supervisor is killed; the child goes on.  A kill while the record is
\* being written may leave half of it.
SupervisorDies ==
  /\ SupervisorMayDie /\ Alive /\ sup' = "gone"
  /\ \/ UNCHANGED term
     \/ sup = "finalizing" /\ term' = Torn
  /\ UNCHANGED <<store, priv, launch, spool, size, ack, child, wrote, code, capture,
                 daemon, counts>>

SupervisorStep == SupervisorStarts \/ FreezeTerminal \/ SupervisorExits

-----------------------------------------------------------------------------
(* The start request, from the admitted reservation to Running.            *)

Fail(next) == st' = next /\ UNCHANGED <<store, private, process, boot, rc>>

\* The reservation is durable (OperationStore) before anything else exists.
StartReserves ==
  /\ boot = "up" /\ st = "idle" /\ sess = "none"
  /\ sess' = "starting" /\ st' = "mark"
  /\ UNCHANGED <<receipt, binding, mark, canon, private, process, boot, rc, counts>>

\* ReservePersistentBinding: the recovery marker, then the binding.
StartMarks ==
  /\ st = "mark"
  /\ \/ mark' = TRUE /\ st' = "bind"
        /\ UNCHANGED <<sess, receipt, binding, canon, private, process, boot, rc, counts>>
     \/ Fault /\ Fail("publish") /\ UNCHANGED <<launches, crashes>>

StartBinds ==
  /\ st = "bind"
  /\ \/ binding' = "provisioning" /\ st' = "prepare"
        /\ UNCHANGED <<sess, receipt, mark, canon, private, process, boot, rc, counts>>
     \/ Fault /\ Fail("publish") /\ UNCHANGED <<launches, crashes>>

StartPrepares ==
  /\ st = "prepare"
  /\ \/ priv' = TRUE /\ st' = "claim"
        /\ UNCHANGED <<store, launch, spool, size, ack, term, process, boot, rc, counts>>
     \/ Fault /\ Fail("publish") /\ UNCHANGED <<launches, crashes>>

\* claimLaunchMarker: only the caller that creates launch.json may spawn.
StartClaims ==
  /\ st = "claim"
  /\ \/ /\ launch' = TRUE /\ st' = IF launch THEN "attach" ELSE "spawn"
        /\ UNCHANGED <<store, priv, spool, size, ack, term, process, boot, rc, counts>>
     \/ Fault /\ Fail("publish") /\ UNCHANGED <<launches, crashes>>

StartSpawns ==
  /\ st = "spawn"
  /\ \/ /\ sup' = "booting" /\ launches' = launches + 1 /\ st' = "attach"
        /\ UNCHANGED <<store, private, child, wrote, code, capture, boot, rc, crashes, faults>>
     \/ Fault /\ Fail("publish") /\ UNCHANGED <<launches, crashes>>

\* attachUntilReady and the readiness proof: only a Running status will do.
StartAttaches ==
  /\ st = "attach" /\ Serving
  /\ Fail(IF sup = "serving" THEN "advance" ELSE "publish") /\ UNCHANGED counts

\* Mutant of StartAttachExpires: no answer in time, so the launch is repeated.
StartAttachRelaunches ==
  st = "attach" /\ Fail("spawn") /\ UNCHANGED counts

\* The handshake deadline passes, or the request is cancelled.
StartAttachExpires ==
  st = "attach" /\ Fail("publish") /\ UNCHANGED counts

\* Service.Ensure advances the binding; an error may hide a durable change.
StartAdvances ==
  /\ st = "advance"
  /\ \/ binding' = "live" /\ st' = "run" /\ UNCHANGED faults
     \/ Fault /\ binding' \in {binding, "live"} /\ st' = "publish"
  /\ UNCHANGED <<sess, receipt, mark, canon, private, process, boot, rc, launches, crashes>>

\* AdvanceSession, then startPersistentReconciliation.
StartRuns ==
  /\ st = "run"
  /\ \/ /\ sess' = "running" /\ st' = "idle"
        /\ rc' = [RcOff EXCEPT !.pc = "status", !.conn = TRUE]
        /\ UNCHANGED <<receipt, binding, mark, canon, private, process, boot, counts>>
     \/ Fault /\ Fail("publish") /\ UNCHANGED <<launches, crashes>>

\* publishPersistentSpawnFailure, then convergeFailedPersistentBinding.
StartPublishesFailure ==
  /\ st = "publish" /\ receipt' = FailedStart /\ st' = "lose"
  /\ UNCHANGED <<sess, binding, mark, canon, private, process, boot, rc, counts>>

StartLosesBinding ==
  /\ st = "lose"
  /\ binding' = IF binding \in Open THEN "lost" ELSE binding
  /\ st' = IF binding \in Open THEN "unmark" ELSE "idle"
  /\ UNCHANGED <<sess, receipt, mark, canon, private, process, boot, rc, counts>>

\* The marker goes last; when it cannot, the retry sees the binding lost and
\* returns.
StartUnmarks ==
  /\ st = "unmark" /\ st' = "idle"
  /\ \/ mark' = FALSE /\ UNCHANGED faults
     \/ Fault /\ UNCHANGED mark
  /\ UNCHANGED <<sess, receipt, binding, canon, private, process, boot, rc, launches, crashes>>

StartStep ==
  \/ StartMarks \/ StartBinds \/ StartPrepares \/ StartClaims \/ StartSpawns
  \/ StartAttaches \/ StartAttachExpires \/ StartAdvances \/ StartRuns
  \/ StartPublishesFailure \/ StartLosesBinding \/ StartUnmarks

-----------------------------------------------------------------------------
(* The reconciler (reconcilePersistentSession and its retry loop).  At     *)
(* startup the same code runs inline, where an error that is not a loss    *)
(* ends the daemon instead of being retried.                               *)

Connected == rc.conn /\ Serving
Loadable  == priv /\ term \in Records
\* openVerifiedTerminalSpool: the file is as long as the record says.
Verified  == Loadable /\ Len(spool) = term.out

RcNext(next) == rc' = [rc EXCEPT !.pc = next] /\ UNCHANGED <<boot, st>>
RcEnds == rc' = RcOff /\ boot' = (IF rc.inline THEN "up" ELSE boot) /\ UNCHANGED st

\* Mutant of RcFails: the reconciler gives up on an error that is not a loss.
RcFailsOnce(loss) ==
  IF loss /\ receipt = NoReceipt THEN RcNext("abandon")
  ELSE rc' = RcOff /\ boot' = (IF rc.inline THEN "down" ELSE boot) /\ UNCHANGED st

\* runPersistentReconciliation: a loss is declared only while there is no
\* receipt; anything else is tried again from the beginning.
RcFails(loss) ==
  IF loss /\ receipt = NoReceipt THEN RcNext("abandon")
  ELSE IF rc.inline THEN rc' = RcOff /\ boot' = "down" /\ UNCHANGED st
  ELSE RcNext("status")

\* What a status request answers, or the terminal record when it fails.
RcObserves ==
  IF Connected
    THEN /\ rc' = [rc EXCEPT !.pc = "read", !.off = ack, !.target = size,
                             !.ended = (sup = "frozen"), !.fin = FALSE]
         /\ UNCHANGED <<boot, st>>
    ELSE IF Loadable THEN RcNext("recover") ELSE RcFails(TRUE)

RcStatus ==
  /\ rc.pc = "status" /\ RcObserves
  /\ UNCHANGED <<store, private, process, counts>>

RcWaits ==
  /\ rc.pc = "wait" /\ (Connected => size # rc.target \/ sup = "frozen")
  /\ RcObserves
  /\ UNCHANGED <<store, private, process, counts>>

\* Mutant of ReconcileOutput: an overlap is appended again.
ReconcileOutputAgain(offset, chunk) ==
  IF offset > Len(canon) THEN [ok |-> FALSE, log |-> canon]
  ELSE [ok |-> TRUE, log |-> Append(canon, chunk)]

\* Repository.ReconcilePersistentOutput: overlap must be equal, a gap is a
\* conflict, only the missing suffix is appended.
ReconcileOutput(offset, chunk) ==
  IF offset > Len(canon) THEN [ok |-> FALSE, log |-> canon]
  ELSE IF offset < Len(canon) THEN [ok |-> canon[offset + 1] = chunk, log |-> canon]
  ELSE [ok |-> TRUE, log |-> Append(canon, chunk)]

RcReads ==
  /\ rc.pc = "read" /\ rc.off < rc.target
  /\ IF ~(Connected \/ Verified)
       THEN RcFails(TRUE) /\ UNCHANGED <<canon, faults>>
       ELSE LET got == ReconcileOutput(rc.off, spool[rc.off + 1]) IN
            \/ /\ canon' = got.log /\ UNCHANGED faults
               /\ IF got.ok THEN /\ rc' = [rc EXCEPT !.off = @ + 1]
                                 /\ UNCHANGED <<boot, st>>
                  ELSE RcFails(TRUE)
            \/ Fault /\ RcFails(FALSE) /\ UNCHANGED canon
  /\ UNCHANGED <<sess, receipt, binding, mark, private, process, launches, crashes>>

\* AcknowledgeOutput once the whole range is canonical.  A failed write of
\* output-ack.json is reported as an output conflict.
RcAcknowledges ==
  /\ rc.pc = "read" /\ rc.off = rc.target
  /\ IF ~(Connected \/ Verified) \/ rc.target < ack
       THEN RcFails(TRUE) /\ UNCHANGED <<ack, faults>>
       ELSE \/ /\ ack' = rc.target /\ UNCHANGED faults
               /\ IF rc.fin THEN RcNext("publish")
                  ELSE IF ~rc.ended THEN RcNext("wait")
                  ELSE IF Loadable THEN RcNext("recover") ELSE RcFails(TRUE)
            \/ Fault /\ RcFails(TRUE) /\ UNCHANGED ack
  /\ UNCHANGED <<store, priv, launch, spool, size, term, process, launches, crashes>>

\* Mutant of RcRecovers: the receipt is published without the rest of the output.
RcRecoversRecordOnly ==
  /\ rc.pc = "recover" /\ IF Verified THEN RcNext("publish") ELSE RcFails(TRUE)
  /\ UNCHANGED <<store, private, process, counts>>

\* finishPersistentTerminal: the rest of the output first.
RcRecovers ==
  /\ rc.pc = "recover"
  /\ IF Verified
       THEN /\ rc' = [rc EXCEPT !.pc = "read", !.off = ack, !.target = term.out,
                                !.fin = TRUE]
            /\ UNCHANGED <<boot, st>>
       ELSE RcFails(TRUE)
  /\ UNCHANGED <<store, private, process, counts>>

\* publishPersistentTerminal retries until the receipt is durable.
RcPublishes ==
  /\ rc.pc = "publish" /\ receipt \in {NoReceipt, FromRecord(term)}
  /\ receipt' = FromRecord(term) /\ RcNext("close")
  /\ UNCHANGED <<sess, binding, mark, canon, private, process, counts>>

\* AdvancePersistentBinding: nothing leads out of a closed lifecycle.
RcCloses ==
  /\ rc.pc = "close"
  /\ IF binding \in Closed THEN RcFails(FALSE) /\ UNCHANGED <<binding, faults>>
     ELSE \/ binding' = "terminal" /\ RcNext("unmark") /\ UNCHANGED faults
          \/ Fault /\ binding' \in {binding, "terminal"} /\ RcFails(FALSE)
  /\ UNCHANGED <<sess, receipt, mark, canon, private, process, launches, crashes>>

RcUnmarks ==
  /\ rc.pc = "unmark"
  /\ \/ mark' = FALSE /\ RcNext("cleanup") /\ UNCHANGED faults
     \/ Fault /\ RcFails(FALSE) /\ UNCHANGED mark
  /\ UNCHANGED <<sess, receipt, binding, canon, private, process, launches, crashes>>

\* cleanupVerifiedPrivateState, whose failure is ignored.
RcCleansUp ==
  /\ rc.pc = "cleanup" /\ RcEnds
  /\ \/ Verified /\ ack = term.out /\ priv' = FALSE /\ UNCHANGED faults
     \/ ~(Verified /\ ack = term.out) /\ UNCHANGED <<priv, faults>>
     \/ Fault /\ UNCHANGED priv
  /\ UNCHANGED <<store, launch, spool, size, ack, term, process, launches, crashes>>

\* AbandonPersistentSession: the ambiguous receipt, then the lost binding.
RcAbandons ==
  /\ rc.pc = "abandon" /\ receipt \in {NoReceipt, Abandoned}
  /\ receipt' = Abandoned /\ RcNext("lose")
  /\ UNCHANGED <<sess, binding, mark, canon, private, process, counts>>

RcLoses ==
  /\ rc.pc = "lose"
  /\ \/ /\ binding \in Open /\ binding' = "lost" /\ RcNext("lose")
        /\ UNCHANGED <<mark, faults>>
     \/ /\ binding \in Closed /\ mark' = FALSE /\ RcEnds /\ UNCHANGED <<binding, faults>>
     \/ /\ Fault /\ UNCHANGED <<binding, mark>>
        /\ IF rc.inline THEN RcFails(FALSE)
           ELSE IF binding \in Closed THEN RcEnds ELSE RcNext("lose")
  /\ UNCHANGED <<sess, receipt, canon, private, process, launches, crashes>>

RcStep ==
  \/ RcStatus \/ RcWaits \/ RcReads \/ RcAcknowledges \/ RcRecovers \/ RcPublishes
  \/ RcCloses \/ RcUnmarks \/ RcCleansUp \/ RcAbandons \/ RcLoses

-----------------------------------------------------------------------------
(* The daemon stops and starts again.                                      *)

\* A crash, or a shutdown that cancelled the reconciler: the child and its
\* supervisor are left alone.
DaemonStops ==
  /\ boot # "down" /\ crashes < MaxCrashes
  /\ boot' = "down" /\ st' = "idle" /\ rc' = RcOff /\ crashes' = crashes + 1
  /\ UNCHANGED <<store, private, process, launches, faults>>

BootStarts ==
  /\ boot = "down" /\ boot' = "abandon"
  /\ UNCHANGED <<store, private, process, st, rc, counts>>

\* Mutant of BootAbandons: persistent sessions are left to the candidate list,
\* bound or not.
BootAbandonsNothing ==
  /\ boot = "abandon" /\ boot' = "list"
  /\ UNCHANGED <<store, private, process, st, rc, counts>>

\* AbandonUnresolved leaves a persistent session alone only when it is bound.
BootAbandons ==
  /\ boot = "abandon" /\ boot' = "list"
  /\ receipt' = IF sess # "none" /\ receipt = NoReceipt /\ binding = "none"
                THEN Abandoned ELSE receipt
  /\ UNCHANGED <<sess, binding, mark, canon, private, process, st, rc, counts>>

\* ListPersistentRecoveryCandidates works from the markers.
BootLists ==
  /\ boot = "list"
  /\ binding' = IF mark /\ binding = "none" THEN "provisioning" ELSE binding
  /\ mark' = (mark /\ binding \notin Closed)
  /\ boot' = IF mark' THEN "candidate" ELSE "up"
  /\ UNCHANGED <<sess, receipt, canon, private, process, st, rc, counts>>

\* repairCanonicalTerminalPersistentBinding: the receipt wins.
BootRepairs ==
  /\ boot = "candidate" /\ receipt # NoReceipt
  /\ binding' = IF receipt.kind = "terminal" THEN "terminal" ELSE "lost"
  /\ boot' = "unmark"
  /\ UNCHANGED <<sess, receipt, mark, canon, private, process, st, rc, counts>>

\* The budget ends before that binding is written, before its write is seen to
\* have happened, or before the candidate is looked at.
\* AbandonPersistentSession goes on from an abandoned receipt and refuses any
\* other (canonical_terminal_exists): the startup fails.
BootRefuses ==
  /\ boot = "candidate" /\ receipt # NoReceipt /\ Fault
  /\ \/ /\ receipt = Abandoned /\ boot' = "inline" /\ UNCHANGED binding
        /\ rc' = [RcOff EXCEPT !.pc = "lose", !.inline = TRUE]
     \/ receipt = Abandoned /\ boot' = "up" /\ binding' = "lost" /\ UNCHANGED rc
     \/ /\ receipt # Abandoned /\ boot' = "down" /\ UNCHANGED rc
        /\ \/ UNCHANGED binding
           \/ binding' = IF receipt.kind = "terminal" THEN "terminal" ELSE "lost"
  /\ UNCHANGED <<sess, receipt, mark, canon, private, process, st, launches, crashes>>

BootUnmarks ==
  /\ boot = "unmark" /\ boot' = "up"
  /\ \/ mark' = FALSE /\ UNCHANGED faults
     \/ Fault /\ UNCHANGED mark
  /\ UNCHANGED <<sess, receipt, binding, canon, private, process, st, rc, launches, crashes>>

\* Reattach to a supervisor that proves a running child: the binding first.
BootReattaches ==
  /\ boot = "candidate" /\ receipt = NoReceipt /\ priv /\ sup = "serving"
  /\ \/ binding' = "live" /\ boot' = "attached" /\ UNCHANGED faults
     \/ Fault /\ binding' \in {binding, "live"} /\ boot' = "down"
  /\ UNCHANGED <<sess, receipt, mark, canon, private, process, st, rc, launches, crashes>>

BootRuns ==
  /\ boot = "attached"
  /\ \/ /\ sess' = "running" /\ boot' = "up"
        /\ rc' = [RcOff EXCEPT !.pc = "status", !.conn = TRUE] /\ UNCHANGED faults
     \/ Fault /\ boot' = "down" /\ UNCHANGED <<sess, rc>>
  /\ UNCHANGED <<receipt, binding, mark, canon, private, process, st, launches, crashes>>

\* A supervisor that is over: through its socket, or from the record it left.
BootRecovers ==
  /\ boot = "candidate" /\ receipt = NoReceipt /\ priv
  /\ sup = "frozen" \/ (~Serving /\ Verified)
  /\ boot' = "inline"
  /\ rc' = [RcOff EXCEPT !.pc = "status", !.inline = TRUE, !.conn = (sup = "frozen")]
  /\ UNCHANGED <<store, private, process, st, counts>>

\* What persistentStartupLossReason classifies: no private state, a status that
\* is neither running nor terminal, a record that cannot be used, no answer
\* before the deadline.
BootLoses ==
  /\ boot = "candidate" /\ receipt = NoReceipt
  /\ \/ ~priv
     \/ sup = "finalizing"
     \/ ~Serving /\ ~Verified
     \/ SlowStartup
  /\ boot' = "inline" /\ rc' = [RcOff EXCEPT !.pc = "abandon", !.inline = TRUE]
  /\ UNCHANGED <<store, private, process, st, counts>>

BootStep ==
  \/ BootStarts \/ BootAbandons \/ BootLists \/ BootRepairs \/ BootRefuses
  \/ BootUnmarks \/ BootReattaches \/ BootRuns \/ BootRecovers \/ BootLoses

Next ==
  \/ SupervisorStep \/ SpoolAppends \/ ChildExits \/ SupervisorDies
  \/ StartReserves \/ StartStep \/ RcStep \/ BootStep \/ DaemonStops

Spec == Init /\ [][Next]_vars

\* Each goroutine and process that can run does, and a daemon that went down is
\* started again.  Nothing is assumed of the command: it may run for ever.
Fairness ==
  WF_vars(SupervisorStep) /\ WF_vars(StartStep) /\ WF_vars(RcStep) /\ WF_vars(BootStep)

FairSpec == Spec /\ Fairness

-----------------------------------------------------------------------------
(* Properties.                                                             *)

\* However often the daemon dies and whatever fails, one session never gets a
\* second supervisor, hence never a second child (Launcher.Ensure, Reattach).
OneSupervisor == launches <= 1

\* The canonical output is what the supervisor spooled, in order, nothing twice
\* and nothing left out, although a range is imported again after a crash
\* between the append and its acknowledgement (reconcilePersistentOutput), and
\* it is a subsequence of what the child wrote.
CanonicalIsPrefix ==
  /\ IsPrefix(canon, SubSeq(spool, 1, size))
  /\ \A i, j \in 1 .. Len(canon) : i < j => canon[i] < canon[j]

\* What the supervisor was told to be canonical is canonical.
AckedIsCanonical == ack <= Len(canon)

\* A binding that is not closed has a recovery marker, without which no restart
\* would look at the session again (ReservePersistentBinding writes it first,
\* AdvancePersistentBinding removes it last).
RecoverableUntilClosed == binding \in Open => mark

\* A receipt taken from a terminal record says what the supervisor saw: all the
\* output it counts is canonical, complete only when capture never failed, and
\* completed only for a child that exited with zero.
ReceiptIsTheRecord ==
  receipt.kind = "terminal" =>
    /\ receipt.rec = term /\ Len(canon) = term.out
    /\ term.complete => canon = [k \in 1 .. wrote |-> k]
    /\ (term.state = "completed" => child = "gone" /\ code = "zero" /\ term.complete)

\* A closed binding agrees with the receipt, which is published first.
ClosedIsDecided ==
  /\ binding = "terminal" => receipt.kind = "terminal"
  /\ binding = "lost" => receipt.kind \in {"failed_start", "abandoned"}

\* Receipt, binding and the supervisor's record, three files of two processes, tell
\* one story at every moment a daemon may stop.
DecisionsAgree == ReceiptIsTheRecord /\ ClosedIsDecided

\* The private spool and record are removed only when nothing of them is needed.
PrivateKeptUntilImported ==
  launch /\ ~priv => receipt.kind = "terminal" /\ Len(canon) = receipt.rec.out

\* The output of the session reaches the canonical log exactly once, and its source
\* is neither released nor removed before that.
OutputIsImportedOnce == CanonicalIsPrefix /\ AckedIsCanonical /\ PrivateKeptUntilImported

\* A daemon that is ready has an owner for every open binding: the start that
\* made it or a reconciler.  "A transient error is never allowed to silently
\* orphan a Live binding" (runPersistentReconciliation).
NeverOwnerless == boot = "up" /\ binding \in Open /\ st = "idle" => rc.pc # "off"

\* An open binding is somebody's business, in this daemon and in the next.
OpenIsOwned == RecoverableUntilClosed /\ NeverOwnerless

Decided == receipt # NoReceipt /\ binding \notin Open

\* No session keeps its slot for ever: a start ends in a decision or in a child
\* that runs under its supervisor, and once the child or the supervisor is gone
\* the session is decided, by this daemon or a later one.
SessionSettles ==
  /\ (sess # "none") ~> (Decided \/ (child = "running" /\ sup = "serving"))
  /\ (sess # "none" /\ (child = "gone" \/ sup = "gone")) ~> Decided
-----------------------------------------------------------------------------
(* What the design says and the code does not do.                          *)

\* "If provisioning cannot prove whether a supervisor/child became live, the
\* result is ambiguous/lost": a start that is reported failed did not run.
FailedStartNeverRan == receipt.kind = "failed_start" => child = "none"

\* "If the daemon is absent, a later daemon verifies and consumes the frozen
\* record": while supervisors live and startup is in time, no session whose
\* supervisor has frozen a record is abandoned.
FrozenRecordIsUsed ==
  [][receipt' = Abandoned /\ receipt # Abandoned => term \notin Records]_vars

\* "Fails closed and marks output incomplete rather than fabricating continuity":
\* canonical output is the beginning of what the child wrote, also when capture
\* failed in between.
NoHoleInOutput == canon = [k \in 1 .. Len(canon) |-> k]

\* The reconciler of a decided session ends (runPersistentReconciliation "may
\* exit ... after canonical terminal convergence").
ReconcilerEnds == (receipt # NoReceipt) ~> (rc.pc = "off")
=============================================================================
