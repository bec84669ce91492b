--------------------------- MODULE ObservationLog ---------------------------
(***************************************************************************)
(* The observation log: the ledger of obligations that every writer of the *)
(* store keeps around its own write, the projection of that ledger into    *)
(* events, the two retention passes, and a client that reads the events    *)
(* from a cursor.                                                          *)
(*                                                                         *)
(* A writer prepares an obligation under the next sequence number, does    *)
(* its write, and commits or aborts the obligation.  `applied' holds the   *)
(* numbers under which a change was made in the store.  Several obligations *)
(* may name one subject, the record that their change makes: a call that   *)
(* failed is repeated under a new number.                                  *)
(* observationMu and eventMu make each operation on the ledger and on the  *)
(* events one step; the materializer's own lock spans several.             *)
(***************************************************************************)
EXTENDS Naturals, FiniteSets, FiniteSetsExt

CONSTANTS
  Writers,    \* callers that change the store
  Hiding,     \* those that hold observationVisibilityMu (telemetry, traces, repro, checkpoints)
  Mine,       \* the changes that concern the client's target
  Shown,      \* those that the facts of a snapshot tell: admission, start and end
  ScanLimit,  \* eventScanLimit
  MaxEvents,  \* InspectRequest.MaxEvents
  MaxSeq,     \* bound: sequence numbers
  MaxFaults,  \* bound: store operations that fail
  MaxCrashes  \* bound: times the daemon dies

Seqs == 1 .. MaxSeq

ASSUME LogAssumption ==
  /\ {MaxSeq, MaxFaults, MaxCrashes} \subseteq Nat
  /\ {ScanLimit, MaxEvents} \subseteq Nat \ {0}
  /\ Hiding \subseteq Writers /\ Shown \subseteq Mine /\ Mine \subseteq Seqs

VARIABLES
  ledger,     \* state of each obligation
  subject,    \* SubjectRef: the first obligation that named the same subject
  high,       \* observationHighWatermark
  applied,    \* changes that are in the store
  writer,     \* where each writer is, with its sequence number
  retries,    \* observationRetries: transitions to repeat
  wake,       \* a wakeup is buffered
  events,     \* the projected events
  projection, \* projection-state.json
  run,        \* the call of Materialize under way
  loop,       \* materializationLoop
  client,     \* the client's call of Inspect, its cursor and what it knows
  adopted,    \* history: obligations that a startup has decided
  faults, crashes

store   == <<ledger, subject, high, applied>>
writing == <<writer, retries, wake>>
journal == <<events, projection>>
history == <<adopted, faults, crashes>>
vars == <<store, writing, journal, run, loop, client, history>>

States == {"none", "prepared", "committed", "aborted", "collected"}
Terminal == {"committed", "aborted"}
Idle   == [pc |-> "idle", seq |-> 0, to |-> "none"]
NoRun  == [who |-> "none", pc |-> "idle", mat |-> 0, comp |-> 0, high |-> 0,
           batch |-> [s \in Seqs |-> "none"]]
NoCall == [pc |-> "idle", through |-> 0, comp |-> 0]

\* A writer's section, the marks of the projection, a call of Materialize, a call of
\* the client, and the client.
Sections == [pc : {"idle", "write", "finish"}, seq : 0 .. MaxSeq, to : Terminal \cup {"none"}]
Marks == [mat : 0 .. MaxSeq, comp : 0 .. MaxSeq]
Runs == [who : {"none", "loop", "client"}, pc : {"idle", "high", "put", "save"},
         mat : 0 .. MaxSeq, comp : 0 .. MaxSeq, high : 0 .. MaxSeq, batch : [Seqs -> States]]
Calls == [pc : {"idle", "asked", "list", "cut", "facts"}, through : 0 .. MaxSeq, comp : 0 .. MaxSeq]
\* `resumed' is the cut of its last snapshot; `missed' is history: the changes that a
\* compaction during a call, or a writer during a snapshot, has kept from it.
Readers == [call : Calls, cursor : 0 .. MaxSeq, resumed : 0 .. MaxSeq, known : SUBSET Mine,
            missed : SUBSET Seqs]

TypeOK ==
  /\ ledger \in [Seqs -> States] /\ subject \in [Seqs -> 0 .. MaxSeq]
  /\ high \in 0 .. MaxSeq /\ applied \subseteq Seqs
  /\ writer \in [Writers -> Sections]
  /\ retries \in [Seqs -> Terminal \cup {"none"}] /\ wake \in BOOLEAN
  /\ events \subseteq Seqs
  /\ projection \in Marks /\ projection.comp <= projection.mat
  /\ run \in Runs
  /\ loop \in {"retry", "material", "again", "running", "repeating", "timer", "error", "waiting"}
  /\ client \in Readers
  /\ adopted \subseteq Seqs /\ faults \in 0 .. MaxFaults /\ crashes \in 0 .. MaxCrashes

Init ==
  /\ ledger = [s \in Seqs |-> "none"] /\ subject = [s \in Seqs |-> 0]
  /\ high = 0 /\ applied = {}
  /\ writer = [w \in Writers |-> Idle] /\ retries = [s \in Seqs |-> "none"] /\ wake = FALSE
  /\ events = {} /\ projection = [mat |-> 0, comp |-> 0]
  /\ run = NoRun /\ loop = "retry"
  /\ client = [call |-> NoCall, cursor |-> 0, resumed |-> 0, known |-> {},
                missed |-> {}]
  /\ adopted = {} /\ faults = 0 /\ crashes = 0

Fault == faults < MaxFaults /\ faults' = faults + 1
-----------------------------------------------------------------------------
(* Writers. *)

\* No writer holds observationVisibilityMu: the high watermark can be read.
Visible == \A w \in Hiding : writer[w].pc = "idle"

\* PrepareObservation, for a new subject or for one that an earlier obligation names.
\* When the file is there although its creation failed, the watermark moves, the
\* caller gets the error and leaves the obligation behind.
Prepare(w) ==
  /\ writer[w].pc = "idle" /\ high < MaxSeq
  /\ w \in Hiding => Visible
  /\ ledger' = [ledger EXCEPT ![high + 1] = "prepared"]
  /\ \E x \in {high + 1} \cup {subject[t] : t \in 1 .. high} :
       subject' = [subject EXCEPT ![high + 1] = x]
  /\ high' = high + 1
  /\ \/ writer' = [writer EXCEPT ![w] = [pc |-> "write", seq |-> high + 1, to |-> "none"]]
        /\ UNCHANGED faults
     \/ Fault /\ UNCHANGED writer
  /\ UNCHANGED <<applied, retries, wake, journal, run, loop, client, adopted, crashes>>

Finishing(w, to) == writer' = [writer EXCEPT ![w].pc = "finish", ![w].to = to]

\* The writer's own write: done, refused, or failed with the change visible.  In
\* the last case a hiding writer reads it back and commits; the others leave the
\* obligation prepared, as they do for a range of output that is only partly there.
Write(w) ==
  /\ writer[w].pc = "write"
  /\ \/ applied' = applied \cup {writer[w].seq} /\ Finishing(w, "committed") /\ UNCHANGED faults
     \/ UNCHANGED applied /\ Finishing(w, "aborted") /\ UNCHANGED faults
     \/ /\ Fault /\ w \notin Hiding
        /\ applied' \in {applied, applied \cup {writer[w].seq}}
        /\ writer' = [writer EXCEPT ![w] = Idle]
  /\ UNCHANGED <<ledger, subject, high, retries, wake, journal, run, loop, client, adopted, crashes>>

\* Mutant of Finish: the finished transition wakes nobody.
FinishSilently(w) ==
  LET s == writer[w].seq
  IN /\ writer[w].pc = "finish"
     /\ \/ /\ ledger' = [ledger EXCEPT ![s] = writer[w].to]
           /\ UNCHANGED <<wake, retries, faults>>
        \/ /\ Fault
           /\ ledger' \in {ledger, [ledger EXCEPT ![s] = writer[w].to]}
           /\ retries' = [retries EXCEPT ![s] = writer[w].to]
           /\ wake' = TRUE
     /\ writer' = [writer EXCEPT ![w] = Idle]
     /\ UNCHANGED <<subject, high, applied, journal, run, loop, client, adopted, crashes>>

\* CommitObservationSequence and AbortObservationSequence: a failed transition is
\* queued, whether or not the ledger shows it.
Finish(w) ==
  LET s == writer[w].seq
  IN /\ writer[w].pc = "finish"
     /\ \/ /\ ledger' = [ledger EXCEPT ![s] = writer[w].to]
           /\ wake' = TRUE /\ UNCHANGED <<retries, faults>>
        \/ /\ Fault
           /\ ledger' \in {ledger, [ledger EXCEPT ![s] = writer[w].to]}
           /\ retries' = [retries EXCEPT ![s] = writer[w].to]
           /\ wake' = TRUE
     /\ writer' = [writer EXCEPT ![w] = Idle]
     /\ UNCHANGED <<subject, high, applied, journal, run, loop, client, adopted, crashes>>
-----------------------------------------------------------------------------
(* Materialize, called by the loop and by every inspection.  The two calls *)
(* exclude each other; nothing excludes retention and the writers.         *)

NextSeq == run.mat + 1

Begin(who) ==
  /\ run.pc = "idle"
  /\ run' = [NoRun EXCEPT !.who = who, !.pc = "high", !.mat = projection.mat,
                          !.comp = projection.comp]

\* What the caller does with the answer: the loop waits for a wakeup, for a timer
\* after an error, and for its timer alone while transitions are queued; the client
\* goes on only from a projection without gap.
Answer(ok, mat, hw) ==
  /\ run' = NoRun
  /\ IF run.who = "loop"
     THEN /\ loop' = IF loop = "repeating" THEN "timer" ELSE IF ok THEN "waiting" ELSE "error"
          /\ UNCHANGED client
     ELSE /\ client' = [client EXCEPT !.call =
               CASE ~ok \/ mat < hw -> NoCall
                 [] client.cursor < run.comp -> [NoCall EXCEPT !.pc = "cut"]
                 [] client.cursor > hw -> NoCall
                 [] OTHER -> [pc |-> "list", through |-> mat, comp |-> run.comp]]
          /\ UNCHANGED loop

\* ObservationHighWatermark, then the batch above the mark.
ReadHigh ==
  /\ run.pc = "high" /\ Visible
  /\ \/ run.mat > high /\ Answer(FALSE, 0, 0)
     \/ run.mat = high /\ Answer(TRUE, run.mat, high)
     \/ /\ run.mat < high
        /\ run' = [run EXCEPT !.pc = "put", !.high = high, !.batch =
                       [s \in Seqs |-> IF s > run.mat THEN ledger[s] ELSE "none"]]
        /\ UNCHANGED <<loop, client>>
  /\ UNCHANGED <<store, writing, journal, history>>

\* The next obligation of the batch.
Put ==
  LET s == NextSeq
  IN /\ run.pc = "put"
     /\ \/ /\ s > run.high
           /\ run' = [run EXCEPT !.pc = "high"]
           /\ UNCHANGED <<events, loop, client>>
        \/ /\ s <= run.high /\ run.batch[s] \in {"none", "collected"}
           /\ Answer(FALSE, 0, 0) /\ UNCHANGED events
        \/ /\ s <= run.high /\ run.batch[s] = "prepared"
           /\ Answer(TRUE, run.mat, run.high) /\ UNCHANGED events
        \/ /\ s <= run.high /\ run.batch[s] \in Terminal
           /\ events' = IF run.batch[s] = "committed" THEN events \cup {s} ELSE events
           /\ run' = [run EXCEPT !.pc = "save"]
           /\ UNCHANGED <<loop, client>>
     /\ UNCHANGED <<store, writing, projection, history>>

\* SaveEventProjectionState with the compaction mark read at the start, which
\* CompactEvents may have raised since.
Save ==
  /\ run.pc = "save"
  /\ \/ /\ run.comp < projection.comp
        /\ Answer(FALSE, 0, 0) /\ UNCHANGED projection
     \/ /\ run.comp = projection.comp
        /\ projection' = [projection EXCEPT !.mat = NextSeq]
        /\ run' = [run EXCEPT !.mat = NextSeq, !.pc = "put"]
        /\ UNCHANGED <<loop, client>>
  /\ UNCHANGED <<store, writing, events, history>>

\* RetryObservationTransitions; a collected obligation cannot be read any more.
LoopRetries ==
  LET queued == {s \in Seqs : retries[s] # "none"}
      able   == {s \in queued : ledger[s] # "collected"}
  IN /\ loop = "retry"
     /\ \E done \in {able, {}} :
          /\ IF done = able THEN UNCHANGED faults ELSE Fault
          /\ ledger' = [s \in Seqs |-> IF s \in done THEN retries[s] ELSE ledger[s]]
          /\ retries' = [s \in Seqs |-> IF s \in done THEN "none" ELSE retries[s]]
          /\ wake' = (wake \/ done # {})
          /\ loop' = IF done = queued THEN "material" ELSE "again"
     /\ UNCHANGED <<subject, high, applied, writer, journal, run, client, adopted, crashes>>

\* With transitions still queued the loop materializes and waits for its timer.
LoopMaterializes ==
  /\ Begin("loop")
  /\ \/ loop = "material" /\ loop' = "running"
     \/ loop = "again" /\ loop' = "repeating"
  /\ UNCHANGED <<store, writing, journal, client, history>>

LoopWakes ==
  /\ \/ loop = "waiting" /\ wake /\ wake' = FALSE
     \/ loop \in {"error", "timer"} /\ UNCHANGED wake
  /\ loop' = "retry"
  /\ UNCHANGED <<store, writer, retries, journal, run, client, history>>
-----------------------------------------------------------------------------
(* Retention. *)

\* CompactEvents drops the oldest events: the mark is saved first, then the files
\* are removed in order, and a failure or a crash leaves the rest.
CompactEvents ==
  /\ \E last \in events, kept \in SUBSET events :
       /\ projection.comp < last /\ last <= projection.mat
       /\ \A e \in kept : e <= last
       /\ \A e \in events \ kept : e <= last => \A k \in kept : e < k
       /\ projection' = [projection EXCEPT !.comp = last]
       /\ events' = {e \in events : e > last \/ e \in kept}
       /\ kept # {} => Fault
       /\ kept = {} => UNCHANGED faults
  /\ UNCHANGED <<store, writing, run, loop, client, adopted, crashes>>

Surviving == {s \in Seqs : ledger[s] \notin {"none", "collected"}}

\* Mutant of Collectible: the newest obligation is not pinned.
CollectibleNewest(through) ==
  {s \in Surviving : s <= through /\ ledger[s] # "prepared"}

\* The obligations that one pass may remove, up to a mark.
Collectible(through) ==
  {s \in Surviving : s <= through /\ ledger[s] # "prepared" /\ s # Max(Surviving)}

\* CollectMaterializedObligations up to the mark it has read, or less: the mark may
\* be out of date and the pass is bounded.
CollectObligations ==
  /\ \E through \in 1 .. projection.mat :
       /\ Collectible(through) # {}
       /\ ledger' = [s \in Seqs |-> IF s \in Collectible(through) THEN "collected" ELSE ledger[s]]
  /\ UNCHANGED <<subject, high, applied, writing, journal, run, loop, client, history>>
-----------------------------------------------------------------------------
(* The client of Inspect. *)

Ask ==
  /\ client.call.pc = "idle"
  /\ Begin("client")
  /\ client' = [client EXCEPT !.call.pc = "asked"]
  /\ UNCHANGED <<store, writing, journal, loop, history>>

First(S, n) == {e \in S : Cardinality({d \in S : d < e}) < n}

\* What was compacted after the call had read the compaction mark.
Dropped == {s \in Seqs : client.call.comp < s /\ s <= projection.comp}

\* Mutant of ListDelta: the cursor passes what the limits have cut off.
ListDeltaTooFar ==
  LET through == client.call.through
      found   == {e \in events : client.cursor < e /\ e <= through}
      given   == First(First(found, ScanLimit) \cap Mine, MaxEvents)
  IN /\ client.call.pc = "list"
     /\ client' = [client EXCEPT !.call = NoCall, !.cursor = through, !.known = @ \cup given,
                                 !.missed = @ \cup Dropped]
     /\ UNCHANGED <<store, writing, journal, run, loop, history>>

\* inspectDelta.
ListDelta ==
  LET through == client.call.through
      found   == {e \in events : client.cursor < e /\ e <= through}
      scanned == First(found, ScanLimit)
      given   == First(scanned \cap Mine, MaxEvents)
      cut     == IF Cardinality(given) = MaxEvents THEN Max(given)
                 ELSE IF scanned # found THEN Max(scanned) ELSE through
  IN /\ client.call.pc = "list"
     /\ client' = [client EXCEPT !.call = NoCall, !.cursor = cut, !.known = @ \cup given,
                                 !.missed = @ \cup Dropped]
     /\ UNCHANGED <<store, writing, journal, run, loop, history>>

\* snapshotRecovery: CaptureSnapshot reads the cut, then the facts.
SnapshotCut ==
  /\ client.call.pc = "cut" /\ Visible
  /\ client' = [client EXCEPT !.call = [NoCall EXCEPT !.pc = "facts", !.through = high]]
  /\ UNCHANGED <<store, writing, journal, run, loop, history>>

\* snapshotFacts: the session of an operation, its state and its outcome, or the
\* operations of an activity, as they are now.  Of an obligation before the cut that
\* is still prepared they tell nothing.
SnapshotFacts ==
  LET through == client.call.through
  IN /\ client.call.pc = "facts"
     /\ client' = [client EXCEPT !.call = NoCall, !.cursor = through, !.resumed = through,
                                 !.known = @ \cup (applied \cap Shown),
                                 !.missed = @ \cup {s \in 1 .. through : ledger[s] = "prepared"}]
     /\ UNCHANGED <<store, writing, journal, run, loop, history>>

\* There is no snapshot of a workspace or a repository, nor of a target whose records
\* cannot be read: the call ends with an error and the cursor stays.
SnapshotFails ==
  /\ client.call.pc = "facts"
  /\ client' = [client EXCEPT !.call = NoCall]
  /\ UNCHANGED <<store, writing, journal, run, loop, history>>
-----------------------------------------------------------------------------
(* The daemon dies and starts again. *)

\* Mutant of Reconciled: startup commits what it finds prepared.
ReconciledBlindly(s) ==
  IF ledger[s] # "prepared" THEN ledger[s]
  ELSE "committed"

\* observationSubjectPresent: the subject is in the store, whichever number it was
\* written under.
Present(s) == \E t \in applied : subject[t] = subject[s]

\* reconcilePreparedExecutionObservations.
Reconciled(s) ==
  IF ledger[s] # "prepared" THEN ledger[s]
  ELSE IF Present(s) THEN "committed" ELSE "aborted"

\* initObservationStore takes the watermark from the highest file; the queue of
\* transitions, the locks and the calls under way are gone.
Restart ==
  /\ crashes < MaxCrashes /\ crashes' = crashes + 1
  /\ high' = Max(Surviving \cup {0})
  /\ ledger' = [s \in Seqs |-> Reconciled(s)]
  /\ writer' = [w \in Writers |-> Idle]
  /\ retries' = [s \in Seqs |-> "none"] /\ wake' = FALSE
  /\ run' = NoRun /\ loop' = "retry"
  /\ client' = [client EXCEPT !.call = NoCall]
  /\ adopted' = adopted \cup {s \in Seqs : ledger[s] = "prepared"}
  /\ UNCHANGED <<subject, applied, journal, faults>>
-----------------------------------------------------------------------------
Materialize == ReadHigh \/ Put \/ Save
Loop == LoopRetries \/ LoopMaterializes \/ LoopWakes
Retention == CompactEvents \/ CollectObligations
Inspect == Ask \/ ListDelta \/ SnapshotCut \/ SnapshotFacts \/ SnapshotFails

Next ==
  \/ \E w \in Writers : Prepare(w) \/ Write(w) \/ Finish(w)
  \/ Materialize
  \/ Loop
  \/ Retention
  \/ Inspect
  \/ Restart

Spec == Init /\ [][Next]_vars

\* Every writer ends its section and the loop of the daemon keeps running; no
\* client has to ask and neither retention pass has to run.  Go's mutex serves a
\* waiter that starves, so the loop gets the materializer's lock from a client that
\* keeps asking.
FairSpec ==
  /\ Spec
  /\ \A w \in Writers : WF_vars(Write(w)) /\ WF_vars(Finish(w))
  /\ WF_vars(Materialize) /\ WF_vars(Loop) /\ SF_vars(LoopMaterializes)
-----------------------------------------------------------------------------
(* What the log promises. *)

\* What a committed obligation and an event say: their change was made, or the
\* subject of an obligation that its writer had left was found at a startup.
Vouched(s) == s \in applied \/ (s \in adopted /\ Present(s))

\* A committed obligation and an event stand for a change that was made under their
\* number, or, when a startup had to decide, for a subject that is in the store; an
\* aborted one never stands for a change that was made, whatever failed and however
\* often the daemon died in between: Finish, LoopRetries, Reconciled and Put agree.
LedgerIsTrue ==
  /\ \A s \in Seqs : ledger[s] = "committed" => Vouched(s)
  /\ \A s \in Seqs : ledger[s] = "aborted" => s \notin applied
  /\ \A s \in events : Vouched(s)

\* The materialized mark never passes a change that has no event, unless retention
\* has dropped the event and says so with the compaction mark.
ProjectionIsComplete ==
  \A s \in applied : s <= projection.mat => s \in events \/ s <= projection.comp

\* The materializer can always go on: the watermark, rebuilt from the surviving
\* files at every start, is not below the projection, and no obligation above the
\* projection is missing.
ProjectionCanGoOn ==
  /\ projection.mat <= high
  /\ \A s \in Seqs : projection.mat < s /\ s <= high => s \in Surviving

\* The projection has no hole and no dead end, through crashes between the event
\* and its mark and through both retention passes (Put, Save, Collectible).
ProjectionIsSound == ProjectionIsComplete /\ ProjectionCanGoOn

\* A change behind the cursor of a client that keeps asking was given to it as an
\* event or in a snapshot.  There are three exceptions: what no snapshot tells, when
\* it was sent one; what was compacted between the reading of the mark and the
\* listing of one call; and what was still being written when the facts of a snapshot
\* were read.  Compaction at any other time, the scan limit, the size of an answer,
\* failed snapshots and crashes cost it nothing (Answer, ListDelta, SnapshotCut,
\* SnapshotFacts).
ClientMissesNothing ==
  \A s \in applied \cap Mine :
    s <= client.cursor =>
      \/ s \in client.known \/ s \in client.missed
      \/ s <= client.resumed /\ s \notin Shown

\* A prepared obligation that nobody in this incarnation will finish.
Abandoned(s) ==
  ledger[s] = "prepared" /\ retries[s] = "none" /\ \A w \in Writers : writer[w].seq # s

\* A committed change reaches the projection, without any client asking for it,
\* unless an abandoned obligation before it blocks the way.
CommittedIsProjected ==
  \A s \in Seqs :
    ledger[s] = "committed" ~> s <= projection.mat \/ \E t \in 1 .. s : Abandoned(t)

\* What the documents say of a delta: it is complete from the cursor on.
DeltaIsComplete ==
  \A s \in applied \cap Mine :
    s <= client.cursor => s \in client.known \/ s <= client.resumed

\* What the documents say of a snapshot: it holds the facts at its cut.
SnapshotIsAtItsCut ==
  \A s \in applied \cap Shown : s <= client.resumed => s \in client.known
=============================================================================
