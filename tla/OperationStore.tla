--------------------------- MODULE OperationStore ---------------------------
(***************************************************************************)
(* The durable authority of the ShellBeam daemon: the operation records,   *)
(* session metadata and terminal receipts of internal/adapter/store,       *)
(* together with the part of internal/app/daemon that writes them.         *)
(*                                                                         *)
(* A client names a command by an operation id.  Start reserves the id on  *)
(* disk, writes the metadata of a fresh session, spawns the child and,     *)
(* when the child is reaped, publishes a terminal receipt.  Every write is *)
(* temp file + rename/link + directory sync and may end in three ways: no  *)
(* durable change, an ambiguous change (visible, not synced) or a durable  *)
(* change.  The daemon may crash, the machine may lose power, clients may  *)
(* retry a Start at any time, and a retention sweep removes old history.   *)
(*                                                                         *)
(* Each file has a visible value and a value on stable storage.  A daemon  *)
(* crash keeps what is visible; a power loss keeps, file by file, either.  *)
(***************************************************************************)
EXTENDS Integers, FiniteSets

CONSTANTS
  Ops,          \* operation ids the clients use
  Sessions,     \* session ids: every reservation draws a fresh one (a ULID)
  None,         \* absent record, file or owner
  MaxSessions,  \* limits.MaxSessions, the capacity of the daemon
  ExitStates,   \* terminal states waitLoop can classify an exit as
  Retention,    \* TRUE when terminal_retention_hours > 0
  MaxFaults,    \* bound: failed I/O steps in one behaviour
  MaxCrashes    \* bound: daemon crashes and power losses in one behaviour

ASSUME BoundsAssumption ==
  /\ MaxSessions \in Nat \ {0}
  /\ MaxFaults \in Nat
  /\ MaxCrashes \in Nat
  /\ Retention \in BOOLEAN

ASSUME SessionsAssumption ==
  /\ IsFiniteSet(Sessions)
  /\ None \notin Sessions
  /\ None \notin Ops

Terminal == {"completed", "failed", "timed_out", "killed", "abandoned"}
States == {"starting", "running"} \cup Terminal

ASSUME ExitAssumption ==
  /\ ExitStates \subseteq Terminal \ {"abandoned"}
  /\ None \notin States \cup {"empty"}

VARIABLES
  opRecord,   \* operations/<id>.json, visible: the session it binds
  opSynced,   \* the same file on stable storage
  metadata,   \* sessions/<id>/metadata.json: a state; "empty" is a directory
              \* without the file, None no directory at all
  metaSynced,
  receipt,    \* sessions/<id>/receipt.json: the terminal state it proves
  rcptSynced,
  opOf,       \* the operation a session id was drawn for
  daemon,     \* "down", "recovering" (AbandonUnresolved) or "ready"
  active,     \* r.activeSessions, the admission index
  admit,      \* the ReserveOperation call that holds r.admit
  owner,      \* the runtime that owns a session in this incarnation
  pubAt,      \* PublishTerminal call for a session: at its receipt or metadata
  pubRec,     \* the receipt that call publishes
  gc,         \* collectSession call of the retention sweep
  spawns,     \* history: children started for a session
  retired,    \* history: sessions whose operation record a sweep removed
  withdrawn,  \* history: sessions whose directory a sweep removed
  doubted,    \* history: sessions whose receipt and terminal snapshot both failed
              \* to sync
  shown,      \* history: terminal receipt a client was last shown
  faults, crashes

opFiles   == <<opRecord, opSynced>>
sessFiles == <<metadata, metaSynced, receipt, rcptSynced>>
memory    == <<daemon, active, admit, owner, pubAt, pubRec, gc>>
history   == <<opOf, spawns, retired, withdrawn, doubted, shown>>
bounds    == <<faults, crashes>>
vars      == <<opFiles, sessFiles, memory, history, bounds>>

Owners == {"none", "admitted", "spawned", "running", "settling", "failing"}
Free   == [at |-> "free", session |-> None, created |-> FALSE]
GcIdle == [at |-> "idle", session |-> None]

TypeOK ==
  /\ opRecord \in [Ops -> Sessions \cup {None}]
  /\ opSynced \in [Ops -> Sessions \cup {None}]
  /\ metadata \in [Sessions -> States \cup {"empty", None}]
  /\ metaSynced \in [Sessions -> States \cup {"empty", None}]
  /\ receipt \in [Sessions -> Terminal \cup {None}]
  /\ rcptSynced \in [Sessions -> Terminal \cup {None}]
  /\ opOf \in [Sessions -> Ops \cup {None}]
  /\ daemon \in {"down", "recovering", "ready"}
  /\ active \subseteq Sessions
  /\ admit \in [at : {"free", "metadata", "compensate"},
                session : Sessions \cup {None}, created : BOOLEAN]
  /\ owner \in [Sessions -> Owners]
  /\ pubAt \in [Sessions -> {"idle", "receipt", "metadata"}]
  /\ pubRec \in [Sessions -> Terminal \cup {None}]
  /\ gc \in [at : {"idle", "record", "rename"}, session : Sessions \cup {None}]
  /\ spawns \in [Sessions -> Nat]
  /\ retired \subseteq Sessions /\ withdrawn \subseteq Sessions /\ doubted \subseteq Sessions
  /\ shown \in [Sessions -> Terminal \cup {None}]
  /\ faults \in Nat
  /\ crashes \in Nat

Init ==
  /\ opRecord = [o \in Ops |-> None]
  /\ opSynced = [o \in Ops |-> None]
  /\ metadata = [s \in Sessions |-> None]
  /\ metaSynced = [s \in Sessions |-> None]
  /\ receipt = [s \in Sessions |-> None]
  /\ rcptSynced = [s \in Sessions |-> None]
  /\ opOf = [s \in Sessions |-> None]
  /\ daemon = "ready"
  /\ active = {}
  /\ admit = Free
  /\ owner = [s \in Sessions |-> "none"]
  /\ pubAt = [s \in Sessions |-> "idle"]
  /\ pubRec = [s \in Sessions |-> None]
  /\ gc = GcIdle
  /\ spawns = [s \in Sessions |-> 0]
  /\ retired = {} /\ withdrawn = {} /\ doubted = {}
  /\ shown = [s \in Sessions |-> None]
  /\ faults = 0
  /\ crashes = 0

-----------------------------------------------------------------------------
(* Durable writes: atomicWriter.Create and atomicWriter.Replace.           *)

\* How a write ends: NoDurableChange, AmbiguousChange or DurableChange.
Results  == {"none", "ambiguous", "durable"}
Failures == {"none", "ambiguous"}

\* An I/O failure spends one unit of the fault bound.
Spend(r) ==
  /\ r = "durable" \/ faults < MaxFaults
  /\ faults' = IF r = "durable" THEN faults ELSE faults + 1

\* Mutant of WriteRecord: the parent directory is not synced.
WriteRecordNoSync(o, s, r) ==
  /\ opRecord' = IF r = "none" THEN opRecord ELSE [opRecord EXCEPT ![o] = s]
  /\ opSynced' = opSynced

\* atomicWriter.Create of an operation record.  A synced directory makes
\* every record in it durable.
WriteRecord(o, s, r) ==
  /\ opRecord' = IF r = "none" THEN opRecord ELSE [opRecord EXCEPT ![o] = s]
  /\ opSynced' = IF r = "durable" THEN opRecord' ELSE opSynced

\* Mutant of SyncSession: syncParent is not called.
SyncSessionSkipped(s, r) == UNCHANGED <<metaSynced, rcptSynced>>

\* The receipt and the metadata of a session share a directory, so a
\* successful sync makes both durable.
SyncSession(s, r) ==
  /\ metaSynced' = IF r = "durable" THEN [metaSynced EXCEPT ![s] = metadata'[s]]
                                    ELSE metaSynced
  /\ rcptSynced' = IF r = "durable" THEN [rcptSynced EXCEPT ![s] = receipt'[s]]
                                    ELSE rcptSynced

\* atomicWriter.Create of a receipt.
WriteReceipt(s, v, r) ==
  /\ receipt' = IF r = "none" THEN receipt ELSE [receipt EXCEPT ![s] = v]
  /\ metadata' = metadata
  /\ SyncSession(s, r)

\* writeSessionMetadata replaces the file ...
WriteMetadata(s, v, r) ==
  /\ metadata' = IF r = "none" THEN metadata ELSE [metadata EXCEPT ![s] = v]
  /\ receipt' = receipt
  /\ SyncSession(s, r)

\* Mutant of Marked: the slot is taken when the command runs, not when it is
\* admitted.
MarkedWhenRunning(s, v, r) ==
  IF r = "none" THEN active
  ELSE IF v = "running" THEN active \cup {s} ELSE active \ {s}

\* ... and then, unless nothing changed, markSessionActive updates the index.
Marked(s, v, r) ==
  IF r = "none" THEN active
  ELSE IF v \in Terminal THEN active \ {s} ELSE active \cup {s}

\* Everything the daemon process holds in memory is gone.
Halt ==
  /\ daemon' = "down"
  /\ active' = {}
  /\ admit' = Free
  /\ owner' = [s \in Sessions |-> "none"]
  /\ pubAt' = [s \in Sessions |-> "idle"]
  /\ pubRec' = [s \in Sessions |-> None]
  /\ gc' = GcIdle

-----------------------------------------------------------------------------
(* Admission: ReserveOperation, under the per-operation lock and r.admit.  *)

\* Mutant of CreateOperation: an ambiguous record is taken for a durable one.
CreateOperationOnAmbiguous(o, s, r) ==
  /\ daemon = "ready" /\ admit = Free
  /\ opRecord[o] = None /\ opOf[s] = None
  /\ Cardinality(active) < MaxSessions
  /\ Spend(r)
  /\ WriteRecord(o, s, r)
  /\ opOf' = IF r = "none" THEN opOf ELSE [opOf EXCEPT ![s] = o]
  /\ admit' = IF r # "none"
              THEN [at |-> "metadata", session |-> s, created |-> TRUE]
              ELSE Free
  /\ UNCHANGED <<sessFiles, daemon, active, owner, pubAt, pubRec, gc, spawns,
                 retired, withdrawn, doubted, shown, crashes>>

\* No record of the id: check capacity, draw a session id and create the
\* record.  Only a synced record lets the call go on; an ambiguous one is
\* visible to later retries but is reported as an error.
CreateOperation(o, s, r) ==
  /\ daemon = "ready" /\ admit = Free
  /\ opRecord[o] = None /\ opOf[s] = None
  /\ Cardinality(active) < MaxSessions
  /\ Spend(r)
  /\ WriteRecord(o, s, r)
  /\ opOf' = IF r = "none" THEN opOf ELSE [opOf EXCEPT ![s] = o]
  /\ admit' = IF r = "durable"
              THEN [at |-> "metadata", session |-> s, created |-> TRUE]
              ELSE Free
  /\ UNCHANGED <<sessFiles, daemon, active, owner, pubAt, pubRec, gc, spawns,
                 retired, withdrawn, doubted, shown, crashes>>

\* The id is reserved: a matching retry is bound to the recorded session and
\* never spawns, but replayReservation ends in ensureSessionMetadata.
ReplayOperation(o) ==
  /\ daemon = "ready" /\ admit = Free
  /\ opRecord[o] # None
  /\ admit' = [at |-> "metadata", session |-> opRecord[o], created |-> FALSE]
  /\ UNCHANGED <<opFiles, sessFiles, daemon, active, owner, pubAt, pubRec, gc,
                 history, bounds>>

\* ensureSessionMetadata finds the file.
MetadataPresent ==
  /\ admit.at = "metadata"
  /\ metadata[admit.session] \in States
  /\ admit' = Free
  /\ owner' = IF admit.created THEN [owner EXCEPT ![admit.session] = "admitted"]
                               ELSE owner
  /\ UNCHANGED <<opFiles, sessFiles, daemon, active, pubAt, pubRec, gc, history,
                 bounds>>

\* The calls of ensureSessionMetadata that find no file: of an admission, and of
\* the repair at startup.
Ensuring(s) ==
  \/ admit.at = "metadata" /\ admit.session = s
  \/ daemon = "recovering" /\ \E o \in Ops : opRecord[o] = s

\* ensurePrivateDir: the directory of the session is there before its metadata.
EnsurePrivateDir(s) ==
  /\ Ensuring(s) /\ metadata[s] = None
  /\ metadata' = [metadata EXCEPT ![s] = "empty"]
  /\ UNCHANGED <<opFiles, metaSynced, receipt, rcptSynced, memory, history, bounds>>

\* ensureSessionMetadata writes a Starting snapshot.  Success hands a created
\* session to Start.
MetadataWritten ==
  /\ admit.at = "metadata"
  /\ metadata[admit.session] = "empty"
  /\ WriteMetadata(admit.session, "starting", "durable")
  /\ active' = Marked(admit.session, "starting", "durable")
  /\ owner' = IF admit.created THEN [owner EXCEPT ![admit.session] = "admitted"]
                               ELSE owner
  /\ admit' = Free
  /\ UNCHANGED <<opFiles, daemon, pubAt, pubRec, gc, history, bounds>>

\* Mkdir or the write fails with no durable change.  The directory remains, empty.
MetadataFails ==
  /\ admit.at = "metadata"
  /\ metadata[admit.session] \notin States
  /\ Spend("none")
  /\ admit' = Free
  /\ UNCHANGED <<opFiles, sessFiles, daemon, active, owner, pubAt, pubRec, gc,
                 history, crashes>>

\* The file is in place but its directory sync failed.  A created reservation
\* is closed by finalizeAmbiguousAdmission, still under r.admit, before the
\* error is returned; a replay just returns the error.
MetadataAmbiguous ==
  /\ admit.at = "metadata"
  /\ metadata[admit.session] = "empty"
  /\ Spend("ambiguous")
  /\ WriteMetadata(admit.session, "starting", "ambiguous")
  /\ active' = Marked(admit.session, "starting", "ambiguous")
  /\ IF admit.created
     THEN /\ admit' = [at |-> "compensate", session |-> admit.session, created |-> TRUE]
          /\ pubAt' = [pubAt EXCEPT ![admit.session] = "receipt"]
          /\ pubRec' = [pubRec EXCEPT ![admit.session] = "abandoned"]
     ELSE /\ admit' = Free
          /\ UNCHANGED <<pubAt, pubRec>>
  /\ UNCHANGED <<opFiles, daemon, owner, gc, history, crashes>>

-----------------------------------------------------------------------------
(* The runtime owner: spawnPreparedStart, waitLoop, publishUntilDurable.   *)

\* Mutant of Settle: the receipt takes the state of the stored snapshot.
SettleStoredState(s, as, v) ==
  /\ owner' = [owner EXCEPT ![s] = as]
  /\ pubAt' = [pubAt EXCEPT ![s] = "receipt"]
  /\ pubRec' = [pubRec EXCEPT ![s] = metadata[s]]

\* Begin publishing a terminal receipt for s.
Settle(s, as, v) ==
  /\ owner' = [owner EXCEPT ![s] = as]
  /\ pubAt' = [pubAt EXCEPT ![s] = "receipt"]
  /\ pubRec' = [pubRec EXCEPT ![s] = v]

\* prepareProcessStartedObservation fails: the session is closed before it is
\* entered in the live map.
ObservationFails(s) ==
  /\ owner[s] = "admitted"
  /\ Spend("none")
  /\ Settle(s, "failing", "failed")
  /\ UNCHANGED <<opFiles, sessFiles, daemon, active, admit, gc, history, crashes>>

\* owner.Start returns an error.
SpawnFails(s) ==
  /\ owner[s] = "admitted"
  /\ Settle(s, "settling", "failed")
  /\ UNCHANGED <<opFiles, sessFiles, daemon, active, admit, gc, history, bounds>>

\* owner.Start returns a handle: the command has begun to have effects.
Spawn(s) ==
  /\ owner[s] = "admitted"
  /\ owner' = [owner EXCEPT ![s] = "spawned"]
  /\ spawns' = [spawns EXCEPT ![s] = @ + 1]
  /\ UNCHANGED <<opFiles, sessFiles, daemon, active, admit, pubAt, pubRec, gc,
                 opOf, retired, withdrawn, doubted, shown, bounds>>

\* Mutant of AdvanceSession: a failed write is taken for a failed start, which
\* is tried again.
AdvanceSessionRestarts(s, r) ==
  /\ owner[s] = "spawned"
  /\ Spend(r)
  /\ WriteMetadata(s, "running", r)
  /\ active' = Marked(s, "running", r)
  /\ owner' = [owner EXCEPT ![s] = IF r = "durable" THEN "running" ELSE "admitted"]
  /\ UNCHANGED <<opFiles, daemon, admit, pubAt, pubRec, gc, history, crashes>>

\* AdvanceSession to Running.  A failure signals the child and goes on; the
\* wait loop is started only after this write.
AdvanceSession(s, r) ==
  /\ owner[s] = "spawned"
  /\ Spend(r)
  /\ WriteMetadata(s, "running", r)
  /\ active' = Marked(s, "running", r)
  /\ owner' = [owner EXCEPT ![s] = "running"]
  /\ UNCHANGED <<opFiles, daemon, admit, pubAt, pubRec, gc, history, crashes>>

\* waitLoop: the child is reaped, its output drained and its exit classified.
ProcessExits(s, v) ==
  /\ owner[s] = "running"
  /\ Settle(s, "settling", v)
  /\ UNCHANGED <<opFiles, sessFiles, daemon, active, admit, gc, history, bounds>>

-----------------------------------------------------------------------------
(* PublishTerminal, under terminalMu, from whichever caller: the runtime   *)
(* owner, finalizeAmbiguousAdmission or AbandonUnresolved.                 *)

TerminalMuFree == \A t \in Sessions : pubAt[t] # "metadata"

\* The receipt is already there and equal, or is created durably.
PublishReceipt(s) ==
  /\ pubAt[s] = "receipt" /\ TerminalMuFree
  /\ \/ /\ receipt[s] = pubRec[s]
        /\ UNCHANGED sessFiles
     \/ /\ receipt[s] = None /\ metadata[s] # None
        /\ WriteReceipt(s, pubRec[s], "durable")
  /\ pubAt' = [pubAt EXCEPT ![s] = "metadata"]
  /\ UNCHANGED <<opFiles, daemon, active, admit, owner, pubRec, gc, history, bounds>>

\* Mutant of RetryOrHalt: the publication is given up instead of retried.
GiveUpOrHalt(s, index) ==
  IF daemon = "recovering"
  THEN Halt
  ELSE /\ pubAt' = [pubAt EXCEPT ![s] = "idle"]
       /\ active' = index
       /\ UNCHANGED <<daemon, admit, owner, pubRec, gc>>

\* A failed call is retried by publishUntilDurable and by
\* finalizeAmbiguousAdmission; at startup it ends the daemon.
RetryOrHalt(s, index) ==
  IF daemon = "recovering"
  THEN Halt
  ELSE /\ pubAt' = [pubAt EXCEPT ![s] = "receipt"]
       /\ active' = index
       /\ UNCHANGED <<daemon, admit, owner, pubRec, gc>>

PublishReceiptFails(s, r) ==
  /\ pubAt[s] = "receipt" /\ TerminalMuFree
  /\ receipt[s] = None /\ metadata[s] # None
  /\ Spend(r)
  /\ WriteReceipt(s, pubRec[s], r)
  /\ RetryOrHalt(s, active)
  /\ UNCHANGED <<opFiles, history, crashes>>

\* The call returns success to its caller.
Published(s) ==
  /\ pubAt' = [pubAt EXCEPT ![s] = "idle"]
  /\ pubRec' = [pubRec EXCEPT ![s] = None]
  /\ owner' = [owner EXCEPT ![s] = "none"]
  /\ admit' = IF admit.at = "compensate" /\ admit.session = s THEN Free ELSE admit
  /\ UNCHANGED <<daemon, gc>>

\* repairTerminalMetadata: a snapshot that already matches is reported durable
\* without another sync; otherwise it is replaced.
PublishMetadata(s) ==
  /\ pubAt[s] = "metadata"
  /\ IF metadata[s] = pubRec[s]
     THEN UNCHANGED <<sessFiles, active>>
     ELSE /\ WriteMetadata(s, pubRec[s], "durable")
          /\ active' = Marked(s, pubRec[s], "durable")
  /\ Published(s)
  /\ UNCHANGED <<opFiles, history, bounds>>

PublishMetadataFails(s, r) ==
  /\ pubAt[s] = "metadata"
  /\ metadata[s] # pubRec[s]
  /\ Spend(r)
  /\ WriteMetadata(s, pubRec[s], r)
  /\ RetryOrHalt(s, Marked(s, pubRec[s], r))
  /\ doubted' = IF r = "ambiguous" /\ rcptSynced[s] # receipt[s]
                THEN doubted \cup {s} ELSE doubted
  /\ UNCHANGED <<opFiles, opOf, spawns, retired, withdrawn, shown, crashes>>

-----------------------------------------------------------------------------
(* Crashes, and the startup recovery of AbandonUnresolved.  The server     *)
(* refuses requests until MarkReady.                                       *)

\* The daemon process dies; the files stay as they are.
DaemonCrash ==
  /\ daemon # "down" /\ crashes < MaxCrashes
  /\ crashes' = crashes + 1
  /\ Halt
  /\ UNCHANGED <<opFiles, sessFiles, history, faults>>

\* The machine loses power: a file that was not synced may or may not survive.
PowerLoss ==
  /\ daemon # "down" /\ crashes < MaxCrashes
  /\ crashes' = crashes + 1
  /\ Halt
  /\ \E lostOps \in SUBSET {o \in Ops : opRecord[o] # opSynced[o]} :
       opRecord' = [o \in Ops |-> IF o \in lostOps THEN opSynced[o] ELSE opRecord[o]]
  /\ \E lostMeta \in SUBSET {s \in Sessions : metadata[s] # metaSynced[s]} :
       metadata' = [s \in Sessions |-> IF s \in lostMeta THEN metaSynced[s]
                                                         ELSE metadata[s]]
  /\ \E lostRcpt \in SUBSET {s \in Sessions : receipt[s] # rcptSynced[s]} :
       receipt' = [s \in Sessions |-> IF s \in lostRcpt THEN rcptSynced[s]
                                                        ELSE receipt[s]]
  /\ opSynced' = opRecord' /\ metaSynced' = metadata' /\ rcptSynced' = receipt'
  /\ UNCHANGED <<history, faults>>

Restart ==
  /\ daemon = "down"
  /\ daemon' = "recovering"
  /\ UNCHANGED <<opFiles, sessFiles, active, admit, owner, pubAt, pubRec, gc,
                 history, bounds>>

\* Mutant of Unrepaired: every session that is not terminal is repaired.
UnrepairedNonTerminal ==
  {o \in Ops : opRecord[o] # None /\ metadata[opRecord[o]] \notin Terminal}

\* repairCommittedOperations: records whose session has no metadata.
Unrepaired == {o \in Ops : opRecord[o] # None /\ metadata[opRecord[o]] \notin States}

RepairOperation(o, r) ==
  /\ daemon = "recovering" /\ o \in Unrepaired
  /\ r = "none" \/ metadata[opRecord[o]] = "empty"
  /\ Spend(r)
  /\ WriteMetadata(opRecord[o], "starting", r)
  /\ IF r = "durable"
     THEN /\ active' = Marked(opRecord[o], "starting", r)
          /\ UNCHANGED <<daemon, admit, owner, pubAt, pubRec, gc>>
     ELSE Halt
  /\ UNCHANGED <<opFiles, history, crashes>>

\* What AbandonUnresolved begins for session s: PublishTerminal at step `at'.
BeginAbandon(s, at, rec) ==
  /\ daemon = "recovering" /\ Unrepaired = {}
  /\ \A t \in Sessions : pubAt[t] = "idle"
  /\ pubAt' = [pubAt EXCEPT ![s] = at]
  /\ pubRec' = [pubRec EXCEPT ![s] = rec]
  /\ UNCHANGED <<opFiles, sessFiles, daemon, active, admit, owner, gc, history,
                 bounds>>

\* Mutant of AbandonSession: a receipt that survived is ignored.
AbandonIgnoringReceipt(s) ==
  /\ metadata[s] \in States \ Terminal
  /\ BeginAbandon(s, "receipt", "abandoned")

\* A session that is not terminal: republish the receipt it already has, or
\* publish Abandoned/Ambiguous.
AbandonSession(s) ==
  /\ metadata[s] \in States \ Terminal
  /\ BeginAbandon(s, "receipt", IF receipt[s] = None THEN "abandoned" ELSE receipt[s])

\* A session directory without readable metadata fails startup.
UnreadableSession(s) ==
  /\ daemon = "recovering" /\ Unrepaired = {}
  /\ \A t \in Sessions : pubAt[t] = "idle"
  /\ metadata[s] = "empty"
  /\ Halt
  /\ UNCHANGED <<opFiles, sessFiles, history, bounds>>

\* ReconcileAdmission rebuilds the index from the metadata, then MarkReady.
FinishRecovery ==
  /\ daemon = "recovering" /\ Unrepaired = {}
  /\ \A s \in Sessions : pubAt[s] = "idle" /\ metadata[s] \in Terminal \cup {None}
  /\ active' = {s \in Sessions : metadata[s] \in States \ Terminal}
  /\ daemon' = "ready"
  /\ UNCHANGED <<opFiles, sessFiles, admit, owner, pubAt, pubRec, gc, history,
                 bounds>>

-----------------------------------------------------------------------------
(* Clients reading results, and the retention sweep.                       *)

\* Sessions in Service.live: their state is served from memory and is not
\* terminal before publishUntilDurable has returned.
Live(s) == owner[s] \in {"spawned", "running", "settling"}

\* waitView of a session that is not live: terminal metadata and its receipt.
Poll(s) ==
  /\ daemon = "ready" /\ ~Live(s)
  /\ metadata[s] \in Terminal /\ receipt[s] # None
  /\ shown' = [shown EXCEPT ![s] = receipt[s]]
  /\ UNCHANGED <<opFiles, sessFiles, memory, opOf, spawns, retired, withdrawn, doubted,
                 bounds>>

\* collectSession finds a terminal session past the cutoff.  Its age is not
\* modelled, except that a publication still in progress is younger than the
\* retention window.
CollectSession(s) ==
  /\ Retention /\ daemon = "ready" /\ gc = GcIdle
  /\ metadata[s] \in Terminal /\ pubAt[s] = "idle"
  /\ gc' = [at |-> "record", session |-> s]
  /\ UNCHANGED <<opFiles, sessFiles, daemon, active, admit, owner, pubAt, pubRec,
                 history, bounds>>

\* The operation record goes first, found by the operation id in the snapshot;
\* os.Remove is not followed by a sync.
RemoveRecord ==
  LET o == opOf[gc.session] IN
  /\ gc.at = "record"
  /\ opRecord' = [opRecord EXCEPT ![o] = None]
  /\ retired' = retired \cup ({opRecord[o]} \ {None})
  /\ gc' = [at |-> "rename", session |-> gc.session]
  /\ UNCHANGED <<opSynced, sessFiles, daemon, active, admit, owner, pubAt, pubRec,
                 opOf, spawns, withdrawn, doubted, shown, bounds>>

\* Mutant of WithdrawSession: files are deleted one by one, receipt first, and
\* the sweep stops after it.
WithdrawReceiptOnly ==
  /\ gc.at = "rename"
  /\ receipt' = [receipt EXCEPT ![gc.session] = None]
  /\ rcptSynced' = [rcptSynced EXCEPT ![gc.session] = None]
  /\ gc' = GcIdle
  /\ UNCHANGED <<opFiles, metadata, metaSynced, daemon, active, admit, owner, pubAt,
                 pubRec, history, bounds>>

\* One rename withdraws the session directory, then it is deleted.
WithdrawSession ==
  /\ gc.at = "rename"
  /\ metadata' = [metadata EXCEPT ![gc.session] = None]
  /\ metaSynced' = [metaSynced EXCEPT ![gc.session] = None]
  /\ receipt' = [receipt EXCEPT ![gc.session] = None]
  /\ rcptSynced' = [rcptSynced EXCEPT ![gc.session] = None]
  /\ gc' = GcIdle
  /\ withdrawn' = withdrawn \cup {gc.session}
  /\ UNCHANGED <<opFiles, daemon, active, admit, owner, pubAt, pubRec, opOf, spawns,
                 retired, doubted, shown, bounds>>

\* The rename (or the removal of the output reference before it) fails.
WithdrawFails ==
  /\ gc.at = "rename"
  /\ Spend("none")
  /\ gc' = GcIdle
  /\ UNCHANGED <<opFiles, sessFiles, daemon, active, admit, owner, pubAt, pubRec,
                 history, crashes>>

-----------------------------------------------------------------------------
Admission ==
  \/ \E o \in Ops : \/ \E s \in Sessions, r \in Results : CreateOperation(o, s, r)
                    \/ ReplayOperation(o)
  \/ \E s \in Sessions : EnsurePrivateDir(s)
  \/ MetadataPresent \/ MetadataWritten \/ MetadataFails \/ MetadataAmbiguous

Runtime == \E s \in Sessions :
  \/ ObservationFails(s) \/ SpawnFails(s) \/ Spawn(s)
  \/ \E r \in Results : AdvanceSession(s, r)
  \/ \E v \in ExitStates : ProcessExits(s, v)

Publication == \E s \in Sessions :
  \/ PublishReceipt(s) \/ PublishMetadata(s)
  \/ \E r \in Failures : PublishReceiptFails(s, r) \/ PublishMetadataFails(s, r)

Recovery ==
  \/ DaemonCrash \/ PowerLoss \/ Restart \/ FinishRecovery
  \/ \E o \in Ops, r \in Results : RepairOperation(o, r)
  \/ \E s \in Sessions : AbandonSession(s) \/ UnreadableSession(s)

Sweep ==
  \/ \E s \in Sessions : CollectSession(s)
  \/ RemoveRecord \/ WithdrawSession \/ WithdrawFails

Next == Admission \/ Runtime \/ Publication \/ Recovery \/ Sweep
        \/ \E s \in Sessions : Poll(s)

Spec == Init /\ [][Next]_vars

-----------------------------------------------------------------------------
(* Properties.                                                             *)

\* A retried Start never runs a command a second time, whatever crashed or
\* failed to sync between the attempts: of all the sessions drawn for one
\* operation id, at most one ever had a child started for it, and that one
\* only once -- unless the retention sweep removed the record in between.
AtMostOneSpawn ==
  \A s, t \in Sessions :
    /\ spawns[s] <= 1
    /\ (spawns[s] = 1 /\ spawns[t] = 1 /\ opOf[s] = opOf[t]
        /\ s \notin retired /\ t \notin retired) => s = t

\* "Callers never turn sync uncertainty into permission to spawn": whenever a
\* runtime owns a session, the operation record that binds it is on stable
\* storage, so no crash can make a later retry look like a first Start.
SpawnOnDurableRecord ==
  \A s \in Sessions :
    (owner[s] # "none" /\ s \notin retired) => opSynced[opOf[s]] = s

\* MaxSessions bounds the commands in flight, although the index is checked
\* when the record is created, before the metadata that takes the slot is
\* written, and although retries can add sessions to the index later.
InFlight == {s \in Sessions : owner[s] \in {"admitted", "spawned", "running"}}
CommandsWithinCapacity == Cardinality(InFlight) <= MaxSessions

\* A publication never meets a different receipt: PublishTerminal would answer
\* terminal_conflict and publishUntilDurable would retry it for ever.
NoTerminalConflict ==
  \A s \in Sessions : pubAt[s] = "receipt" => receipt[s] \in {None, pubRec[s]}

\* Terminal metadata a client can read has its receipt behind it, after every
\* crash and restart as well (hydrateWaitViewReceipt relies on it), unless the
\* sync of the receipt and then that of the snapshot failed: PublishTerminal
\* finds both in place when it is retried and syncs neither again.
TerminalHasReceipt ==
  \A s \in Sessions \ doubted :
    (daemon = "ready" /\ metadata[s] \in Terminal) => receipt[s] = metadata[s]

\* A terminal receipt that was shown to a client is on stable storage until a
\* sweep removes it, so no power loss can turn the answer into another one, but
\* for a session whose receipt and terminal snapshot both failed to sync.
ShownReceiptDurable ==
  \A s \in Sessions \ (withdrawn \cup doubted) :
    shown[s] # None => rcptSynced[s] = shown[s]

\* "DurableChange" is claimed for what is durable: every receipt that a client was
\* shown is on stable storage.
AnswersAreDurable ==
  \A s \in Sessions \ withdrawn : shown[s] # None => rcptSynced[s] = shown[s]

\* While the daemon serves, a session in the admission index has a runtime or
\* an admission that will resolve it: no slot is held by a session that
\* nothing will ever finish.
NoOrphanSlot ==
  daemon = "ready" =>
    \A s \in active : owner[s] # "none" \/ admit.session = s

\* No operation id has two children running at the same time.
OneProcessPerOperation ==
  \A s, t \in Sessions :
    (owner[s] = "running" /\ owner[t] = "running" /\ opOf[s] = opOf[t]) => s = t

\* A retry never spawns again, retained history or not.
RetryNeverRespawns ==
  \A s, t \in Sessions : (spawns[s] = 1 /\ spawns[t] = 1 /\ opOf[s] = opOf[t]) => s = t

-----------------------------------------------------------------------------
(* Liveness.  A store that keeps failing keeps everything waiting, so the  *)
(* fault bound stands for publishUntilDurable's premise that it recovers.  *)
(* Each goroutine keeps running (WF); terminalMu and the admit mutex are   *)
(* sync.Mutex, whose starvation mode serves every waiter (SF).  Clients,   *)
(* children and the sweep promise nothing.                                 *)
Fairness ==
  /\ WF_vars(Restart) /\ WF_vars(FinishRecovery)
  /\ WF_vars(MetadataPresent) /\ WF_vars(MetadataWritten)
  /\ \A s \in Sessions : WF_vars(EnsurePrivateDir(s))
  /\ \A o \in Ops : WF_vars(RepairOperation(o, "durable"))
  /\ \A s \in Sessions :
       /\ WF_vars(AbandonSession(s))
       /\ SF_vars(PublishReceipt(s)) /\ WF_vars(PublishMetadata(s))
       /\ WF_vars(SpawnFails(s) \/ Spawn(s))
       /\ WF_vars(AdvanceSession(s, "durable"))

FairSpec == Spec /\ Fairness

\* A session directory whose operation record was lost before its metadata was
\* written: nothing repairs it.
Stranded == \E s \in Sessions : metadata[s] = "empty" /\ \A o \in Ops : opRecord[o] # s

\* Startup recovery always gets the daemon back to serving requests.
RecoveryCompletes == daemon = "recovering" ~> daemon = "ready"

\* Startup recovery, through the files that any crash, power loss or failed write
\* of an earlier incarnation left, gets the daemon back to serving requests: the
\* one thing that keeps it down is an empty session directory without a record.
OnlyStrandedStopsRecovery == daemon = "recovering" ~> (daemon = "ready" \/ Stranded)

\* Once a child has been reaped or lost to a crash, its session reaches a
\* terminal state with a receipt: nothing stays finalizing for ever, unless the
\* daemon cannot start or both syncs of the publication failed.
EveryRunGetsReceipt ==
  \A s \in Sessions :
    (spawns[s] = 1 /\ owner[s] \notin {"spawned", "running"})
      ~> \/ metadata[s] \in Terminal /\ receipt[s] = metadata[s]
         \/ Stranded \/ s \in doubted \cup withdrawn

-----------------------------------------------------------------------------
(* The store implements the contract: sessions run when a child is started *)
(* and are answered when a client is shown a terminal receipt.  Retention  *)
(* and a publication that failed to sync twice release it from its word.   *)
Contract == INSTANCE ExecutionContract
              WITH ran <- {s \in Sessions : spawns[s] > 0}, verdict <- shown,
                   released <- retired \cup withdrawn \cup doubted, Verdicts <- Terminal

ImplementsContract == Contract!ContractSpec

=============================================================================
