------------------------ MODULE OperationStoreProofs ------------------------
(***************************************************************************)
(* A retried Start never spawns twice, and nothing is spawned before the   *)
(* record of its operation is on stable storage, for any number of         *)
(* operations, sessions, I/O failures, crashes and power losses.           *)
(*                                                                         *)
(* The argument: a session that may spawn, or has spawned, is Bound, that  *)
(* is, the visible and the durable record of its operation both name it.   *)
(* A crash cannot undo that, a retry is then a replay, and a record names  *)
(* one session only.  References says that the names the daemon holds and  *)
(* the names on disk are of sessions that were drawn for their operation.  *)
(***************************************************************************)
EXTENDS OperationStore, FiniteSetTheorems, TLAPS

Drawn(s) == s \in Sessions /\ opOf[s] \in Ops

References ==
  /\ \A o \in Ops : opRecord[o] # None => opOf[opRecord[o]] = o
  /\ \A o \in Ops : opSynced[o] # None => opOf[opSynced[o]] = o
  /\ admit.at # "free" => Drawn(admit.session)
  /\ gc.at # "idle" => Drawn(gc.session)
  /\ \A s \in Sessions : (metadata[s] # None \/ metaSynced[s] # None \/ pubAt[s] # "idle")
                           => opOf[s] \in Ops

Bound(s) ==
  /\ opOf[s] \in Ops
  /\ s \in retired \/ (opRecord[opOf[s]] = s /\ opSynced[opOf[s]] = s)

Binding ==
  /\ \A s \in Sessions : spawns[s] > 0 \/ owner[s] # "none" => Bound(s)
  /\ \A s \in Sessions : spawns[s] <= 1 /\ (owner[s] = "admitted" => spawns[s] = 0)
  /\ admit.at # "free" /\ admit.created
       => /\ Bound(admit.session)
          /\ spawns[admit.session] = 0 /\ owner[admit.session] = "none"

IInv == TypeOK /\ References /\ Binding

USE DEF opFiles, sessFiles, memory, history, bounds

LEMMA TypeInit == Init => TypeOK
BY BoundsAssumption DEF Init, TypeOK, Owners, Free, GcIdle

\* What a crash leaves in memory is typed.
LEMMA HaltType ==
  ASSUME Halt
  PROVE  /\ daemon' = "down" /\ active' \subseteq Sessions
         /\ admit' \in [at : {"free", "metadata", "compensate"},
                       session : Sessions \cup {None}, created : BOOLEAN]
         /\ owner' \in [Sessions -> Owners]
         /\ pubAt' \in [Sessions -> {"idle", "receipt", "metadata"}]
         /\ pubRec' \in [Sessions -> Terminal \cup {None}]
         /\ gc' \in [at : {"idle", "record", "rename"}, session : Sessions \cup {None}]
BY DEF Halt, Free, GcIdle, Owners

\* An operation record binds a session or nothing, whatever the write's result.
LEMMA WriteRecordType ==
  ASSUME TypeOK, NEW o \in Ops, NEW s \in Sessions, NEW r, WriteRecord(o, s, r)
  PROVE  opRecord' \in [Ops -> Sessions \cup {None}] /\ opSynced' \in [Ops -> Sessions \cup {None}]
BY DEF TypeOK, WriteRecord

LEMMA WriteMetadataType ==
  ASSUME TypeOK, NEW s \in Sessions, NEW v \in States \cup {"empty", None}, NEW r,
         WriteMetadata(s, v, r)
  PROVE  /\ metadata' \in [Sessions -> States \cup {"empty", None}]
         /\ metaSynced' \in [Sessions -> States \cup {"empty", None}]
         /\ receipt' \in [Sessions -> Terminal \cup {None}]
         /\ rcptSynced' \in [Sessions -> Terminal \cup {None}]
BY DEF TypeOK, WriteMetadata, SyncSession

LEMMA WriteReceiptType ==
  ASSUME TypeOK, NEW s \in Sessions, NEW v \in Terminal \cup {None}, NEW r,
         WriteReceipt(s, v, r)
  PROVE  /\ metadata' \in [Sessions -> States \cup {"empty", None}]
         /\ metaSynced' \in [Sessions -> States \cup {"empty", None}]
         /\ receipt' \in [Sessions -> Terminal \cup {None}]
         /\ rcptSynced' \in [Sessions -> Terminal \cup {None}]
BY DEF TypeOK, WriteReceipt, SyncSession

LEMMA SpendType ==
  ASSUME TypeOK, NEW r, Spend(r) PROVE faults' \in Nat
BY DEF TypeOK, Spend

LEMMA TerminalStates == Terminal \subseteq States /\ "starting" \in States /\ "running" \in States
                        /\ "abandoned" \in Terminal /\ "failed" \in Terminal
BY DEF States, Terminal

LEMMA MarkedType ==
  ASSUME TypeOK, NEW s \in Sessions, NEW v, NEW r PROVE Marked(s, v, r) \subseteq Sessions
BY DEF TypeOK, Marked

\* The session of a call in progress is one that was drawn.
LEMMA CallSessions ==
  ASSUME IInv
  PROVE  /\ admit.at # "free" => admit.session \in Sessions /\ opOf[admit.session] \in Ops
         /\ gc.at # "idle" => gc.session \in Sessions /\ opOf[gc.session] \in Ops
BY DEF IInv, References, Drawn

LEMMA AdmissionType == IInv /\ Admission => TypeOK'
<1> SUFFICES ASSUME IInv, Admission PROVE TypeOK' OBVIOUS
<1> TypeOK BY DEF IInv
<1> admit.at = "metadata" => admit.session \in Sessions BY CallSessions
<1>1. ASSUME NEW o \in Ops, NEW s \in Sessions, NEW r \in Results, CreateOperation(o, s, r)
      PROVE  TypeOK'
  <2> opRecord' \in [Ops -> Sessions \cup {None}] /\ opSynced' \in [Ops -> Sessions \cup {None}]
    BY <1>1, WriteRecordType DEF CreateOperation
  <2> faults' \in Nat BY <1>1, SpendType DEF CreateOperation
  <2> QED BY <1>1 DEF CreateOperation, TypeOK, Free
<1>2. ASSUME NEW o \in Ops, ReplayOperation(o) PROVE TypeOK'
  BY <1>2 DEF ReplayOperation, TypeOK
<1>3. CASE MetadataPresent
  BY <1>3 DEF MetadataPresent, TypeOK, Owners, Free
<1>4. CASE MetadataWritten
  <2>1. admit.session \in Sessions BY <1>4 DEF MetadataWritten
  <2>2. active' \subseteq Sessions BY <1>4, <2>1, MarkedType DEF MetadataWritten
  <2>3. WriteMetadata(admit.session, "starting", "durable") BY <1>4 DEF MetadataWritten
  <2> QED BY <1>4, <2>1, <2>2, <2>3, WriteMetadataType, TerminalStates
          DEF MetadataWritten, TypeOK, Owners, Free
<1>5. CASE MetadataFails
  <2> faults' \in Nat BY <1>5, SpendType DEF MetadataFails
  <2> QED BY <1>5 DEF MetadataFails, TypeOK, Free
<1>6. CASE MetadataAmbiguous
  <2>1. admit.session \in Sessions BY <1>6 DEF MetadataAmbiguous
  <2>2. active' \subseteq Sessions BY <1>6, <2>1, MarkedType DEF MetadataAmbiguous
  <2>3. WriteMetadata(admit.session, "starting", "ambiguous") BY <1>6 DEF MetadataAmbiguous
  <2>4. faults' \in Nat BY <1>6, SpendType DEF MetadataAmbiguous
  <2>5. /\ metadata' \in [Sessions -> States \cup {"empty", None}]
        /\ metaSynced' \in [Sessions -> States \cup {"empty", None}]
        /\ receipt' \in [Sessions -> Terminal \cup {None}]
        /\ rcptSynced' \in [Sessions -> Terminal \cup {None}]
    BY <2>1, <2>3, WriteMetadataType, TerminalStates
  <2>6. \/ /\ admit' = [at |-> "compensate", session |-> admit.session, created |-> TRUE]
           /\ pubAt' = [pubAt EXCEPT ![admit.session] = "receipt"]
           /\ pubRec' = [pubRec EXCEPT ![admit.session] = "abandoned"]
        \/ admit' = Free /\ UNCHANGED <<pubAt, pubRec>>
    BY <1>6, Zenon DEF MetadataAmbiguous
  <2>7. UNCHANGED <<opRecord, opSynced, daemon, owner, gc, opOf, spawns, retired,
                  withdrawn, doubted, shown, crashes>>
    BY <1>6, Zenon DEF MetadataAmbiguous
  <2>8. admit' \in [at : {"free", "metadata", "compensate"},
                   session : Sessions \cup {None}, created : BOOLEAN]
    <3> DEFINE s == admit.session
    <3> HIDE DEF s
    <3>1. s \in Sessions BY <2>1 DEF s
    <3>2. \/ admit' = [at |-> "compensate", session |-> s, created |-> TRUE]
          \/ admit' = [at |-> "free", session |-> None, created |-> FALSE]
      BY <2>6, Zenon DEF s, Free
    <3>3. CASE admit' = [at |-> "compensate", session |-> s, created |-> TRUE] BY <3>1, <3>3
    <3>4. CASE admit' = [at |-> "free", session |-> None, created |-> FALSE] BY <3>4
    <3> QED BY <3>2, <3>3, <3>4
  <2>9. pubAt' \in [Sessions -> {"idle", "receipt", "metadata"}]
    BY <2>1, <2>6 DEF TypeOK
  <2>10. pubRec' \in [Sessions -> Terminal \cup {None}]
    BY <2>1, <2>6, TerminalStates DEF TypeOK
  <2> QED BY <2>2, <2>4, <2>5, <2>7, <2>8, <2>9, <2>10 DEF TypeOK
<1>7. ASSUME NEW s \in Sessions, EnsurePrivateDir(s) PROVE TypeOK'
  BY <1>7 DEF EnsurePrivateDir, TypeOK
<1> QED BY <1>1, <1>2, <1>3, <1>4, <1>5, <1>6, <1>7 DEF Admission

LEMMA RuntimeType == IInv /\ Runtime => TypeOK'
<1> SUFFICES ASSUME IInv, NEW s \in Sessions,
                    \/ ObservationFails(s) \/ SpawnFails(s) \/ Spawn(s)
                    \/ \E r \in Results : AdvanceSession(s, r)
                    \/ \E v \in ExitStates : ProcessExits(s, v)
             PROVE  TypeOK'
  BY DEF Runtime
<1> TypeOK BY DEF IInv
<1>1. CASE ObservationFails(s)
  <2> faults' \in Nat BY <1>1, SpendType DEF ObservationFails
  <2> QED BY <1>1, TerminalStates DEF ObservationFails, Settle, TypeOK, Owners
<1>2. CASE SpawnFails(s)
  BY <1>2, TerminalStates DEF SpawnFails, Settle, TypeOK, Owners
<1>3. CASE Spawn(s)
  BY <1>3 DEF Spawn, TypeOK, Owners
<1>4. ASSUME NEW r \in Results, AdvanceSession(s, r) PROVE TypeOK'
  <2>1. faults' \in Nat BY <1>4, SpendType DEF AdvanceSession
  <2>2. active' \subseteq Sessions BY <1>4, MarkedType DEF AdvanceSession
  <2>3. WriteMetadata(s, "running", r) BY <1>4 DEF AdvanceSession
  <2> QED BY <1>4, <2>1, <2>2, <2>3, WriteMetadataType, TerminalStates
          DEF AdvanceSession, TypeOK, Owners
<1>5. ASSUME NEW v \in ExitStates, ProcessExits(s, v) PROVE TypeOK'
  BY <1>5, ExitAssumption DEF ProcessExits, Settle, TypeOK, Owners
<1> QED BY <1>1, <1>2, <1>3, <1>4, <1>5

LEMMA PublicationType == IInv /\ Publication => TypeOK'
<1> SUFFICES ASSUME IInv, NEW s \in Sessions,
                    \/ PublishReceipt(s) \/ PublishMetadata(s)
                    \/ \E r \in Failures : PublishReceiptFails(s, r) \/ PublishMetadataFails(s, r)
             PROVE  TypeOK'
  BY DEF Publication
<1> TypeOK BY DEF IInv
<1> pubRec[s] \in Terminal \cup {None} /\ pubRec[s] \in States \cup {"empty", None}
  BY TerminalStates DEF TypeOK
<1>1. CASE PublishReceipt(s)
  BY <1>1, WriteReceiptType DEF PublishReceipt, TypeOK
<1>2. CASE PublishMetadata(s)
  <2>1. active' \subseteq Sessions BY <1>2, MarkedType DEF PublishMetadata, TypeOK
  <2>2. /\ metadata' \in [Sessions -> States \cup {"empty", None}]
        /\ metaSynced' \in [Sessions -> States \cup {"empty", None}]
        /\ receipt' \in [Sessions -> Terminal \cup {None}]
        /\ rcptSynced' \in [Sessions -> Terminal \cup {None}]
    BY <1>2, WriteMetadataType DEF PublishMetadata, TypeOK
  <2> QED BY <1>2, <2>1, <2>2 DEF PublishMetadata, Published, TypeOK, Owners, Free
<1>3. ASSUME NEW r \in Failures, NEW index \in SUBSET Sessions, RetryOrHalt(s, index)
      PROVE  /\ daemon' \in {"down", "recovering", "ready"} /\ active' \subseteq Sessions
             /\ admit' \in [at : {"free", "metadata", "compensate"},
                           session : Sessions \cup {None}, created : BOOLEAN]
             /\ owner' \in [Sessions -> Owners]
             /\ pubAt' \in [Sessions -> {"idle", "receipt", "metadata"}]
             /\ pubRec' \in [Sessions -> Terminal \cup {None}]
             /\ gc' \in [at : {"idle", "record", "rename"}, session : Sessions \cup {None}]
  BY <1>3, HaltType DEF RetryOrHalt, TypeOK
<1>4. ASSUME NEW r \in Failures, PublishReceiptFails(s, r) PROVE TypeOK'
  <2>1. faults' \in Nat BY <1>4, SpendType DEF PublishReceiptFails
  <2>2. WriteReceipt(s, pubRec[s], r) BY <1>4 DEF PublishReceiptFails
  <2>3. active \in SUBSET Sessions /\ RetryOrHalt(s, active)
    BY <1>4 DEF PublishReceiptFails, TypeOK
  <2> QED BY <1>4, <2>1, <2>2, <2>3, <1>3, WriteReceiptType DEF PublishReceiptFails, TypeOK
<1>5. ASSUME NEW r \in Failures, PublishMetadataFails(s, r) PROVE TypeOK'
  <2>1. faults' \in Nat BY <1>5, SpendType DEF PublishMetadataFails
  <2>2. WriteMetadata(s, pubRec[s], r) BY <1>5 DEF PublishMetadataFails
  <2>3. /\ Marked(s, pubRec[s], r) \in SUBSET Sessions
        /\ RetryOrHalt(s, Marked(s, pubRec[s], r))
    BY <1>5, MarkedType DEF PublishMetadataFails
  <2> QED BY <1>5, <2>1, <2>2, <2>3, <1>3, WriteMetadataType DEF PublishMetadataFails, TypeOK
<1> QED BY <1>1, <1>2, <1>4, <1>5

LEMMA RecoveryType == IInv /\ Recovery => TypeOK'
<1> SUFFICES ASSUME IInv, Recovery PROVE TypeOK' OBVIOUS
<1> TypeOK BY DEF IInv
<1>1. CASE DaemonCrash
  BY <1>1, HaltType DEF DaemonCrash, TypeOK
<1>2. CASE PowerLoss
  <2>1. opRecord' \in [Ops -> Sessions \cup {None}] BY <1>2 DEF PowerLoss, TypeOK
  <2>2. metadata' \in [Sessions -> States \cup {"empty", None}] BY <1>2 DEF PowerLoss, TypeOK
  <2>3. receipt' \in [Sessions -> Terminal \cup {None}] BY <1>2 DEF PowerLoss, TypeOK
  <2>4. Halt /\ crashes' \in Nat BY <1>2 DEF PowerLoss, TypeOK
  <2>5. /\ opSynced' = opRecord' /\ metaSynced' = metadata' /\ rcptSynced' = receipt'
        /\ UNCHANGED <<opOf, spawns, retired, withdrawn, doubted, shown, faults>>
    BY <1>2 DEF PowerLoss
  <2> QED BY <2>1, <2>2, <2>3, <2>4, <2>5, HaltType DEF TypeOK
<1>3. CASE Restart
  BY <1>3 DEF Restart, TypeOK
<1>4. CASE FinishRecovery
  BY <1>4 DEF FinishRecovery, TypeOK
<1>5. ASSUME NEW o \in Ops, NEW r \in Results, RepairOperation(o, r) PROVE TypeOK'
  <2>1. opRecord[o] \in Sessions BY <1>5 DEF RepairOperation, Unrepaired, TypeOK
  <2>2. WriteMetadata(opRecord[o], "starting", r) BY <1>5 DEF RepairOperation
  <2>3. faults' \in Nat BY <1>5, SpendType DEF RepairOperation
  <2>4. CASE r = "durable"
    <3> active' \subseteq Sessions BY <1>5, <2>1, <2>4, MarkedType DEF RepairOperation
    <3> QED BY <1>5, <2>1, <2>2, <2>3, <2>4, WriteMetadataType, TerminalStates
            DEF RepairOperation, TypeOK
  <2>5. CASE r # "durable"
    BY <1>5, <2>1, <2>2, <2>3, <2>5, WriteMetadataType, TerminalStates, HaltType
       DEF RepairOperation, TypeOK
  <2> QED BY <2>4, <2>5
<1>6. ASSUME NEW s \in Sessions, AbandonSession(s) PROVE TypeOK'
  BY <1>6, TerminalStates DEF AbandonSession, BeginAbandon, TypeOK
<1>7. ASSUME NEW s \in Sessions, UnreadableSession(s) PROVE TypeOK'
  BY <1>7, HaltType DEF UnreadableSession, TypeOK
<1> QED BY <1>1, <1>2, <1>3, <1>4, <1>5, <1>6, <1>7 DEF Recovery

LEMMA SweepType == IInv /\ Sweep => TypeOK'
<1> SUFFICES ASSUME IInv, Sweep PROVE TypeOK' OBVIOUS
<1> TypeOK BY DEF IInv
<1> gc.at # "idle" => gc.session \in Sessions /\ opOf[gc.session] \in Ops BY CallSessions
<1>1. ASSUME NEW s \in Sessions, CollectSession(s) PROVE TypeOK'
  BY <1>1 DEF CollectSession, TypeOK
<1>2. CASE RemoveRecord
  BY <1>2 DEF RemoveRecord, TypeOK
<1>3. CASE WithdrawSession
  BY <1>3 DEF WithdrawSession, TypeOK, GcIdle
<1>4. CASE WithdrawFails
  <2> faults' \in Nat BY <1>4, SpendType DEF WithdrawFails
  <2> QED BY <1>4 DEF WithdrawFails, TypeOK, GcIdle
<1> QED BY <1>1, <1>2, <1>3, <1>4 DEF Sweep

LEMMA TypeNext == IInv /\ [Next]_vars => TypeOK'
<1> SUFFICES ASSUME IInv, [Next]_vars PROVE TypeOK' OBVIOUS
<1>1. ASSUME NEW s \in Sessions, Poll(s) PROVE TypeOK'
  BY <1>1 DEF IInv, Poll, TypeOK
<1>2. CASE UNCHANGED vars
  BY <1>2 DEF IInv, TypeOK, vars
<1> QED BY <1>1, <1>2, AdmissionType, RuntimeType, PublicationType, RecoveryType, SweepType DEF Next

-----------------------------------------------------------------------------
\* Halting forgets every call in progress and every owner.
LEMMA HaltForgets ==
  ASSUME Halt
  PROVE  /\ admit'.at = "free" /\ gc'.at = "idle"
         /\ \A s \in Sessions : owner'[s] = "none" /\ pubAt'[s] = "idle"
BY DEF Halt, Free, GcIdle

\* A write to the files of a drawn session keeps their names accounted for.
LEMMA WriteKeepsDrawn ==
  ASSUME TypeOK, References, NEW s \in Sessions, opOf[s] \in Ops, NEW v, NEW r,
         WriteMetadata(s, v, r) \/ WriteReceipt(s, v, r), opOf' = opOf
  PROVE  \A t \in Sessions : (metadata'[t] # None \/ metaSynced'[t] # None) => opOf'[t] \in Ops
BY DEF TypeOK, References, WriteMetadata, WriteReceipt, SyncSession

LEMMA ReferencesAdmission == IInv /\ Admission => References'
<1> SUFFICES ASSUME IInv, Admission PROVE References' OBVIOUS
<1> TypeOK /\ References BY DEF IInv
<1>1. ASSUME NEW o \in Ops, NEW s \in Sessions, NEW r \in Results, CreateOperation(o, s, r)
      PROVE  References'
  <2>1. \A p \in Ops : opRecord[p] # s /\ opSynced[p] # s
    BY <1>1, SessionsAssumption DEF CreateOperation, References
  <2>2. \A t \in Sessions : t # s => opOf'[t] = opOf[t] BY <1>1 DEF CreateOperation, TypeOK
  <2>3. \A p \in Ops : opRecord'[p] # None => opOf'[opRecord'[p]] = p
    BY <1>1, <2>1, <2>2, SessionsAssumption DEF CreateOperation, WriteRecord, References, TypeOK
  <2>4. \A p \in Ops : opSynced'[p] # None => opOf'[opSynced'[p]] = p
    BY <1>1, <2>1, <2>2, <2>3, SessionsAssumption DEF CreateOperation, WriteRecord, References, TypeOK
  <2>5. admit'.at # "free" => Drawn(admit.session)'
    BY <1>1 DEF CreateOperation, TypeOK, Free, Drawn
  <2>6. gc'.at # "idle" => Drawn(gc.session)'
    BY <1>1, <2>2, SessionsAssumption DEF CreateOperation, TypeOK, References, Drawn
  <2>7. \A t \in Sessions : (metadata'[t] # None \/ metaSynced'[t] # None \/ pubAt'[t] # "idle")
                             => opOf'[t] \in Ops
    BY <1>1, <2>2, SessionsAssumption DEF CreateOperation, TypeOK, References
  <2> QED BY <2>3, <2>4, <2>5, <2>6, <2>7 DEF References
<1>2. ASSUME NEW o \in Ops, ReplayOperation(o) PROVE References'
  <2> Drawn(opRecord[o]) BY <1>2 DEF ReplayOperation, References, Drawn, TypeOK
  <2> QED BY <1>2 DEF ReplayOperation, References, Drawn
<1>3. CASE MetadataPresent
  BY <1>3 DEF MetadataPresent, References, Drawn, Free
<1>4. CASE MetadataWritten
  <2>1. admit.session \in Sessions /\ opOf[admit.session] \in Ops
    BY <1>4, CallSessions DEF MetadataWritten
  <2>2. \A t \in Sessions : (metadata'[t] # None \/ metaSynced'[t] # None) => opOf'[t] \in Ops
    BY <1>4, <2>1, WriteKeepsDrawn DEF MetadataWritten
  <2> QED BY <1>4, <2>2 DEF MetadataWritten, References, Drawn, Free
<1>5. CASE MetadataFails
  BY <1>5 DEF MetadataFails, References, Drawn, Free
<1>6. CASE MetadataAmbiguous
  <2>1. admit.session \in Sessions /\ opOf[admit.session] \in Ops
    BY <1>6, CallSessions DEF MetadataAmbiguous
  <2>2. \A t \in Sessions : (metadata'[t] # None \/ metaSynced'[t] # None) => opOf'[t] \in Ops
    BY <1>6, <2>1, WriteKeepsDrawn DEF MetadataAmbiguous
  <2>3. /\ admit'.at # "free" => admit'.session = admit.session
        /\ \A t \in Sessions : t # admit.session => pubAt'[t] = pubAt[t]
    BY <1>6, <2>1 DEF MetadataAmbiguous, Free, TypeOK
  <2> QED BY <1>6, <2>1, <2>2, <2>3 DEF MetadataAmbiguous, References, Drawn
<1>7. ASSUME NEW s \in Sessions, EnsurePrivateDir(s) PROVE References'
  <2>1. opOf[s] \in Ops
    BY <1>7, CallSessions, SessionsAssumption DEF EnsurePrivateDir, Ensuring, References
  <2>2. \A t \in Sessions : t # s => metadata'[t] = metadata[t]
    BY <1>7 DEF EnsurePrivateDir, TypeOK
  <2> QED BY <1>7, <2>1, <2>2 DEF EnsurePrivateDir, References, Drawn
<1> QED BY <1>1, <1>2, <1>3, <1>4, <1>5, <1>6, <1>7 DEF Admission

LEMMA ReferencesOthers ==
  IInv /\ (Runtime \/ Publication \/ Sweep \/ (\E s \in Sessions : Poll(s))) => References'
<1> SUFFICES ASSUME IInv, Runtime \/ Publication \/ Sweep \/ (\E s \in Sessions : Poll(s))
             PROVE  References'
  OBVIOUS
<1> TypeOK /\ References BY DEF IInv
<1>1. ASSUME NEW s \in Sessions, owner[s] # "none" PROVE opOf[s] \in Ops
  BY <1>1 DEF IInv, Binding, Bound
<1>2. ASSUME NEW s \in Sessions, ObservationFails(s) PROVE References'
  BY <1>1, <1>2 DEF ObservationFails, Settle, References, Drawn, TypeOK
<1>3. ASSUME NEW s \in Sessions, SpawnFails(s) PROVE References'
  BY <1>1, <1>3 DEF SpawnFails, Settle, References, Drawn, TypeOK
<1>4. ASSUME NEW s \in Sessions, Spawn(s) PROVE References'
  BY <1>4 DEF Spawn, References, Drawn
<1>5. ASSUME NEW s \in Sessions, NEW r \in Results, AdvanceSession(s, r) PROVE References'
  <2>1. opOf[s] \in Ops BY <1>1, <1>5 DEF AdvanceSession
  <2>2. \A t \in Sessions : (metadata'[t] # None \/ metaSynced'[t] # None) => opOf'[t] \in Ops
    BY <1>5, <2>1, WriteKeepsDrawn DEF AdvanceSession
  <2> QED BY <1>5, <2>2 DEF AdvanceSession, References, Drawn
<1>6. ASSUME NEW s \in Sessions, NEW v \in ExitStates, ProcessExits(s, v) PROVE References'
  BY <1>1, <1>6 DEF ProcessExits, Settle, References, Drawn, TypeOK
<1>7. ASSUME NEW s \in Sessions, PublishReceipt(s) PROVE References'
  <2>1. opOf[s] \in Ops BY <1>7 DEF PublishReceipt, References
  <2>2. \A t \in Sessions : (metadata'[t] # None \/ metaSynced'[t] # None) => opOf'[t] \in Ops
    BY <1>7, <2>1, WriteKeepsDrawn DEF PublishReceipt, References
  <2> QED BY <1>7, <2>1, <2>2 DEF PublishReceipt, References, Drawn, TypeOK
<1>8. ASSUME NEW s \in Sessions, PublishMetadata(s) PROVE References'
  <2>1. opOf[s] \in Ops BY <1>8 DEF PublishMetadata, References
  <2>2. \A t \in Sessions : (metadata'[t] # None \/ metaSynced'[t] # None) => opOf'[t] \in Ops
    BY <1>8, <2>1, WriteKeepsDrawn DEF PublishMetadata, References
  <2> QED BY <1>8, <2>1, <2>2 DEF PublishMetadata, Published, References, Drawn, TypeOK, Free
<1>9. ASSUME NEW s \in Sessions, NEW index, RetryOrHalt(s, index), opOf[s] \in Ops,
             UNCHANGED <<opRecord, opSynced, opOf>>,
             \A t \in Sessions : (metadata'[t] # None \/ metaSynced'[t] # None) => opOf'[t] \in Ops
      PROVE  References'
  <2>1. CASE daemon = "recovering"
    BY <1>9, <2>1, HaltForgets DEF RetryOrHalt, References, Drawn
  <2>2. CASE daemon # "recovering"
    BY <1>9, <2>2 DEF RetryOrHalt, References, Drawn, TypeOK
  <2> QED BY <2>1, <2>2
<1>10. ASSUME NEW s \in Sessions, NEW r \in Failures, PublishReceiptFails(s, r) PROVE References'
  <2>1. opOf[s] \in Ops BY <1>10 DEF PublishReceiptFails, References
  <2> QED BY <1>9, <1>10, <2>1, WriteKeepsDrawn DEF PublishReceiptFails
<1>11. ASSUME NEW s \in Sessions, NEW r \in Failures, PublishMetadataFails(s, r) PROVE References'
  <2>1. opOf[s] \in Ops BY <1>11 DEF PublishMetadataFails, References
  <2> QED BY <1>9, <1>11, <2>1, WriteKeepsDrawn DEF PublishMetadataFails
<1>12. ASSUME NEW s \in Sessions, CollectSession(s) PROVE References'
  <2> opOf[s] \in Ops BY <1>12, TerminalStates, ExitAssumption DEF CollectSession, References
  <2> QED BY <1>12 DEF CollectSession, References, Drawn
<1>13. CASE RemoveRecord
  BY <1>13, CallSessions DEF RemoveRecord, References, Drawn, TypeOK
<1>14. CASE WithdrawSession
  BY <1>14, CallSessions DEF WithdrawSession, References, Drawn, TypeOK, GcIdle
<1>15. CASE WithdrawFails
  BY <1>15 DEF WithdrawFails, References, Drawn, GcIdle
<1>16. ASSUME NEW s \in Sessions, Poll(s) PROVE References'
  BY <1>16 DEF Poll, References, Drawn
<1> QED BY <1>2, <1>3, <1>4, <1>5, <1>6, <1>7, <1>8, <1>10, <1>11, <1>12, <1>13, <1>14, <1>15,
           <1>16 DEF Runtime, Publication, Sweep

LEMMA ReferencesRecovery == IInv /\ Recovery => References'
<1> SUFFICES ASSUME IInv, Recovery PROVE References' OBVIOUS
<1> TypeOK /\ References BY DEF IInv
<1>1. CASE DaemonCrash
  BY <1>1, HaltForgets DEF DaemonCrash, References, Drawn
<1>2. CASE PowerLoss
  <2>1. \A o \in Ops : opRecord'[o] \in {opRecord[o], opSynced[o]} /\ opSynced'[o] = opRecord'[o]
    BY <1>2 DEF PowerLoss, TypeOK
  <2>2. \A s \in Sessions : metadata'[s] \in {metadata[s], metaSynced[s]}
                            /\ metaSynced'[s] = metadata'[s]
    BY <1>2 DEF PowerLoss, TypeOK
  <2>3. Halt /\ opOf' = opOf BY <1>2 DEF PowerLoss
  <2> QED BY <2>1, <2>2, <2>3, HaltForgets DEF References, Drawn
<1>3. CASE Restart
  BY <1>3 DEF Restart, References, Drawn
<1>4. CASE FinishRecovery
  BY <1>4 DEF FinishRecovery, References, Drawn
<1>5. ASSUME NEW o \in Ops, NEW r \in Results, RepairOperation(o, r) PROVE References'
  <2>1. opRecord[o] \in Sessions /\ opOf[opRecord[o]] \in Ops
    BY <1>5 DEF RepairOperation, Unrepaired, TypeOK, References
  <2>2. \A t \in Sessions : (metadata'[t] # None \/ metaSynced'[t] # None) => opOf'[t] \in Ops
    BY <1>5, <2>1, WriteKeepsDrawn DEF RepairOperation
  <2>3. CASE r = "durable"
    BY <1>5, <2>2, <2>3 DEF RepairOperation, References, Drawn
  <2>4. CASE r # "durable"
    BY <1>5, <2>2, <2>4, HaltForgets DEF RepairOperation, References, Drawn
  <2> QED BY <2>3, <2>4
<1>6. ASSUME NEW s \in Sessions, AbandonSession(s) PROVE References'
  <2> opOf[s] \in Ops BY <1>6, ExitAssumption DEF AbandonSession, References
  <2> QED BY <1>6 DEF AbandonSession, BeginAbandon, References, Drawn, TypeOK
<1>7. ASSUME NEW s \in Sessions, UnreadableSession(s) PROVE References'
  BY <1>7, HaltForgets DEF UnreadableSession, References, Drawn
<1> QED BY <1>1, <1>2, <1>3, <1>4, <1>5, <1>6, <1>7 DEF Recovery

LEMMA ReferencesNext == IInv /\ [Next]_vars => References'
<1> SUFFICES ASSUME IInv, [Next]_vars PROVE References' OBVIOUS
<1>1. CASE UNCHANGED vars
  BY <1>1 DEF IInv, References, Drawn, vars
<1> QED BY <1>1, ReferencesAdmission, ReferencesOthers, ReferencesRecovery DEF Next

-----------------------------------------------------------------------------
\* A step that leaves records, owners, histories and the created reservation
\* alone leaves the binding alone; it may end calls and forget owners.
LEMMA BindingKept ==
  ASSUME IInv, UNCHANGED <<opRecord, opSynced, opOf, spawns, retired>>,
         \A s \in Sessions : owner'[s] \in {owner[s], "none"},
         admit'.at # "free" => admit'.session = admit.session /\ admit'.created = admit.created
                               /\ admit.at # "free"
  PROVE  Binding'
<1>1. \A s : Bound(s)' <=> Bound(s) BY DEF Bound
<1>2. admit'.at # "free" => admit.session \in Sessions BY CallSessions
<1> QED BY <1>1, <1>2 DEF IInv, Binding

LEMMA BindingAdmission == IInv /\ Admission => Binding'
<1> SUFFICES ASSUME IInv, Admission PROVE Binding' OBVIOUS
<1> TypeOK /\ References /\ Binding BY DEF IInv
<1>1. ASSUME NEW o \in Ops, NEW s \in Sessions, NEW r \in Results, CreateOperation(o, s, r)
      PROVE  Binding'
  <2>1. spawns[s] = 0 /\ owner[s] = "none"
    BY <1>1, SessionsAssumption DEF CreateOperation, Binding, Bound, TypeOK
  <2>2. ASSUME NEW t \in Sessions, t # s, Bound(t) PROVE Bound(t)'
    <3>1. opOf'[t] = opOf[t] BY <1>1, <2>2 DEF CreateOperation, TypeOK
    <3>2. t \in retired => Bound(t)' BY <1>1, <2>2, <3>1 DEF CreateOperation, Bound
    <3>3. ASSUME t \notin retired PROVE Bound(t)'
      <4> opOf[t] # o BY <1>1, <2>2, <3>3, SessionsAssumption DEF CreateOperation, Bound
      <4> opRecord'[opOf[t]] = t /\ opSynced'[opOf[t]] = t
        BY <1>1, <2>2, <3>3 DEF CreateOperation, WriteRecord, Bound, TypeOK
      <4> QED BY <2>2, <3>1 DEF Bound
    <3> QED BY <3>2, <3>3
  <2>3. \A t \in Sessions : spawns[t] > 0 \/ owner[t] # "none" => Bound(t)'
    BY <2>1, <2>2 DEF Binding
  <2>4. admit'.at # "free" => admit'.session = s /\ Bound(s)'
    BY <1>1 DEF CreateOperation, WriteRecord, Bound, Free, TypeOK
  <2> QED BY <1>1, <2>1, <2>3, <2>4 DEF CreateOperation, Binding
<1>2. ASSUME NEW o \in Ops, ReplayOperation(o) PROVE Binding'
  <2>1. ~admit'.created BY <1>2 DEF ReplayOperation
  <2>2. \A t : Bound(t)' <=> Bound(t) BY <1>2 DEF ReplayOperation, Bound
  <2> QED BY <1>2, <2>1, <2>2 DEF ReplayOperation, Binding
<1>3. ASSUME admit.at = "metadata", admit' = Free,
             owner' = IF admit.created THEN [owner EXCEPT ![admit.session] = "admitted"] ELSE owner,
             UNCHANGED <<opRecord, opSynced, opOf, spawns, retired>>
      PROVE  Binding'
  <2>1. \A t : Bound(t)' <=> Bound(t) BY <1>3 DEF Bound
  <2>2. admit.session \in Sessions BY <1>3, CallSessions
  <2> QED BY <1>3, <2>1, <2>2 DEF Binding, Free, TypeOK
<1>4. CASE MetadataPresent BY <1>3, <1>4 DEF MetadataPresent
<1>5. CASE MetadataWritten BY <1>3, <1>5 DEF MetadataWritten
<1>6. CASE MetadataFails BY <1>6, BindingKept DEF MetadataFails, Free
<1>7. CASE MetadataAmbiguous
  <2>1. admit.created \in BOOLEAN BY DEF TypeOK
  <2>2. \/ admit.created = TRUE
           /\ admit' = [at |-> "compensate", session |-> admit.session, created |-> TRUE]
        \/ admit' = Free
    BY <1>7, <2>1, Zenon DEF MetadataAmbiguous
  <2>3. admit'.at # "free" => admit'.session = admit.session /\ admit'.created = admit.created
    <3>1. CASE admit' = Free BY <3>1 DEF Free
    <3>2. CASE /\ admit.created = TRUE
               /\ admit' = [at |-> "compensate", session |-> admit.session, created |-> TRUE]
      BY <3>2
    <3> QED BY <2>2, <3>1, <3>2
  <2> QED BY <1>7, <2>3, BindingKept DEF MetadataAmbiguous
<1>8. ASSUME NEW s \in Sessions, EnsurePrivateDir(s) PROVE Binding'
  BY <1>8, BindingKept DEF EnsurePrivateDir
<1> QED BY <1>1, <1>2, <1>4, <1>5, <1>6, <1>7, <1>8 DEF Admission

LEMMA BindingRuntime == IInv /\ Runtime => Binding'
<1> SUFFICES ASSUME IInv, NEW s \in Sessions,
                    \/ ObservationFails(s) \/ SpawnFails(s) \/ Spawn(s)
                    \/ \E r \in Results : AdvanceSession(s, r)
                    \/ \E v \in ExitStates : ProcessExits(s, v)
             PROVE  Binding'
  BY DEF Runtime
<1> TypeOK /\ References /\ Binding BY DEF IInv
<1>1. /\ \A t : Bound(t)' <=> Bound(t)
      /\ owner[s] # "none" /\ admit' = admit
      /\ \A t \in Sessions : t # s => owner'[t] = owner[t] /\ spawns'[t] = spawns[t]
    BY DEF ObservationFails, SpawnFails, Spawn, AdvanceSession, ProcessExits, Settle, Bound, TypeOK
<1>2. owner'[s] # "admitted" /\ spawns'[s] <= 1
    BY DEF ObservationFails, SpawnFails, Spawn, AdvanceSession, ProcessExits, Settle, TypeOK, Binding
<1>3. admit.at # "free" => admit.session \in Sessions BY CallSessions
<1> QED BY <1>1, <1>2, <1>3 DEF Binding

LEMMA BindingPublication == IInv /\ Publication => Binding'
<1> SUFFICES ASSUME IInv, NEW s \in Sessions,
                    \/ PublishReceipt(s) \/ PublishMetadata(s)
                    \/ \E r \in Failures : PublishReceiptFails(s, r) \/ PublishMetadataFails(s, r)
             PROVE  Binding'
  BY DEF Publication
<1> TypeOK BY DEF IInv
<1>1. CASE PublishReceipt(s) BY <1>1, BindingKept DEF PublishReceipt
<1>2. CASE PublishMetadata(s)
  BY <1>2, BindingKept DEF PublishMetadata, Published, Free, TypeOK
<1>3. ASSUME NEW index, RetryOrHalt(s, index),
             UNCHANGED <<opRecord, opSynced, opOf, spawns, retired>>
      PROVE  Binding'
  BY <1>3, HaltForgets, BindingKept DEF RetryOrHalt
<1>4. ASSUME NEW r \in Failures, PublishReceiptFails(s, r) PROVE Binding'
  BY <1>3, <1>4 DEF PublishReceiptFails
<1>5. ASSUME NEW r \in Failures, PublishMetadataFails(s, r) PROVE Binding'
  BY <1>3, <1>5 DEF PublishMetadataFails
<1> QED BY <1>1, <1>2, <1>4, <1>5

LEMMA BindingRecovery == IInv /\ Recovery => Binding'
<1> SUFFICES ASSUME IInv, Recovery PROVE Binding' OBVIOUS
<1> TypeOK /\ Binding BY DEF IInv
<1>1. CASE DaemonCrash BY <1>1, HaltForgets, BindingKept DEF DaemonCrash
<1>2. CASE PowerLoss
  <2>1. \A o \in Ops : opRecord[o] = opSynced[o]
                       => opRecord'[o] = opRecord[o] /\ opSynced'[o] = opSynced[o]
    BY <1>2 DEF PowerLoss, TypeOK
  <2>2. Halt /\ UNCHANGED <<opOf, spawns, retired>> BY <1>2 DEF PowerLoss
  <2>3. \A s : Bound(s) => Bound(s)' BY <2>1, <2>2 DEF Bound
  <2> QED BY <2>2, <2>3, HaltForgets DEF Binding
<1>3. CASE Restart BY <1>3, BindingKept DEF Restart
<1>4. CASE FinishRecovery BY <1>4, BindingKept DEF FinishRecovery
<1>5. ASSUME NEW o \in Ops, NEW r \in Results, RepairOperation(o, r) PROVE Binding'
  BY <1>5, HaltForgets, BindingKept DEF RepairOperation
<1>6. ASSUME NEW s \in Sessions, AbandonSession(s) PROVE Binding'
  BY <1>6, BindingKept DEF AbandonSession, BeginAbandon
<1>7. ASSUME NEW s \in Sessions, UnreadableSession(s) PROVE Binding'
  BY <1>7, HaltForgets, BindingKept DEF UnreadableSession
<1> QED BY <1>1, <1>2, <1>3, <1>4, <1>5, <1>6, <1>7 DEF Recovery

LEMMA BindingSweep == IInv /\ Sweep => Binding'
<1> SUFFICES ASSUME IInv, Sweep PROVE Binding' OBVIOUS
<1> TypeOK /\ Binding BY DEF IInv
<1>1. ASSUME NEW s \in Sessions, CollectSession(s) PROVE Binding'
  BY <1>1, BindingKept DEF CollectSession
<1>2. CASE RemoveRecord
  <2> DEFINE o == opOf[gc.session]
  <2>1. o \in Ops BY <1>2, CallSessions DEF RemoveRecord
  <2>2. ASSUME NEW s \in Sessions, Bound(s) PROVE Bound(s)'
    <3>1. CASE s \in retired BY <1>2, <2>2, <3>1 DEF RemoveRecord, Bound
    <3>2. CASE s \notin retired /\ opOf[s] = o
      BY <1>2, <2>2, <3>2, SessionsAssumption DEF RemoveRecord, Bound
    <3>3. CASE s \notin retired /\ opOf[s] # o
      BY <1>2, <2>1, <2>2, <3>3 DEF RemoveRecord, Bound, TypeOK
    <3> QED BY <3>1, <3>2, <3>3
  <2>3. admit.at # "free" => admit.session \in Sessions BY CallSessions
  <2>4. UNCHANGED <<spawns, owner, admit>> BY <1>2 DEF RemoveRecord
  <2> QED BY <2>2, <2>3, <2>4 DEF Binding
<1>3. CASE WithdrawSession BY <1>3, BindingKept DEF WithdrawSession
<1>4. CASE WithdrawFails BY <1>4, BindingKept DEF WithdrawFails
<1> QED BY <1>1, <1>2, <1>3, <1>4 DEF Sweep

LEMMA InvNext == IInv /\ [Next]_vars => IInv'
<1> SUFFICES ASSUME IInv, [Next]_vars PROVE IInv' OBVIOUS
<1>1. ASSUME NEW s \in Sessions, Poll(s) PROVE Binding'
  <2> UNCHANGED <<opRecord, opSynced, opOf, spawns, retired, owner, admit>> BY <1>1 DEF Poll
  <2> QED BY BindingKept
<1>2. ASSUME UNCHANGED vars PROVE Binding'
  <2> UNCHANGED <<opRecord, opSynced, opOf, spawns, retired, owner, admit>> BY <1>2 DEF vars
  <2> QED BY BindingKept
<1>3. Binding'
  BY <1>1, <1>2, BindingAdmission, BindingRuntime, BindingPublication, BindingRecovery,
     BindingSweep DEF Next
<1> QED BY <1>3, TypeNext, ReferencesNext DEF IInv

LEMMA InvInit == Init => IInv
<1> SUFFICES ASSUME Init PROVE IInv OBVIOUS
<1>1. References BY DEF Init, References, Drawn, Free, GcIdle
<1>2. Binding BY DEF Init, Binding, Free
<1> QED BY <1>1, <1>2, TypeInit DEF IInv

-----------------------------------------------------------------------------
\* Every record, file, call and owner keeps its type, so no failed write, crash
\* or sweep leaves a name of a session that was never drawn.
THEOREM TypeCorrect == Spec => []TypeOK
<1>1. IInv => TypeOK BY DEF IInv
<1> QED BY <1>1, InvInit, InvNext, PTL DEF Spec

\* ReserveOperation and spawnPreparedStart: for any number of clients, retries,
\* failed syncs and crashes, an operation whose record was not swept spawns at
\* most one child.
THEOREM RetriesSpawnOnce == Spec => []AtMostOneSpawn
<1>1. IInv => AtMostOneSpawn
  <2> SUFFICES ASSUME IInv, NEW s \in Sessions, NEW t \in Sessions
               PROVE  /\ spawns[s] <= 1
                      /\ (spawns[s] = 1 /\ spawns[t] = 1 /\ opOf[s] = opOf[t]
                          /\ s \notin retired /\ t \notin retired) => s = t
    BY DEF AtMostOneSpawn
  <2> QED BY DEF IInv, TypeOK, Binding, Bound
<1> QED BY <1>1, InvInit, InvNext, PTL DEF Spec

\* atomicWriter.Create reports AmbiguousChange when its sync fails, and Start
\* refuses it: whatever owns a session, its record is on stable storage.
THEOREM SpawnsAreRecorded == Spec => []SpawnOnDurableRecord
<1>1. IInv => SpawnOnDurableRecord
  BY DEF IInv, Binding, Bound, SpawnOnDurableRecord
<1> QED BY <1>1, InvInit, InvNext, PTL DEF Spec

-----------------------------------------------------------------------------
(* The promises of the store beyond that: capacity, one conclusion at most,  *)
(* one receipt for a session, receipts behind terminal states and answers,   *)
(* and the step simulation of ExecutionContract.                             *)
(*                                                                           *)
(* The argument adds to IInv                                                 *)
(*   Core     where a session stands: only a ready daemon has calls, owners  *)
(*            and sweeps; a command in flight has no receipt and no          *)
(*            publication; a publication finds no other receipt;             *)
(*   Room     the count of commands in flight, with the one being reserved;  *)
(*   Durable  behind terminal metadata stands its receipt, visible and synced; *)
(*   Honest   an exit is claimed only for a command that ran;                *)
(*   Answered what a client was shown is the receipt, visible and synced;    *)
(*   Untold   a command that may still be started was not shown an end.      *)
(*                                                                           *)
(* Two kinds of sessions are outside Durable and Answered.  A receipt whose  *)
(* sync fails is not synced by the retry, which finds the file equal, and    *)
(* the snapshot written after it syncs both, unless that sync fails as well: *)
(* such a session is doubted (AnswersAreDurable is refuted by it).  A sweep  *)
(* withdraws a session with its receipt.  Everything here holds for any      *)
(* number of failures and with or without sweeps.                            *)

\* Owners that have a command to run, or run it.
InFlightOwners == {"admitted", "spawned", "running"}

\* Outside "ready" no client call, owner or sweep is in progress.
Quiet ==
  daemon # "ready" => /\ admit.at = "free" /\ gc.at = "idle"
                      /\ \A s \in Sessions : owner[s] = "none"

\* A receipt belongs to a drawn session, and its synced copy is no other one; a
\* command in flight has neither receipt nor publication and holds its slot; an
\* owner that settles has a publication.
Lifecycle ==
  \A s \in Sessions :
    /\ receipt[s] # None => opOf[s] \in Ops
    /\ rcptSynced[s] \in {None, receipt[s]}
    /\ owner[s] \in InFlightOwners
         => /\ receipt[s] = None /\ pubAt[s] = "idle" /\ s \in active
            /\ metadata[s] \in {"starting", "running"}
    /\ owner[s] \in {"settling", "failing"} => pubAt[s] # "idle"

\* A publication has a receipt to write. Before its first write the session has
\* none or this one, after it this one.
Publishing ==
  \A s \in Sessions :
    /\ pubAt[s] # "idle" => pubRec[s] # None
    /\ pubAt[s] = "receipt" => receipt[s] \in {None, pubRec[s]}
    /\ pubAt[s] = "metadata" => receipt[s] = pubRec[s]

\* A reservation that created the record has not published anything for its
\* session, and what is compensated is being published; a sweep works on a
\* session that nobody owns, publishes or reserves.
Calls ==
  /\ admit.at = "compensate" => admit.created /\ pubAt[admit.session] # "idle"
  /\ admit.at = "metadata" /\ admit.created
       => /\ metadata[admit.session] \notin States
          /\ receipt[admit.session] = None /\ pubAt[admit.session] = "idle"
  /\ gc.at # "idle"
       => /\ owner[gc.session] = "none" /\ pubAt[gc.session] = "idle"
          /\ ~(admit.at # "free" /\ admit.created /\ admit.session = gc.session)

\* The commands in flight fit, and so does the one whose record was created
\* under the admission lock and which takes its slot with its metadata.
Room ==
  /\ Cardinality(InFlight) <= MaxSessions
  /\ admit.at = "metadata" /\ admit.created => Cardinality(InFlight) < MaxSessions

\* The states that claim that the command ran and ended.
Conclusive == Terminal \ {"failed", "abandoned"}
\* An exit is claimed only for a session whose command ran.
Honest ==
  \A s \in Sessions :
    /\ owner[s] \in {"spawned", "running"} => spawns[s] > 0
    /\ receipt[s] \in Conclusive \/ pubRec[s] \in Conclusive => spawns[s] > 0

\* Terminal metadata has the same receipt behind it, synced; metadata that is
\* terminal on stable storage is what is visible.
Durable ==
  \A s \in Sessions \ doubted :
    /\ metadata[s] \in Terminal => receipt[s] = metadata[s] /\ rcptSynced[s] = receipt[s]
    /\ metaSynced[s] \in Terminal => metadata[s] = metaSynced[s]

\* What a client was shown is the receipt, visible and synced.
Answered ==
  \A s \in Sessions \ (withdrawn \cup doubted) :
    shown[s] # None => receipt[s] = shown[s] /\ rcptSynced[s] = shown[s]

\* A session that a client was shown the end of is not about to start.
Untold ==
  \A s \in Sessions :
    shown[s] # None => /\ opOf[s] \in Ops /\ owner[s] # "admitted"
                       /\ ~(admit.at = "metadata" /\ admit.created /\ admit.session = s)

USE DEF opFiles, sessFiles, memory, history, bounds

\* The placeholders are none of the values they stand beside.
LEMMA NoneIsNothing ==
  /\ None \notin Sessions /\ None \notin Ops /\ None \notin Terminal
  /\ None \notin States /\ None # "empty" /\ "empty" \notin States
  /\ "starting" \notin Terminal /\ "running" \notin Terminal
  /\ "starting" \in States /\ "running" \in States /\ Terminal \subseteq States
BY SessionsAssumption, ExitAssumption DEF States, Terminal

\* What Halt leaves in memory.
LEMMA HaltLeaves ==
  ASSUME Halt
  PROVE  /\ daemon' = "down" /\ active' = {} /\ admit'.at = "free" /\ gc'.at = "idle"
         /\ \A s \in Sessions : owner'[s] = "none" /\ pubAt'[s] = "idle" /\ pubRec'[s] = None
BY DEF Halt, Free, GcIdle

\* Calls, owners and sweeps begin only when recovery is over, and end with the
\* daemon.
LEMMA QuietNext == IInv /\ Quiet /\ [Next]_vars => Quiet'
<1> SUFFICES ASSUME IInv, Quiet, [Next]_vars PROVE Quiet' OBVIOUS
<1> TypeOK BY DEF IInv
<1>1. CASE Admission
  BY <1>1 DEF Quiet, Admission, CreateOperation, ReplayOperation, EnsurePrivateDir,
              MetadataPresent, MetadataWritten, MetadataFails, MetadataAmbiguous, Free
<1>2. CASE Runtime
  BY <1>2 DEF Quiet, Runtime, ObservationFails, SpawnFails, Spawn, AdvanceSession,
              ProcessExits, Settle
<1>3. CASE Publication
  BY <1>3, HaltLeaves DEF Quiet, Publication, PublishReceipt, PublishMetadata,
     PublishReceiptFails,
              PublishMetadataFails, RetryOrHalt, Published, TypeOK, Free
<1>4. CASE Recovery
  BY <1>4, HaltLeaves DEF Quiet, Recovery, DaemonCrash, PowerLoss, Restart, FinishRecovery,
              RepairOperation, AbandonSession, BeginAbandon, UnreadableSession
<1>5. CASE Sweep
  BY <1>5 DEF Quiet, Sweep, CollectSession, RemoveRecord, WithdrawSession, WithdrawFails, GcIdle
<1>6. CASE \E s \in Sessions : Poll(s) BY <1>6 DEF Quiet, Poll
<1>7. CASE UNCHANGED vars BY <1>7 DEF Quiet, vars
<1> QED BY <1>1, <1>2, <1>3, <1>4, <1>5, <1>6, <1>7 DEF Next

\* Where sessions, publications, calls and sweeps stand.
Core == Quiet /\ Lifecycle /\ Publishing /\ Calls

\* A reservation, its replays and its failed or ambiguous writes.
LEMMA CoreAdmission == IInv /\ Core /\ Admission => (Lifecycle /\ Publishing /\ Calls)'
<1> SUFFICES ASSUME IInv, Core, Admission PROVE (Lifecycle /\ Publishing /\ Calls)' OBVIOUS
<1> TypeOK /\ References /\ Binding /\ Quiet /\ Lifecycle /\ Publishing /\ Calls
  BY DEF IInv, Core
<1> USE NoneIsNothing
<1>1. ASSUME NEW o \in Ops, NEW s \in Sessions, NEW r \in Results, CreateOperation(o, s, r)
      PROVE  (Lifecycle /\ Publishing /\ Calls)'
  <2>1. /\ receipt[s] = None /\ metadata[s] = None /\ pubAt[s] = "idle"
        /\ gc.at # "idle" => gc.session # s
    BY <1>1 DEF CreateOperation, References, Lifecycle, Drawn
  <2>2. UNCHANGED <<metadata, metaSynced, receipt, rcptSynced, active, owner, pubAt, pubRec, gc>>
    BY <1>1 DEF CreateOperation
  <2>3. Lifecycle' BY <1>1, <2>1, <2>2 DEF CreateOperation, Lifecycle, TypeOK
  <2>4. Publishing' BY <2>2 DEF Publishing
  <2>5. Calls' BY <1>1, <2>1, <2>2 DEF CreateOperation, Calls, Free
  <2> QED BY <2>3, <2>4, <2>5
<1>2. ASSUME NEW o \in Ops, ReplayOperation(o) PROVE (Lifecycle /\ Publishing /\ Calls)'
  BY <1>2 DEF ReplayOperation, Lifecycle, Publishing, Calls
<1>3. CASE MetadataPresent
  BY <1>3, CallSessions DEF MetadataPresent, Lifecycle, Publishing, Calls, Free, TypeOK
<1>4. CASE MetadataWritten
  <2>1. admit.session \in Sessions BY <1>4, CallSessions DEF MetadataWritten
  <2>2. Lifecycle' BY <1>4, <2>1 DEF MetadataWritten, WriteMetadata, SyncSession, Marked,
                                Lifecycle, Calls, InFlightOwners, TypeOK
  <2>3. Publishing' BY <1>4 DEF MetadataWritten, WriteMetadata, Publishing
  <2>4. Calls' BY <1>4, <2>1, CallSessions DEF MetadataWritten, Calls, Free, TypeOK
  <2> QED BY <2>2, <2>3, <2>4
<1>5. CASE MetadataFails
  BY <1>5 DEF MetadataFails, Lifecycle, Publishing, Calls, Free
<1>6. CASE MetadataAmbiguous
  <2>1. admit.session \in Sessions BY <1>6, CallSessions DEF MetadataAmbiguous
  <2>2. Lifecycle' BY <1>6, <2>1 DEF MetadataAmbiguous, WriteMetadata, SyncSession, Marked,
                                Lifecycle, Calls, Binding, InFlightOwners, TypeOK
  <2>3. Publishing'
    BY <1>6, <2>1 DEF MetadataAmbiguous, WriteMetadata, Publishing, Calls, TypeOK, Terminal
  <2>4. UNCHANGED <<owner, gc>> /\ (gc.at # "idle" => gc.session \in Sessions)
    BY <1>6, CallSessions DEF MetadataAmbiguous
  <2>5. CASE admit.created
    <3>1. /\ admit' = [at |-> "compensate", session |-> admit.session, created |-> TRUE]
          /\ pubAt' = [pubAt EXCEPT ![admit.session] = "receipt"]
      BY <1>6, <2>5, Zenon DEF MetadataAmbiguous
    <3>2. admit'.at = "compensate" /\ admit'.session = admit.session /\ admit'.created
      BY <3>1
    <3>3. gc.at # "idle" => admit.session # gc.session /\ pubAt'[gc.session] = "idle"
      BY <1>6, <2>1, <2>4, <2>5, <3>1 DEF MetadataAmbiguous, Calls, TypeOK
    <3>4. pubAt'[admit.session] = "receipt" BY <2>1, <3>1 DEF TypeOK
    <3>5. Calls' BY <2>4, <3>2, <3>3, <3>4 DEF Calls
    <3> QED BY <2>2, <2>3, <3>5
  <2>6. CASE ~admit.created
    <3>1. admit' = Free /\ UNCHANGED pubAt BY <1>6, <2>6, Zenon DEF MetadataAmbiguous
    <3>2. Calls' BY <2>4, <3>1 DEF Calls, Free
    <3> QED BY <2>2, <2>3, <3>2
  <2> QED BY <2>5, <2>6
<1>7. ASSUME NEW s \in Sessions, EnsurePrivateDir(s) PROVE (Lifecycle /\ Publishing /\ Calls)'
  <2>1. /\ \A t \in Sessions : metadata'[t] = IF t = s THEN "empty" ELSE metadata[t]
        /\ metadata[s] = None /\ UNCHANGED <<receipt, rcptSynced, active, admit, owner, pubAt,
                                             pubRec, gc, opOf>>
    BY <1>7 DEF EnsurePrivateDir, TypeOK
  <2>2. Lifecycle' BY <2>1 DEF Lifecycle
  <2>3. Publishing' BY <2>1 DEF Publishing
  <2>4. Calls' BY <2>1, CallSessions DEF Calls
  <2> QED BY <2>2, <2>3, <2>4
<1> QED BY <1>1, <1>2, <1>3, <1>4, <1>5, <1>6, <1>7 DEF Admission

\* The owner of a session: spawn, running metadata, exit, failures.
LEMMA CoreRuntime == IInv /\ Core /\ Runtime => (Lifecycle /\ Publishing /\ Calls)'
<1> SUFFICES ASSUME IInv, Core, NEW s \in Sessions,
                    \/ ObservationFails(s) \/ SpawnFails(s) \/ Spawn(s)
                    \/ \E r \in Results : AdvanceSession(s, r)
                    \/ \E v \in ExitStates : ProcessExits(s, v)
             PROVE  (Lifecycle /\ Publishing /\ Calls)'
  BY DEF Runtime
<1> TypeOK /\ Binding /\ Lifecycle /\ Publishing /\ Calls BY DEF IInv, Core
<1> USE NoneIsNothing
<1>1. owner[s] \in InFlightOwners
  BY DEF ObservationFails, SpawnFails, Spawn, AdvanceSession, ProcessExits, InFlightOwners
<1>2. ASSUME NEW as \in {"settling", "failing"}, NEW v \in Terminal, Settle(s, as, v),
             UNCHANGED <<metadata, receipt, rcptSynced, active, admit, gc, opOf>>
      PROVE  (Lifecycle /\ Publishing /\ Calls)'
  <2>1. Lifecycle' BY <1>1, <1>2 DEF Settle, Lifecycle, InFlightOwners, TypeOK
  <2>2. Publishing' BY <1>1, <1>2 DEF Settle, Lifecycle, Publishing, InFlightOwners, TypeOK
  <2>3. Calls' BY <1>1, <1>2 DEF Settle, Calls, InFlightOwners, Binding, TypeOK
  <2> QED BY <2>1, <2>2, <2>3
<1>3. CASE ObservationFails(s) BY <1>2, <1>3 DEF ObservationFails, Terminal
<1>4. CASE SpawnFails(s) BY <1>2, <1>4 DEF SpawnFails, Terminal
<1>5. CASE Spawn(s)
  BY <1>1, <1>5, CallSessions DEF Spawn, Lifecycle, Publishing, Calls, InFlightOwners, TypeOK
<1>6. ASSUME NEW r \in Results, AdvanceSession(s, r) PROVE (Lifecycle /\ Publishing /\ Calls)'
  <2>1. Lifecycle'
    BY <1>1, <1>6 DEF AdvanceSession, WriteMetadata, SyncSession, Marked, Lifecycle,
       InFlightOwners, TypeOK
  <2>2. Publishing' BY <1>6 DEF AdvanceSession, WriteMetadata, Publishing
  <2>3. Calls'
    BY <1>1, <1>6, CallSessions DEF AdvanceSession, WriteMetadata, Calls, Binding,
       InFlightOwners, TypeOK
  <2> QED BY <2>1, <2>2, <2>3
<1>7. ASSUME NEW v \in ExitStates, ProcessExits(s, v) PROVE (Lifecycle /\ Publishing /\ Calls)'
  BY <1>2, <1>7, ExitAssumption DEF ProcessExits
<1> QED BY <1>3, <1>4, <1>5, <1>6, <1>7

\* PublishTerminal, its failed writes, the retries and the stop during
\* recovery.
LEMMA CorePublication == IInv /\ Core /\ Publication => (Lifecycle /\ Publishing /\ Calls)'
<1> SUFFICES ASSUME IInv, Core, NEW s \in Sessions,
                    \/ PublishReceipt(s) \/ PublishMetadata(s)
                    \/ \E r \in Failures : PublishReceiptFails(s, r) \/ PublishMetadataFails(s, r)
             PROVE  (Lifecycle /\ Publishing /\ Calls)'
  BY DEF Publication
<1> TypeOK /\ References /\ Binding /\ Lifecycle /\ Publishing /\ Calls BY DEF IInv, Core
<1> USE NoneIsNothing
<1>1. /\ pubAt[s] # "idle" /\ owner[s] \notin InFlightOwners /\ opOf[s] \in Ops
      /\ pubRec[s] \in Terminal
      /\ gc.at # "idle" => gc.session # s
  BY DEF PublishReceipt, PublishMetadata, PublishReceiptFails, PublishMetadataFails, Lifecycle,
         References, Publishing, Calls, TypeOK
<1>2. CASE PublishReceipt(s)
  <2>1. Lifecycle'
    BY <1>1, <1>2 DEF PublishReceipt, WriteReceipt, SyncSession, Lifecycle, TypeOK
  <2>2. Publishing' BY <1>1, <1>2 DEF PublishReceipt, WriteReceipt, Publishing, TypeOK
  <2>3. Calls' BY <1>1, <1>2, CallSessions DEF PublishReceipt, WriteReceipt, Calls, TypeOK
  <2> QED BY <2>1, <2>2, <2>3
<1>3. CASE PublishMetadata(s)
  <2>1. Lifecycle'
    BY <1>1, <1>3 DEF PublishMetadata, Published, WriteMetadata, SyncSession, Marked, Lifecycle,
                      InFlightOwners, TypeOK
  <2>2. Publishing'
    BY <1>1, <1>3 DEF PublishMetadata, Published, WriteMetadata, Publishing, TypeOK
  <2>3. /\ UNCHANGED <<receipt, gc>> /\ admit' \in {admit, Free}
        /\ admit.at = "compensate" /\ admit.session = s => admit' = Free
    BY <1>3 DEF PublishMetadata, Published, WriteMetadata
  <2>4. \A t \in Sessions : t # s => /\ metadata'[t] = metadata[t] /\ pubAt'[t] = pubAt[t]
                                    /\ owner'[t] = owner[t]
    BY <1>3 DEF PublishMetadata, Published, WriteMetadata, TypeOK
  <2>5. Calls' BY <1>1, <2>3, <2>4, CallSessions DEF Calls, Free
  <2> QED BY <2>1, <2>2, <2>5
<1>4. ASSUME NEW r \in Failures, NEW index, RetryOrHalt(s, index),
             \A t \in Sessions : owner[t] \in InFlightOwners /\ t \in active => t \in index,
             \A t \in Sessions : t # s => /\ receipt'[t] = receipt[t] /\ metadata'[t] = metadata[t]
                                         /\ rcptSynced'[t] = rcptSynced[t],
             receipt'[s] \in {receipt[s], pubRec[s]}, receipt[s] \in {None, pubRec[s]},
             rcptSynced'[s] \in {rcptSynced[s], receipt'[s]}, opOf' = opOf
      PROVE  (Lifecycle /\ Publishing /\ Calls)'
  <2>1. CASE daemon = "recovering"
    <3>1. Halt BY <1>4, <2>1 DEF RetryOrHalt
    <3> QED BY <1>1, <1>4, <3>1, HaltLeaves DEF Lifecycle, Publishing, Calls, InFlightOwners
  <2>2. CASE daemon # "recovering"
    <3>1. /\ pubAt' = [pubAt EXCEPT ![s] = "receipt"] /\ active' = index
          /\ UNCHANGED <<daemon, admit, owner, pubRec, gc>>
      BY <1>4, <2>2 DEF RetryOrHalt
    <3>2. Lifecycle' BY <1>1, <1>4, <3>1 DEF Lifecycle, TypeOK
    <3>3. Publishing' BY <1>1, <1>4, <3>1 DEF Publishing, TypeOK
    <3>4. Calls' BY <1>1, <1>4, <3>1, CallSessions DEF Calls, TypeOK
    <3> QED BY <3>2, <3>3, <3>4
  <2> QED BY <2>1, <2>2
<1>5. ASSUME NEW r \in Failures, PublishReceiptFails(s, r)
      PROVE  (Lifecycle /\ Publishing /\ Calls)'
  <2>1. RetryOrHalt(s, active) /\ opOf' = opOf BY <1>5 DEF PublishReceiptFails
  <2>2. /\ \A t \in Sessions : t # s => /\ receipt'[t] = receipt[t] /\ metadata'[t] = metadata[t]
                                       /\ rcptSynced'[t] = rcptSynced[t]
        /\ receipt'[s] \in {receipt[s], pubRec[s]} /\ receipt[s] = None
        /\ rcptSynced'[s] \in {rcptSynced[s], receipt'[s]}
    BY <1>5 DEF PublishReceiptFails, WriteReceipt, SyncSession, TypeOK
  <2> QED BY <1>4, <2>1, <2>2
<1>6. ASSUME NEW r \in Failures, PublishMetadataFails(s, r)
      PROVE  (Lifecycle /\ Publishing /\ Calls)'
  <2>1. RetryOrHalt(s, Marked(s, pubRec[s], r)) /\ opOf' = opOf BY <1>6 DEF PublishMetadataFails
  <2>2. /\ \A t \in Sessions : t # s => /\ receipt'[t] = receipt[t] /\ metadata'[t] = metadata[t]
                                       /\ rcptSynced'[t] = rcptSynced[t]
        /\ receipt'[s] = receipt[s] /\ receipt[s] = pubRec[s]
        /\ rcptSynced'[s] \in {rcptSynced[s], receipt'[s]}
    BY <1>6 DEF PublishMetadataFails, WriteMetadata, SyncSession, Publishing, TypeOK
  <2>3. \A t \in Sessions : owner[t] \in InFlightOwners /\ t \in active => t \in Marked(s, pubRec[s], r)
    BY <1>1 DEF Marked
  <2> QED BY <1>4, <2>1, <2>2, <2>3
<1> QED BY <1>2, <1>3, <1>5, <1>6

\* Stops, power losses and the steps of the next start.
LEMMA CoreRecovery == IInv /\ Core /\ Recovery => (Lifecycle /\ Publishing /\ Calls)'
<1> SUFFICES ASSUME IInv, Core, Recovery PROVE (Lifecycle /\ Publishing /\ Calls)' OBVIOUS
<1> TypeOK /\ References /\ Quiet /\ Lifecycle /\ Publishing /\ Calls BY DEF IInv, Core
<1> USE NoneIsNothing
<1>1. ASSUME Halt, \A s \in Sessions : /\ receipt'[s] # None => opOf'[s] \in Ops
                                       /\ rcptSynced'[s] \in {None, receipt'[s]}
      PROVE  (Lifecycle /\ Publishing /\ Calls)'
  BY <1>1, HaltLeaves DEF Lifecycle, Publishing, Calls, InFlightOwners
<1>2. CASE DaemonCrash BY <1>1, <1>2 DEF DaemonCrash, Lifecycle
<1>3. CASE PowerLoss
  <2>1. \A s \in Sessions : receipt'[s] \in {receipt[s], rcptSynced[s]}
    BY <1>3 DEF PowerLoss
  <2> QED BY <1>1, <1>3, <2>1 DEF PowerLoss, Lifecycle
<1>4. CASE Restart BY <1>4 DEF Restart, Lifecycle, Publishing, Calls
<1>5. CASE FinishRecovery
  BY <1>5 DEF FinishRecovery, Quiet, Lifecycle, Publishing, Calls, InFlightOwners
<1>6. ASSUME NEW o \in Ops, NEW r \in Results, RepairOperation(o, r)
      PROVE  (Lifecycle /\ Publishing /\ Calls)'
  <2>1. opRecord[o] \in Sessions BY <1>6 DEF RepairOperation, Unrepaired, TypeOK
  <2>2. /\ receipt' = receipt /\ opOf' = opOf
        /\ \A s \in Sessions : rcptSynced'[s] \in {rcptSynced[s], receipt[s]}
    BY <1>6, <2>1 DEF RepairOperation, WriteMetadata, SyncSession, TypeOK
  <2>3. CASE r = "durable"
    <3>1. UNCHANGED <<daemon, admit, owner, pubAt, pubRec, gc>>
      BY <1>6, <2>3 DEF RepairOperation
    <3>2. daemon = "recovering" BY <1>6 DEF RepairOperation
    <3> QED BY <2>2, <3>1, <3>2 DEF Lifecycle, Publishing, Calls, Quiet, InFlightOwners
  <2>4. CASE r # "durable" BY <1>1, <1>6, <2>2, <2>4 DEF RepairOperation, Lifecycle
  <2> QED BY <2>3, <2>4
<1>7. ASSUME NEW s \in Sessions, AbandonSession(s) PROVE (Lifecycle /\ Publishing /\ Calls)'
  <2>1. Lifecycle'
    BY <1>7 DEF AbandonSession, BeginAbandon, Lifecycle, Quiet, InFlightOwners, TypeOK
  <2>2. Publishing' BY <1>7 DEF AbandonSession, BeginAbandon, Publishing, Terminal, TypeOK
  <2>3. Calls' BY <1>7 DEF AbandonSession, BeginAbandon, Calls, Quiet
  <2> QED BY <2>1, <2>2, <2>3
<1>8. ASSUME NEW s \in Sessions, UnreadableSession(s) PROVE (Lifecycle /\ Publishing /\ Calls)'
  BY <1>1, <1>8 DEF UnreadableSession, Lifecycle
<1> QED BY <1>2, <1>3, <1>4, <1>5, <1>6, <1>7, <1>8 DEF Recovery

\* A sweep removes record and directory of a session nobody works on.
LEMMA CoreSweep == IInv /\ Core /\ Sweep => (Lifecycle /\ Publishing /\ Calls)'
<1> SUFFICES ASSUME IInv, Core, Sweep PROVE (Lifecycle /\ Publishing /\ Calls)' OBVIOUS
<1> TypeOK /\ References /\ Lifecycle /\ Publishing /\ Calls BY DEF IInv, Core
<1> USE NoneIsNothing
<1>1. ASSUME NEW s \in Sessions, CollectSession(s) PROVE (Lifecycle /\ Publishing /\ Calls)'
  <2>1. owner[s] = "none" BY <1>1 DEF CollectSession, Lifecycle, InFlightOwners, TypeOK, Owners
  <2>2. ~(admit.at # "free" /\ admit.created /\ admit.session = s)
    BY <1>1 DEF CollectSession, Calls, Binding, TypeOK
  <2> QED BY <1>1, <2>1, <2>2 DEF CollectSession, Lifecycle, Publishing, Calls
<1>2. CASE RemoveRecord BY <1>2 DEF RemoveRecord, Lifecycle, Publishing, Calls
<1>3. CASE WithdrawSession
  <2>1. gc.session \in Sessions BY <1>3, CallSessions DEF WithdrawSession
  <2>2. Lifecycle' BY <1>3, <2>1 DEF WithdrawSession, Lifecycle, Calls, InFlightOwners, TypeOK
  <2>3. Publishing' BY <1>3, <2>1 DEF WithdrawSession, Publishing, Calls, TypeOK
  <2>4. Calls' BY <1>3, <2>1, CallSessions DEF WithdrawSession, Calls, GcIdle, TypeOK
  <2> QED BY <2>2, <2>3, <2>4
<1>4. CASE WithdrawFails BY <1>4 DEF WithdrawFails, Lifecycle, Publishing, Calls, GcIdle
<1> QED BY <1>1, <1>2, <1>3, <1>4 DEF Sweep

\* Core is inductive relative to IInv.
LEMMA CoreNext == IInv /\ Core /\ [Next]_vars => Core'
<1> SUFFICES ASSUME IInv, Core, [Next]_vars PROVE Core' OBVIOUS
<1>1. CASE \E s \in Sessions : Poll(s)
  BY <1>1 DEF Poll, Core, Lifecycle, Publishing, Calls, Quiet
<1>2. CASE UNCHANGED vars BY <1>2 DEF vars, Core, Lifecycle, Publishing, Calls, Quiet
<1>3. Quiet' BY QuietNext DEF Core
<1> QED
  BY <1>1, <1>2, <1>3, CoreAdmission, CoreRuntime, CorePublication, CoreRecovery, CoreSweep
        DEF Next, Core

\* A fresh store.
LEMMA CoreInit == Init => Core
BY NoneIsNothing DEF Init, Core, Quiet, Lifecycle, Publishing, Calls, Free, GcIdle,
   InFlightOwners

-----------------------------------------------------------------------------
\* The sets that capacity counts are finite, and members come and go one by
\* one.
LEMMA InFlightFinite ==
  /\ IsFiniteSet(InFlight) /\ Cardinality(InFlight) \in Nat
  /\ IsFiniteSet(InFlight') /\ Cardinality(InFlight') \in Nat
<1> InFlight \subseteq Sessions /\ InFlight' \subseteq Sessions BY DEF InFlight
<1> QED BY SessionsAssumption, FS_Subset, FS_CardinalityType

\* A step that admits nothing.
LEMMA RoomKept ==
  ASSUME Room, \A s \in Sessions : owner'[s] \in InFlightOwners => owner[s] \in InFlightOwners,
         admit'.at = "metadata" /\ admit'.created => admit.at = "metadata" /\ admit.created
  PROVE  Room'
<1>1. InFlight' \subseteq InFlight BY DEF InFlight, InFlightOwners
<1>2. Cardinality(InFlight') <= Cardinality(InFlight) BY <1>1, InFlightFinite, FS_Subset
<1> QED BY <1>2, InFlightFinite, BoundsAssumption DEF Room

\* Only a session that was counted when its record was created, under the same
\* admission lock, becomes a command in flight.
LEMMA RoomNext == IInv /\ Core /\ Room /\ [Next]_vars => Room'
<1> SUFFICES ASSUME IInv, Core, Room, [Next]_vars PROVE Room' OBVIOUS
<1> TypeOK /\ Quiet /\ Lifecycle /\ Calls BY DEF IInv, Core
<1>1. ASSUME NEW o \in Ops, NEW s \in Sessions, NEW r \in Results, CreateOperation(o, s, r)
      PROVE  Room'
  <2>1. InFlight \subseteq active /\ active \subseteq Sessions
    BY DEF InFlight, Lifecycle, InFlightOwners, TypeOK
  <2>2. IsFiniteSet(active) /\ Cardinality(InFlight) <= Cardinality(active)
    BY <2>1, SessionsAssumption, FS_Subset
  <2>3. Cardinality(active) \in Nat /\ Cardinality(active) < MaxSessions
    BY <1>1, <2>2, FS_CardinalityType DEF CreateOperation
  <2>4. InFlight' = InFlight BY <1>1 DEF CreateOperation, InFlight
  <2> QED BY <2>2, <2>3, <2>4, InFlightFinite, BoundsAssumption DEF Room
<1>2. ASSUME admit.at = "metadata", admit' = Free,
             owner' = IF admit.created THEN [owner EXCEPT ![admit.session] = "admitted"] ELSE owner
      PROVE  Room'
  <2>1. admit'.at = "free" BY <1>2 DEF Free
  <2>2. CASE ~admit.created BY <1>2, <2>1, <2>2, RoomKept
  <2>3. CASE admit.created
    <3>1. InFlight' \subseteq InFlight \cup {admit.session}
      BY <1>2, <2>3 DEF InFlight, TypeOK
    <3>2. /\ IsFiniteSet(InFlight \cup {admit.session})
          /\ Cardinality(InFlight \cup {admit.session})
               = IF admit.session \in InFlight THEN Cardinality(InFlight) ELSE Cardinality(InFlight) + 1
      BY InFlightFinite, FS_AddElement, Zenon
    <3>3. Cardinality(InFlight') <= Cardinality(InFlight \cup {admit.session})
      BY <3>1, <3>2, FS_Subset
    <3>4. Cardinality(InFlight \cup {admit.session}) \in Nat BY <3>2, FS_CardinalityType
    <3> QED BY <1>2, <2>1, <2>3, <3>2, <3>3, <3>4, InFlightFinite, BoundsAssumption DEF Room
  <2> QED BY <2>2, <2>3
<1>3. CASE MetadataPresent BY <1>2, <1>3 DEF MetadataPresent
<1>4. CASE MetadataWritten BY <1>2, <1>4 DEF MetadataWritten
<1>5. CASE \/ \E o \in Ops : ReplayOperation(o)
           \/ \E s \in Sessions : EnsurePrivateDir(s)
           \/ MetadataFails \/ MetadataAmbiguous
  BY <1>5, RoomKept DEF ReplayOperation, EnsurePrivateDir, MetadataFails, MetadataAmbiguous, Free
<1>6. CASE Runtime
  <2>1. PICK s \in Sessions : \/ ObservationFails(s) \/ SpawnFails(s) \/ Spawn(s)
                              \/ \E r \in Results : AdvanceSession(s, r)
                              \/ \E v \in ExitStates : ProcessExits(s, v)
    BY <1>6 DEF Runtime
  <2>2. admit' = admit /\ \A t \in Sessions : owner'[t] \in InFlightOwners => owner[t] \in InFlightOwners
    BY <2>1 DEF ObservationFails, SpawnFails, Spawn, AdvanceSession, ProcessExits, Settle,
                InFlightOwners, TypeOK
  <2> QED BY <2>2, RoomKept
<1>7. CASE Publication
  <2>1. /\ admit' = admit \/ admit'.at = "free"
        /\ \A t \in Sessions : owner'[t] \in InFlightOwners => owner[t] \in InFlightOwners
    BY <1>7, HaltLeaves DEF Publication, PublishReceipt, PublishMetadata, PublishReceiptFails,
       PublishMetadataFails, RetryOrHalt, Published, InFlightOwners, TypeOK, Free
  <2> QED BY <2>1, RoomKept
<1>8. CASE Recovery
  <2>1. /\ admit' = admit \/ admit'.at = "free"
        /\ \A t \in Sessions : owner'[t] \in InFlightOwners => owner[t] \in InFlightOwners
    BY <1>8, HaltLeaves DEF Recovery, DaemonCrash, PowerLoss, Restart, FinishRecovery,
       RepairOperation, AbandonSession, BeginAbandon, UnreadableSession, InFlightOwners
  <2> QED BY <2>1, RoomKept
<1>9. CASE Sweep \/ (\E s \in Sessions : Poll(s)) \/ UNCHANGED vars
  <2>1. UNCHANGED <<admit, owner>>
    BY <1>9 DEF Sweep, CollectSession, RemoveRecord, WithdrawSession, WithdrawFails, Poll, vars
  <2> QED BY <2>1, RoomKept
<1> QED BY <1>1, <1>3, <1>4, <1>5, <1>6, <1>7, <1>8, <1>9 DEF Next, Admission

\* A fresh store.
LEMMA RoomInit == Init => Room
<1> SUFFICES ASSUME Init PROVE Room OBVIOUS
<1>1. InFlight = {} BY DEF Init, InFlight
<1> QED BY <1>1, FS_EmptySet, BoundsAssumption DEF Init, Room, Free

-----------------------------------------------------------------------------
\* A step that touches neither receipts nor metadata.
LEMMA DurableKept ==
  ASSUME Durable, doubted \subseteq doubted',
         UNCHANGED <<metadata, metaSynced, receipt, rcptSynced>>
  PROVE  Durable'
BY DEF Durable

\* A snapshot that is not terminal replaces one that is not.
LEMMA DurableSnapshot ==
  ASSUME TypeOK, Durable, doubted' = doubted, NEW s \in Sessions, NEW r,
         NEW v \in {"starting", "running"}, metadata[s] \notin Terminal, WriteMetadata(s, v, r)
  PROVE  Durable'
<1>1. receipt' = receipt /\ \A t \in Sessions : rcptSynced'[t] \in {rcptSynced[t], receipt[t]}
  BY DEF WriteMetadata, SyncSession, TypeOK
<1>2. \A t \in Sessions : rcptSynced[t] = receipt[t] => rcptSynced'[t] = receipt'[t] BY <1>1
<1>3. \A t \in Sessions : metadata'[t] \in Terminal => metadata'[t] = metadata[t]
  BY NoneIsNothing DEF WriteMetadata, TypeOK
<1>4. \A t \in Sessions \ doubted : metaSynced'[t] \in Terminal => metadata'[t] = metaSynced'[t]
  BY NoneIsNothing DEF WriteMetadata, SyncSession, TypeOK, Durable
<1> QED BY <1>1, <1>2, <1>3, <1>4 DEF Durable

\* The terminal snapshot of a session whose receipt is in place: either it or
\* the receipt was synced, or the session is doubted from now on.
LEMMA DurableTerminal ==
  ASSUME TypeOK, Durable, NEW s \in Sessions, NEW v \in Terminal, NEW r \in Results,
         receipt[s] = v, metadata[s] # v, WriteMetadata(s, v, r), doubted \subseteq doubted',
         r = "ambiguous" /\ rcptSynced[s] # receipt[s] => s \in doubted'
  PROVE  Durable'
<1>0. s \notin doubted => metadata[s] \notin Terminal /\ metaSynced[s] \notin Terminal
  BY DEF Durable
<1>1. receipt' = receipt /\ \A t \in Sessions : rcptSynced'[t] \in {rcptSynced[t], receipt[t]}
  BY DEF WriteMetadata, SyncSession, TypeOK
<1>2. \A t \in Sessions : rcptSynced[t] = receipt[t] => rcptSynced'[t] = receipt'[t] BY <1>1
<1>3. \A t \in Sessions \ doubted' : metadata'[t] \in Terminal =>
        receipt'[t] = metadata'[t] /\ rcptSynced'[t] = receipt'[t]
  <2> SUFFICES ASSUME NEW t \in Sessions \ doubted', metadata'[t] \in Terminal
               PROVE  receipt'[t] = metadata'[t] /\ rcptSynced'[t] = receipt'[t]
    OBVIOUS
  <2>1. CASE metadata'[t] = metadata[t] BY <1>1, <1>2, <2>1 DEF Durable
  <2>2. CASE metadata'[t] # metadata[t]
    <3>1. t = s /\ metadata'[t] = v /\ r # "none" BY <2>2 DEF WriteMetadata, TypeOK
    <3>2. CASE r = "durable" BY <1>1, <3>1, <3>2 DEF WriteMetadata, SyncSession, TypeOK
    <3>3. CASE r # "durable" BY <1>1, <1>2, <3>1, <3>3 DEF Results
    <3> QED BY <3>2, <3>3
  <2> QED BY <2>1, <2>2
<1>4. \A t \in Sessions \ doubted' : metaSynced'[t] \in Terminal => metadata'[t] = metaSynced'[t]
  BY <1>0 DEF WriteMetadata, SyncSession, TypeOK, Durable, Results
<1> QED BY <1>1, <1>2, <1>3, <1>4 DEF Durable

\* Every write of a receipt or of metadata, with each of its results, and every
\* power loss.
LEMMA DurableNext == IInv /\ Core /\ Durable /\ [Next]_vars => Durable'
<1> SUFFICES ASSUME IInv, Core, Durable, [Next]_vars PROVE Durable' OBVIOUS
<1> TypeOK /\ Lifecycle /\ Publishing /\ Calls BY DEF IInv, Core
<1> USE NoneIsNothing
<1>1. CASE \/ \E o \in Ops : \/ \E s \in Sessions, r \in Results : CreateOperation(o, s, r)
                             \/ ReplayOperation(o)
           \/ MetadataPresent
  BY <1>1, DurableKept DEF CreateOperation, ReplayOperation, MetadataPresent
<1>2. CASE MetadataWritten \/ MetadataAmbiguous
  <2>1. /\ admit.session \in Sessions /\ metadata[admit.session] \notin Terminal
        /\ \E r : WriteMetadata(admit.session, "starting", r)
        /\ doubted' = doubted
    BY <1>2, CallSessions DEF MetadataWritten, MetadataAmbiguous
  <2> QED BY <2>1, DurableSnapshot
<1>3. CASE MetadataFails BY <1>3, DurableKept DEF MetadataFails
<1>4. CASE Runtime
  <2>1. PICK s \in Sessions : \/ ObservationFails(s) \/ SpawnFails(s) \/ Spawn(s)
                              \/ \E r \in Results : AdvanceSession(s, r)
                              \/ \E v \in ExitStates : ProcessExits(s, v)
    BY <1>4 DEF Runtime
  <2>2. doubted' = doubted
    BY <2>1 DEF ObservationFails, SpawnFails, Spawn, AdvanceSession, ProcessExits
  <2>3. ASSUME NEW r \in Results, AdvanceSession(s, r) PROVE Durable'
    <3> metadata[s] \notin Terminal /\ WriteMetadata(s, "running", r)
      BY <2>3 DEF AdvanceSession, Lifecycle, InFlightOwners
    <3> QED BY <2>2, DurableSnapshot
  <2> QED BY <2>1, <2>2, <2>3, DurableKept DEF ObservationFails, SpawnFails, Spawn, ProcessExits
<1>5. ASSUME NEW s \in Sessions, PublishReceipt(s) PROVE Durable'
  <2>1. CASE UNCHANGED <<metadata, metaSynced, receipt, rcptSynced>>
    BY <1>5, <2>1, DurableKept DEF PublishReceipt
  <2>2. CASE receipt[s] = None /\ WriteReceipt(s, pubRec[s], "durable")
    <3> s \notin doubted => metadata[s] \notin Terminal /\ metaSynced[s] \notin Terminal
      BY <2>2 DEF Durable
    <3> QED BY <1>5, <2>2 DEF PublishReceipt, WriteReceipt, SyncSession, Durable, TypeOK
  <2> QED BY <1>5, <2>1, <2>2 DEF PublishReceipt
<1>6. ASSUME NEW s \in Sessions, NEW r \in Failures, PublishReceiptFails(s, r) PROVE Durable'
  <2>1. /\ receipt[s] = None /\ UNCHANGED <<metadata, metaSynced, rcptSynced>>
        /\ \A t \in Sessions : t # s => receipt'[t] = receipt[t]
        /\ doubted' = doubted
    BY <1>6 DEF PublishReceiptFails, WriteReceipt, SyncSession, Failures, TypeOK
  <2>2. s \notin doubted => metadata[s] \notin Terminal BY <2>1 DEF Durable
  <2> QED BY <2>1, <2>2 DEF Durable
<1>7. ASSUME NEW s \in Sessions, PublishMetadata(s) PROVE Durable'
  <2>1. pubRec[s] \in Terminal /\ receipt[s] = pubRec[s] /\ doubted' = doubted /\ "durable" \in Results
    BY <1>7 DEF PublishMetadata, Publishing, TypeOK, Results
  <2>2. CASE metadata[s] = pubRec[s]
    BY <1>7, <2>1, <2>2, DurableKept DEF PublishMetadata
  <2>3. CASE metadata[s] # pubRec[s] BY <1>7, <2>1, <2>3, DurableTerminal DEF PublishMetadata
  <2> QED BY <2>2, <2>3
<1>8. ASSUME NEW s \in Sessions, NEW r \in Failures, PublishMetadataFails(s, r) PROVE Durable'
  <2>1. pubRec[s] \in Terminal /\ receipt[s] = pubRec[s] /\ r \in Results
    BY <1>8 DEF PublishMetadataFails, Publishing, TypeOK, Results, Failures
  <2> QED BY <1>8, <2>1, DurableTerminal DEF PublishMetadataFails
<1>9. CASE PowerLoss
  <2>1. /\ \A s \in Sessions : /\ metadata'[s] \in {metadata[s], metaSynced[s]}
                              /\ receipt'[s] \in {receipt[s], rcptSynced[s]}
        /\ metaSynced' = metadata' /\ rcptSynced' = receipt' /\ doubted' = doubted
    BY <1>9 DEF PowerLoss
  <2> QED BY <2>1 DEF Durable
<1>10. ASSUME NEW o \in Ops, NEW r \in Results, RepairOperation(o, r) PROVE Durable'
  <2>1. /\ opRecord[o] \in Sessions /\ metadata[opRecord[o]] \notin Terminal
        /\ doubted' = doubted /\ WriteMetadata(opRecord[o], "starting", r)
    BY <1>10, NoneIsNothing DEF RepairOperation, Unrepaired, TypeOK
  <2> QED BY <2>1, DurableSnapshot
<1>11. CASE \/ DaemonCrash \/ Restart \/ FinishRecovery
            \/ \E s \in Sessions : AbandonSession(s) \/ UnreadableSession(s)
  BY <1>11, DurableKept DEF DaemonCrash, Restart, FinishRecovery, AbandonSession, BeginAbandon,
                            UnreadableSession
<1>12. CASE \/ \E s \in Sessions : CollectSession(s)
            \/ RemoveRecord \/ WithdrawFails
  BY <1>12, DurableKept DEF CollectSession, RemoveRecord, WithdrawFails
<1>13. CASE WithdrawSession
  <2> gc.session \in Sessions BY <1>13, CallSessions DEF WithdrawSession
  <2> QED BY <1>13 DEF WithdrawSession, Durable, TypeOK
<1>14. CASE (\E s \in Sessions : Poll(s)) \/ UNCHANGED vars
  BY <1>14, DurableKept DEF Poll, vars
<1>15. ASSUME NEW s \in Sessions, EnsurePrivateDir(s) PROVE Durable'
  <2>1. /\ \A t \in Sessions : metadata'[t] = IF t = s THEN "empty" ELSE metadata[t]
        /\ metadata[s] = None /\ UNCHANGED <<metaSynced, receipt, rcptSynced, doubted>>
    BY <1>15 DEF EnsurePrivateDir, TypeOK
  <2> QED BY <2>1 DEF Durable, Terminal
<1> QED
  BY <1>1, <1>2, <1>3, <1>4, <1>5, <1>6, <1>7, <1>8, <1>9, <1>10, <1>11, <1>12, <1>13, <1>14, <1>15
        DEF Next, Admission, Publication, Recovery, Sweep

\* A fresh store.
LEMMA DurableInit == Init => Durable
BY NoneIsNothing DEF Init, Durable

-----------------------------------------------------------------------------
\* A step that writes no receipt and begins no publication that claims an exit.
LEMMA HonestKept ==
  ASSUME TypeOK, Honest, receipt' = receipt, UNCHANGED spawns,
         \A s \in Sessions : /\ pubRec'[s] \in {None, "abandoned", pubRec[s]}
                             /\ owner'[s] \in {"spawned", "running"} => owner[s] \in {"spawned", "running"}
  PROVE  Honest'
BY NoneIsNothing DEF Honest, Conclusive

\* Publications that claim an exit begin in ProcessExits only.
LEMMA HonestNext == IInv /\ Core /\ Honest /\ [Next]_vars => Honest'
<1> SUFFICES ASSUME IInv, Core, Honest, [Next]_vars PROVE Honest' OBVIOUS
<1> TypeOK /\ Lifecycle /\ Publishing BY DEF IInv, Core
<1> USE NoneIsNothing
<1>1. CASE Admission
  <2>1. admit.at # "free" => admit.session \in Sessions BY CallSessions
  <2>2. receipt' = receipt /\ spawns' = spawns
    BY <1>1 DEF Admission, CreateOperation, ReplayOperation, EnsurePrivateDir, MetadataPresent,
                MetadataWritten, MetadataFails, MetadataAmbiguous, WriteMetadata
  <2>3. \A s \in Sessions : /\ pubRec'[s] \in {None, "abandoned", pubRec[s]}
                            /\ owner'[s] \in {"spawned", "running"} => owner[s] \in {"spawned", "running"}
    BY <1>1, <2>1 DEF Admission, CreateOperation, ReplayOperation, EnsurePrivateDir,
         MetadataPresent, MetadataWritten, MetadataFails, MetadataAmbiguous, TypeOK
  <2> QED BY <2>2, <2>3, HonestKept
<1>2. CASE Runtime
  <2>1. PICK s \in Sessions : \/ ObservationFails(s) \/ SpawnFails(s) \/ Spawn(s)
                              \/ \E r \in Results : AdvanceSession(s, r)
                              \/ \E v \in ExitStates : ProcessExits(s, v)
    BY <1>2 DEF Runtime
  <2> QED BY <2>1 DEF ObservationFails, SpawnFails, Spawn, AdvanceSession, ProcessExits, Settle,
                      WriteMetadata, Honest, Conclusive, TypeOK
<1>3. CASE Publication
  <2>1. PICK s \in Sessions :
          \/ PublishReceipt(s) \/ PublishMetadata(s)
          \/ \E r \in Failures : PublishReceiptFails(s, r) \/ PublishMetadataFails(s, r)
    BY <1>3 DEF Publication
  <2>2. /\ \A t \in Sessions : receipt'[t] \in {receipt[t], pubRec[t]}
        /\ spawns' = spawns
    BY <2>1 DEF PublishReceipt, PublishMetadata, PublishReceiptFails, PublishMetadataFails,
                WriteReceipt, WriteMetadata, TypeOK
  <2>3. \A t \in Sessions : /\ pubRec'[t] \in {None, pubRec[t]}
                            /\ owner'[t] \in {"spawned", "running"} => owner[t] \in {"spawned", "running"}
    BY <2>1, HaltLeaves DEF PublishReceipt, PublishMetadata, PublishReceiptFails,
       PublishMetadataFails,
                RetryOrHalt, Published, TypeOK
  <2> QED BY <2>2, <2>3 DEF Honest, Conclusive
<1>4. CASE PowerLoss
  <2>1. /\ \A s \in Sessions : receipt'[s] \in {receipt[s], rcptSynced[s]} /\ rcptSynced[s] \in {None, receipt[s]}
        /\ Halt /\ spawns' = spawns
    BY <1>4 DEF PowerLoss, Lifecycle
  <2> QED BY <2>1, HaltLeaves DEF Honest, Conclusive
<1>5. ASSUME NEW s \in Sessions, AbandonSession(s) PROVE Honest'
  BY <1>5 DEF AbandonSession, BeginAbandon, Honest, Conclusive, TypeOK
<1>6. CASE \/ DaemonCrash \/ Restart \/ FinishRecovery
           \/ \E o \in Ops, r \in Results : RepairOperation(o, r)
           \/ \E s \in Sessions : UnreadableSession(s)
  <2>1. receipt' = receipt /\ spawns' = spawns
    BY <1>6 DEF DaemonCrash, Restart, FinishRecovery, RepairOperation, UnreadableSession,
       WriteMetadata
  <2>2. \A s \in Sessions : /\ pubRec'[s] \in {None, pubRec[s]}
                            /\ owner'[s] \in {"spawned", "running"} => owner[s] \in {"spawned", "running"}
    BY <1>6, HaltLeaves DEF DaemonCrash, Restart, FinishRecovery, RepairOperation,
       UnreadableSession
  <2> QED BY <2>1, <2>2, HonestKept
<1>7. CASE Sweep
  <2>1. gc.at # "idle" => gc.session \in Sessions BY CallSessions
  <2>2. /\ \A s \in Sessions : receipt'[s] \in {None, receipt[s]}
        /\ UNCHANGED <<pubRec, owner, spawns>>
    BY <1>7, <2>1 DEF Sweep, CollectSession, RemoveRecord, WithdrawSession, WithdrawFails,
       TypeOK
  <2> QED BY <2>2 DEF Honest, Conclusive
<1>8. CASE (\E s \in Sessions : Poll(s)) \/ UNCHANGED vars
  BY <1>8, HonestKept DEF Poll, vars
<1> QED BY <1>1, <1>2, <1>3, <1>4, <1>5, <1>6, <1>7, <1>8 DEF Next, Recovery

\* A fresh store.
LEMMA HonestInit == Init => Honest
BY NoneIsNothing DEF Init, Honest, Conclusive

\* A shown receipt is neither replaced nor lost: it was synced before Poll.
LEMMA AnsweredNext == IInv /\ Core /\ Durable /\ Answered /\ [Next]_vars => Answered'
<1> SUFFICES ASSUME IInv, Core, Durable, Answered, [Next]_vars PROVE Answered' OBVIOUS
<1> TypeOK /\ Lifecycle /\ Publishing BY DEF IInv, Core
<1> USE NoneIsNothing
<1>1. ASSUME shown' = shown, withdrawn' = withdrawn, doubted \subseteq doubted',
             \A s \in Sessions : /\ receipt[s] # None => receipt'[s] = receipt[s] \/ receipt'[s] = rcptSynced[s]
                                 /\ rcptSynced'[s] \in {rcptSynced[s], receipt'[s]}
      PROVE  Answered'
  BY <1>1 DEF Answered, TypeOK
<1>2. CASE Admission
  <2>1. UNCHANGED <<shown, withdrawn, doubted>> /\ receipt' = receipt
    BY <1>2 DEF Admission, CreateOperation, ReplayOperation, EnsurePrivateDir, MetadataPresent,
                MetadataWritten, MetadataFails, MetadataAmbiguous, WriteMetadata
  <2>2. \A s \in Sessions : rcptSynced'[s] \in {rcptSynced[s], receipt'[s]}
    BY <1>2, CallSessions
       DEF Admission, CreateOperation, ReplayOperation, EnsurePrivateDir, MetadataPresent,
           MetadataWritten, MetadataFails, MetadataAmbiguous, WriteMetadata, SyncSession, TypeOK
  <2> QED BY <1>1, <2>1, <2>2
<1>3. CASE Runtime
  <2>1. PICK s \in Sessions : \/ ObservationFails(s) \/ SpawnFails(s) \/ Spawn(s)
                              \/ \E r \in Results : AdvanceSession(s, r)
                              \/ \E v \in ExitStates : ProcessExits(s, v)
    BY <1>3 DEF Runtime
  <2> QED
    BY <1>1, <2>1 DEF ObservationFails, SpawnFails, Spawn, AdvanceSession, ProcessExits, Settle,
                      WriteMetadata, SyncSession, TypeOK
<1>4. CASE Publication
  <2>1. PICK s \in Sessions :
          \/ PublishReceipt(s) \/ PublishMetadata(s)
          \/ \E r \in Failures : PublishReceiptFails(s, r) \/ PublishMetadataFails(s, r)
    BY <1>4 DEF Publication
  <2>2. shown' = shown /\ withdrawn' = withdrawn /\ doubted \subseteq doubted'
    BY <2>1 DEF PublishReceipt, PublishMetadata, PublishReceiptFails, PublishMetadataFails
  <2>3. \A t \in Sessions : /\ receipt[t] # None => receipt'[t] = receipt[t]
                            /\ rcptSynced'[t] \in {rcptSynced[t], receipt'[t]}
    BY <2>1 DEF PublishReceipt, PublishMetadata, PublishReceiptFails, PublishMetadataFails,
                WriteReceipt, WriteMetadata, SyncSession, TypeOK
  <2> QED BY <1>1, <2>2, <2>3
<1>5. CASE Recovery
  <2>1. UNCHANGED <<shown, withdrawn, doubted>>
    BY <1>5 DEF Recovery, DaemonCrash, PowerLoss, Restart, FinishRecovery, RepairOperation,
                AbandonSession, BeginAbandon, UnreadableSession
  <2>2. \A s \in Sessions : /\ receipt[s] # None => receipt'[s] = receipt[s] \/ receipt'[s] = rcptSynced[s]
                            /\ rcptSynced'[s] \in {rcptSynced[s], receipt'[s]}
    <3>1. CASE PowerLoss BY <3>1 DEF PowerLoss
    <3>2. ASSUME NEW o \in Ops, NEW r \in Results, RepairOperation(o, r)
          PROVE  receipt' = receipt /\ \A s \in Sessions : rcptSynced'[s] \in {rcptSynced[s], receipt'[s]}
      BY <3>2 DEF RepairOperation, Unrepaired, WriteMetadata, SyncSession, TypeOK
    <3> QED
      BY <1>5, <3>1, <3>2 DEF Recovery, DaemonCrash, Restart, FinishRecovery, AbandonSession,
                BeginAbandon, UnreadableSession
  <2> QED BY <1>1, <2>1, <2>2
<1>6. CASE WithdrawSession
  <2>1. gc.session \in Sessions BY <1>6, CallSessions DEF WithdrawSession
  <2> QED BY <1>6, <2>1 DEF WithdrawSession, Answered, TypeOK
<1>7. CASE (\E s \in Sessions : CollectSession(s)) \/ RemoveRecord \/ WithdrawFails
  BY <1>1, <1>7 DEF CollectSession, RemoveRecord, WithdrawFails
<1>8. ASSUME NEW s \in Sessions, Poll(s) PROVE Answered'
  BY <1>8 DEF Poll, Answered, Durable, TypeOK
<1>9. CASE UNCHANGED vars BY <1>1, <1>9 DEF vars
<1> QED BY <1>2, <1>3, <1>4, <1>5, <1>6, <1>7, <1>8, <1>9 DEF Next, Sweep

\* A fresh store.
LEMMA AnsweredInit == Init => Answered /\ Untold
BY NoneIsNothing DEF Init, Answered, Untold

\* A client is shown the end of a session that settled, and a settled session is
\* never admitted again: a reservation that may start draws a fresh one.
LEMMA UntoldNext == IInv /\ Core /\ Untold /\ [Next]_vars => Untold'
<1> SUFFICES ASSUME IInv, Core, Untold, [Next]_vars PROVE Untold' OBVIOUS
<1> TypeOK /\ References /\ Lifecycle /\ Calls BY DEF IInv, Core
<1> USE NoneIsNothing
<1>1. ASSUME shown' = shown, opOf' = opOf,
             \A s \in Sessions : owner'[s] = "admitted" => owner[s] = "admitted",
             admit'.at = "metadata" /\ admit'.created => admit' = admit
      PROVE  Untold'
  BY <1>1 DEF Untold
<1>2. ASSUME NEW o \in Ops, NEW s \in Sessions, NEW r \in Results, CreateOperation(o, s, r)
      PROVE  Untold'
  <2>1. /\ shown[s] = None /\ shown' = shown /\ owner' = owner
        /\ admit'.at = "free" \/ admit'.session = s
        /\ \A t \in Sessions : t # s => opOf'[t] = opOf[t]
    BY <1>2 DEF CreateOperation, Untold, Free, TypeOK
  <2> QED BY <2>1 DEF Untold
<1>3. CASE MetadataPresent \/ MetadataWritten
  <2>1. /\ shown' = shown /\ opOf' = opOf /\ admit' = Free /\ admit.at = "metadata"
        /\ owner' = IF admit.created THEN [owner EXCEPT ![admit.session] = "admitted"] ELSE owner
    BY <1>3 DEF MetadataPresent, MetadataWritten
  <2> QED BY <2>1 DEF Untold, Free, TypeOK
<1>4. CASE \/ \E o \in Ops : ReplayOperation(o)
           \/ \E s \in Sessions : EnsurePrivateDir(s)
           \/ MetadataFails \/ MetadataAmbiguous
  BY <1>1, <1>4 DEF ReplayOperation, EnsurePrivateDir, MetadataFails, MetadataAmbiguous, Free
<1>5. CASE Runtime
  BY <1>1, <1>5 DEF Runtime, ObservationFails, SpawnFails, Spawn, AdvanceSession, ProcessExits,
                    Settle, TypeOK
<1>6. CASE Publication
  <2>1. PICK s \in Sessions :
          \/ PublishReceipt(s) \/ PublishMetadata(s)
          \/ \E r \in Failures : PublishReceiptFails(s, r) \/ PublishMetadataFails(s, r)
    BY <1>6 DEF Publication
  <2>2. shown' = shown /\ opOf' = opOf
    BY <2>1 DEF PublishReceipt, PublishMetadata, PublishReceiptFails, PublishMetadataFails
  <2>3. /\ admit' = admit \/ admit'.at = "free"
        /\ \A t \in Sessions : owner'[t] = "admitted" => owner[t] = "admitted"
    BY <2>1, HaltLeaves DEF PublishReceipt, PublishMetadata, PublishReceiptFails,
       PublishMetadataFails, RetryOrHalt, Published, Free, TypeOK
  <2> QED BY <1>1, <2>2, <2>3
<1>7. CASE Recovery
  <2>1. shown' = shown /\ opOf' = opOf
    BY <1>7 DEF Recovery, DaemonCrash, PowerLoss, Restart, FinishRecovery, RepairOperation,
                AbandonSession, BeginAbandon, UnreadableSession
  <2>2. /\ admit' = admit \/ admit'.at = "free"
        /\ \A t \in Sessions : owner'[t] = "admitted" => owner[t] = "admitted"
    BY <1>7, HaltLeaves DEF Recovery, DaemonCrash, PowerLoss, Restart, FinishRecovery,
       RepairOperation, AbandonSession, BeginAbandon, UnreadableSession
  <2> QED BY <1>1, <2>1, <2>2
<1>8. CASE Sweep \/ UNCHANGED vars
  BY <1>1, <1>8 DEF Sweep, CollectSession, RemoveRecord, WithdrawSession, WithdrawFails, vars
<1>9. ASSUME NEW s \in Sessions, Poll(s) PROVE Untold'
  <2>1. /\ opOf[s] \in Ops /\ owner[s] # "admitted"
        /\ ~(admit.at = "metadata" /\ admit.created /\ admit.session = s)
    BY <1>9 DEF Poll, Lifecycle, InFlightOwners, Calls
  <2>2. /\ \A t \in Sessions : t # s => shown'[t] = shown[t]
        /\ UNCHANGED <<opOf, owner, admit>>
    BY <1>9 DEF Poll, TypeOK
  <2> QED BY <2>1, <2>2 DEF Untold
<1> QED BY <1>2, <1>3, <1>4, <1>5, <1>6, <1>7, <1>8, <1>9 DEF Next, Admission

\* The invariant that the refinement uses.
Full == IInv /\ Core /\ Durable /\ Honest /\ Answered /\ Untold

\* Full holds in every behaviour.
LEMMA FullInvariant == Spec => []Full
<1>1. Init => Full BY InvInit, CoreInit, DurableInit, HonestInit, AnsweredInit DEF Full
<1>2. Full /\ [Next]_vars => Full'
  BY InvNext, CoreNext, DurableNext, HonestNext, AnsweredNext, UntoldNext DEF Full
<1> QED BY <1>1, <1>2, PTL DEF Spec

\* Steps that clients cannot see.
LEMMA StepIsStutter ==
  ASSUME UNCHANGED <<opOf, spawns, shown, retired, withdrawn, doubted>>
  PROVE  UNCHANGED Contract!contract
BY DEF Contract!contract

\* Every step of the store is a step of the contract or invisible to it: the
\* creation of a record reserves, Spawn runs, Poll answers; a sweep, or the second
\* failed sync of a publication, releases.
LEMMA StepSimulation ==
  ASSUME Full, [Next]_vars PROVE [Contract!ContractNext]_(Contract!contract)
<1> IInv /\ Core /\ Durable /\ Honest /\ Answered /\ Untold BY DEF Full
<1> TypeOK /\ References /\ Binding /\ Lifecycle BY DEF IInv, Core
<1> USE NoneIsNothing
<1>1. ASSUME NEW o \in Ops, NEW s \in Sessions, NEW r \in Results, CreateOperation(o, s, r)
      PROVE  Contract!Reserve(o, s) \/ UNCHANGED Contract!contract
  BY <1>1 DEF CreateOperation, Contract!Reserve, Contract!contract
<1>2. ASSUME NEW s \in Sessions, Spawn(s) PROVE Contract!Run(s)
  <2>1. /\ owner[s] = "admitted" /\ spawns' = [spawns EXCEPT ![s] = @ + 1]
        /\ UNCHANGED <<opOf, shown, retired, withdrawn, doubted>>
    BY <1>2 DEF Spawn
  <2>2. spawns[s] = 0 /\ Bound(s) /\ opOf[s] # None BY <2>1 DEF Binding, Bound
  <2>3. shown[s] = None BY <2>1 DEF Untold
  <2>4. \A t \in {x \in Sessions : spawns[x] > 0} :
          opOf[t] # opOf[s] \/ s \in retired \/ t \in retired
    BY <2>2 DEF Binding, Bound, TypeOK
  <2>5. {x \in Sessions : spawns'[x] > 0} = {x \in Sessions : spawns[x] > 0} \cup {s}
    BY <2>1, <2>2 DEF TypeOK
  <2> QED BY <2>1, <2>2, <2>3, <2>4, <2>5 DEF Contract!Run
<1>3. ASSUME NEW s \in Sessions, Poll(s)
      PROVE  (\E v \in Terminal : Contract!Answer(s, v)) \/ UNCHANGED Contract!contract
  <2>1. /\ receipt[s] \in Terminal /\ shown' = [shown EXCEPT ![s] = receipt[s]]
        /\ UNCHANGED <<opOf, spawns, retired, withdrawn, doubted>>
    BY <1>3 DEF Poll, TypeOK
  <2>2. CASE shown[s] # None /\ s \notin withdrawn \cup doubted
    <3> shown' = shown BY <2>1, <2>2 DEF Answered, TypeOK
    <3> QED BY <2>1, StepIsStutter
  <2>3. CASE shown[s] = None \/ s \in withdrawn \cup doubted
    <3>1. opOf[s] # None BY <2>1 DEF Lifecycle
    <3>2. receipt[s] \in {"failed", "abandoned"} \/ s \in {x \in Sessions : spawns[x] > 0}
      BY <2>1 DEF Honest, Conclusive
    <3> QED BY <2>1, <2>3, <3>1, <3>2 DEF Contract!Answer, Contract!Inconclusive
  <2> QED BY <2>2, <2>3
<1>4. CASE Admission
  <2>1. CASE \/ \E o \in Ops : ReplayOperation(o)
             \/ \E s \in Sessions : EnsurePrivateDir(s)
             \/ MetadataPresent \/ MetadataWritten \/ MetadataFails \/ MetadataAmbiguous
    BY <2>1, StepIsStutter DEF ReplayOperation, EnsurePrivateDir, MetadataPresent,
                               MetadataWritten, MetadataFails, MetadataAmbiguous
  <2> QED BY <1>1, <1>4, <2>1 DEF Admission, Contract!ContractNext
<1>5. CASE Runtime
  <2>1. PICK s \in Sessions : \/ ObservationFails(s) \/ SpawnFails(s) \/ Spawn(s)
                              \/ \E r \in Results : AdvanceSession(s, r)
                              \/ \E v \in ExitStates : ProcessExits(s, v)
    BY <1>5 DEF Runtime
  <2> QED BY <1>2, <2>1, StepIsStutter
          DEF ObservationFails, SpawnFails, AdvanceSession, ProcessExits, Contract!ContractNext
<1>6. CASE Publication
  <2>1. PICK s \in Sessions :
          \/ PublishReceipt(s) \/ PublishMetadata(s)
          \/ \E r \in Failures : PublishReceiptFails(s, r) \/ PublishMetadataFails(s, r)
    BY <1>6 DEF Publication
  <2>2. UNCHANGED <<opOf, spawns, shown, retired, withdrawn>> /\ doubted' \in {doubted, doubted \cup {s}}
    BY <2>1 DEF PublishReceipt, PublishMetadata, PublishReceiptFails, PublishMetadataFails
  <2>3. CASE doubted' = doubted BY <2>2, <2>3, StepIsStutter
  <2>4. CASE doubted' = doubted \cup {s}
    <3> Contract!Release(s) BY <2>2, <2>4 DEF Contract!Release
    <3> QED BY DEF Contract!ContractNext
  <2> QED BY <2>2, <2>3, <2>4
<1>7. CASE Recovery
  BY <1>7, StepIsStutter DEF Recovery, DaemonCrash, PowerLoss, Restart, FinishRecovery,
     RepairOperation, AbandonSession, BeginAbandon, UnreadableSession
<1>8. CASE (\E s \in Sessions : CollectSession(s)) \/ WithdrawFails
  BY <1>8, StepIsStutter DEF CollectSession, WithdrawFails
<1>9. CASE RemoveRecord
  <2>1. PICK s \in Sessions \cup {None} :
          /\ retired' = retired \cup ({s} \ {None})
          /\ UNCHANGED <<opOf, spawns, shown, withdrawn, doubted>>
    BY <1>9, CallSessions DEF RemoveRecord, TypeOK
  <2>2. CASE s = None
    <3> retired' = retired BY <2>1, <2>2
    <3> QED BY <2>1, StepIsStutter
  <2>3. CASE s \in Sessions
    <3> Contract!Release(s) BY <2>1, <2>3 DEF Contract!Release
    <3> QED BY <2>3 DEF Contract!ContractNext
  <2> QED BY <2>2, <2>3
<1>10. CASE WithdrawSession
  <2>1. gc.session \in Sessions BY <1>10, CallSessions DEF WithdrawSession
  <2>2. Contract!Release(gc.session) BY <1>10 DEF WithdrawSession, Contract!Release
  <2> QED BY <2>1, <2>2 DEF Contract!ContractNext
<1>11. CASE UNCHANGED vars BY <1>11, StepIsStutter DEF vars
<1> QED BY <1>3, <1>4, <1>5, <1>6, <1>7, <1>8, <1>9, <1>10, <1>11
        DEF Next, Sweep, Contract!ContractNext

-----------------------------------------------------------------------------
\* ReserveOperation checks the index when it creates the record, before the
\* session takes its slot: the commands in flight still never exceed MaxSessions.
THEOREM CapacityHolds == Spec => []CommandsWithinCapacity
<1> DEFINE Inv == IInv /\ Core /\ Room
<1>1. Init => Inv BY InvInit, CoreInit, RoomInit
<1>2. Inv /\ [Next]_vars => Inv' BY InvNext, CoreNext, RoomNext
<1>3. Inv => CommandsWithinCapacity BY DEF Room, CommandsWithinCapacity
<1> QED BY <1>1, <1>2, <1>3, PTL DEF Spec

\* PublishTerminal never meets a different receipt, so publishUntilDurable,
\* which has no other way out of terminal_conflict, is not caught in it.
THEOREM NoConflict == Spec => []NoTerminalConflict
<1> DEFINE Inv == IInv /\ Core
<1>1. Init => Inv BY InvInit, CoreInit
<1>2. Inv /\ [Next]_vars => Inv' BY InvNext, CoreNext
<1>3. Inv => NoTerminalConflict BY DEF Core, Publishing, NoTerminalConflict
<1> QED BY <1>1, <1>2, <1>3, PTL DEF Spec

\* hydrateWaitViewReceipt: terminal metadata has its receipt behind it, after
\* any number of crashes, power losses and failed writes, but for a session whose
\* receipt and terminal snapshot both failed to sync.
THEOREM TerminalIsProven == Spec => []TerminalHasReceipt
<1> DEFINE Inv == IInv /\ Core /\ Durable
<1>1. Init => Inv BY InvInit, CoreInit, DurableInit
<1>2. Inv /\ [Next]_vars => Inv' BY InvNext, CoreNext, DurableNext
<1>3. Inv => TerminalHasReceipt BY DEF Durable, TerminalHasReceipt
<1> QED BY <1>1, <1>2, <1>3, PTL DEF Spec

\* A terminal receipt that waitView showed a client is on stable storage until a
\* sweep removes it, for any number of failed writes, with the same exception.
THEOREM ShownIsDurable == Spec => []ShownReceiptDurable
<1>1. Full => ShownReceiptDurable BY DEF Full, Answered, ShownReceiptDurable
<1> QED BY <1>1, FullInvariant, PTL

\* The store, with its crashes, failed writes, retries, replays and sweeps,
\* implements the contract.
THEOREM Refinement == Spec => ImplementsContract
<1>1. Init => Contract!ContractInit
  BY DEF Init, Contract!ContractInit
<1>2. Full /\ [Next]_vars => [Contract!ContractNext]_(Contract!contract) BY StepSimulation
<1> QED BY <1>1, <1>2, FullInvariant, PTL DEF Spec, ImplementsContract, Contract!ContractSpec
============================================================================
