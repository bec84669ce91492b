---------------------- MODULE PersistentSessionProofs ----------------------
(* Theorems about PersistentSession.  The properties are not inductive: that  *)
(* the output is imported once depends on what the reconciler believes about  *)
(* spool and log between two of its steps, that an open binding is owned on   *)
(* the order of marker and binding in the start, in the reconciler and in the *)
(* startup.  IInv adds who may write at all (Turns), what each step of a      *)
(* start, a reconciler and a startup has found (Launching, Marking,           *)
(* Deciding), what the supervisor has frozen (Supervising, Spooling), and     *)
(* what has been imported (Importing).  There is a lemma for each part, with  *)
(* a step for every action.  The theorems hold for any number of chunks,      *)
(* stops of the daemon and failed writes.                                     *)
EXTENDS PersistentSession, SequenceTheorems, TLAPS

\* One writer of the session's files at a time.
Turns ==
  /\ st # "idle" => boot = "up" /\ rc.pc = "off"
  /\ rc.pc # "off" => boot = IF rc.inline THEN "inline" ELSE "up"
  /\ boot = "inline" => rc.pc # "off"
  /\ sess = "none" => /\ st = "idle" /\ rc.pc = "off" /\ binding = "none" /\ ~mark
                      /\ receipt = NoReceipt /\ launches = 0 /\ ~launch /\ ~priv
                      /\ boot \notin {"candidate", "unmark", "attached"}

\* Who may spawn: launch.json is claimed once.
Launching ==
  /\ launches <= 1
  /\ st \in {"mark", "bind", "prepare", "claim"} \/ ~launch => ~launch /\ launches = 0
  /\ st = "spawn" => launch /\ launches = 0
  /\ launches = 0 => sup = "none"
  /\ st = "claim" => priv

\* The steps at which the recovery marker and the binding are out of step.
Marking ==
  /\ binding \in Open => mark
  /\ st = "mark" => binding = "none"
  /\ st = "bind" => mark /\ binding = "none"
  /\ st \in {"prepare", "claim", "spawn", "attach", "advance", "run"} => binding \in Open
  /\ st = "unmark" => binding = "lost"
  /\ rc.pc # "off" => binding # "none"
  /\ rc.pc \in {"unmark", "cleanup"} => binding = "terminal"
  /\ boot \in {"candidate", "attached"} => binding \in Open
  /\ boot = "unmark" => binding \in Closed
  /\ NeverOwnerless

\* What a step of the start or of the reconciler knows of the receipt.
Deciding ==
  /\ st \notin {"idle", "lose", "unmark"} => receipt = NoReceipt
  /\ st \in {"lose", "unmark"} => receipt = FailedStart
  /\ rc.pc = "abandon" => receipt = NoReceipt
  /\ rc.pc = "lose" => receipt = Abandoned
  /\ rc.pc \in {"close", "unmark", "cleanup"} => receipt.kind = "terminal"
  /\ boot = "attached" => receipt = NoReceipt
  /\ ClosedIsDecided

\* The child, its supervisor and the record it freezes.
Supervising ==
  /\ sup \in {"none", "booting"} => child = "none"
  /\ sup = "serving" => child = "running"
  /\ sup \in {"finalizing", "frozen"} => child = "gone"
  /\ child = "none" => wrote = 0 /\ ~capture
  /\ term \in Records => sup \in {"frozen", "gone"} /\ term.out = size /\ (term.complete <=> ~capture)
  /\ term = Torn => sup = "gone"
  /\ term.state = "completed" => child = "gone" /\ code = "zero" /\ term.complete

\* The spool keeps chunks in the order they were written and counts no more
\* than it holds; until a chunk is refused it is exactly the output.
Spooling ==
  /\ size <= Len(spool) /\ Len(spool) <= wrote
  /\ \A i \in 1 .. Len(spool) : spool[i] <= wrote
  /\ \A i, j \in 1 .. Len(spool) : i < j => spool[i] < spool[j]
  /\ ~capture => /\ size = wrote /\ Len(spool) = wrote
                 /\ \A i \in 1 .. Len(spool) : spool[i] = i

\* The canonical log is a prefix of the counted spool; the reconciler reads no
\* further than it has imported; what it acknowledges is in the log; a receipt
\* is made from the frozen record, when the log has all of it; private files
\* are removed after that.
Importing ==
  /\ Len(canon) <= size
  /\ \A i \in 1 .. Len(canon) : canon[i] = spool[i]
  /\ ack <= Len(canon)
  /\ rc.pc = "read" => rc.off <= Len(canon) /\ rc.off <= rc.target /\ rc.target <= size
  /\ rc.pc = "read" /\ rc.fin => term \in Records /\ rc.target = term.out
  /\ rc.pc = "recover" => term \in Records
  /\ rc.pc = "publish" => term \in Records /\ ack = term.out
  /\ receipt.kind = "terminal" => receipt.rec = term /\ term \in Records /\ Len(canon) = term.out
  /\ launch /\ ~priv => receipt.kind = "terminal"

\* The inductive invariant.
IInv == TypeOK /\ Turns /\ Launching /\ Marking /\ Deciding /\ Supervising /\ Spooling /\ Importing

USE DEF store, private, process, daemon, counts

\* A reconciler step that only moves on.
LEMMA RcNextEffect ==
  ASSUME TypeOK, RcNext("status") \/ RcNext("recover") \/ RcNext("wait") \/ RcNext("publish")
                 \/ RcNext("close") \/ RcNext("unmark") \/ RcNext("cleanup") \/ RcNext("abandon")
                 \/ RcNext("lose")
  PROVE  /\ rc' \in Reconcilers /\ rc'.pc \notin {"off", "read"} /\ (rc'.inline <=> rc.inline)
         /\ UNCHANGED <<boot, st>>
BY DEF RcNext, TypeOK, Reconcilers

\* Where it moves on to.
LEMMA RcNextPc == ASSUME TypeOK, NEW next, RcNext(next)
                  PROVE  rc'.pc = next /\ UNCHANGED <<boot, st>>
BY DEF RcNext, TypeOK

\* A reconciler that has ended.
LEMMA RcOffType == RcOff \in Reconcilers /\ RcOff.pc = "off" /\ ~RcOff.inline
BY PersistentAssumption DEF RcOff, Reconcilers

\* How a reconciler step that fails goes on.
LEMMA RcFailsEffect ==
  ASSUME TypeOK, NEW loss, RcFails(loss)
  PROVE  /\ st' = st /\ rc' \in Reconcilers /\ rc'.pc \in {"off", "status", "abandon"}
         /\ rc'.pc = "off" => boot' = "down" /\ rc.inline
         /\ rc'.pc = "abandon" => receipt = NoReceipt
         /\ rc'.pc # "off" => boot' = boot /\ (rc'.inline <=> rc.inline)
<1>1. CASE RcNext("abandon") /\ receipt = NoReceipt BY <1>1, RcNextEffect DEF RcNext, TypeOK
<1>2. CASE RcNext("status") /\ ~rc.inline BY <1>2, RcNextEffect DEF RcNext, TypeOK
<1>3. CASE rc' = RcOff /\ boot' = "down" /\ rc.inline /\ UNCHANGED st BY <1>3, RcOffType
<1> QED BY <1>1, <1>2, <1>3 DEF RcFails

\* The end of a reconciler, which ends the startup that waits for it.
LEMMA RcEndsEffect ==
  ASSUME TypeOK, RcEnds
  PROVE  /\ st' = st /\ rc' \in Reconcilers /\ rc'.pc = "off"
         /\ rc.inline => boot' = "up"
         /\ ~rc.inline => boot' = boot
BY RcOffType DEF RcEnds, TypeOK

\* What a status request, or the terminal record in its place, leads to.
LEMMA RcObservesEffect ==
  ASSUME TypeOK, RcObserves
  PROVE  \/ /\ rc' \in Reconcilers /\ rc'.pc = "read" /\ rc'.off = ack /\ rc'.target = size /\ ~rc'.fin
            /\ (rc'.inline <=> rc.inline) /\ UNCHANGED <<boot, st>>
         \/ RcNext("recover") /\ Loadable
         \/ RcFails(TRUE)
<1>1. CASE /\ rc' = [rc EXCEPT !.pc = "read", !.off = ack, !.target = size,
                              !.ended = (sup = "frozen"), !.fin = FALSE]
           /\ UNCHANGED <<boot, st>>
  BY <1>1 DEF TypeOK, Reconcilers
<1>2. CASE RcNext("recover") /\ Loadable BY <1>2
<1>3. CASE RcFails(TRUE) BY <1>3
<1> QED BY <1>1, <1>2, <1>3 DEF RcObserves

\* Whatever a reconciler does, its daemon goes on with it, stops, or is done.
LEMMA RcControl ==
  ASSUME TypeOK, RcStep
  PROVE  /\ st' = st /\ rc.pc # "off" /\ rc' \in Reconcilers
         /\ \/ rc'.pc # "off" /\ boot' = boot /\ (rc'.inline <=> rc.inline)
            \/ rc'.pc = "off" /\ rc.inline /\ boot' = "down"
            \/ /\ rc'.pc = "off" /\ boot' = (IF rc.inline THEN "up" ELSE boot)
               /\ rc.pc = "cleanup" \/ (rc.pc = "lose" /\ binding \in Closed /\ binding' = binding)
<1>1. CASE RcStatus \/ RcWaits
  BY <1>1, RcObservesEffect, RcNextEffect, RcFailsEffect DEF RcStatus, RcWaits
<1>2. CASE RcReads
  <2>1. rc.pc = "read" BY <1>2 DEF RcReads
  <2>2. CASE RcFails(TRUE) \/ RcFails(FALSE) BY <2>1, <2>2, RcFailsEffect
  <2>3. CASE rc.off < rc.target /\ rc' = [rc EXCEPT !.off = @ + 1] /\ UNCHANGED <<boot, st>>
    <3>1. rc \in Reconcilers BY DEF TypeOK, Reconcilers
    <3>2. rc.off \in 0 .. MaxOutput /\ rc.target \in 0 .. MaxOutput /\ MaxOutput \in Nat
      BY <3>1, PersistentAssumption DEF Reconcilers
    <3>3. rc.off + 1 \in 0 .. MaxOutput BY <2>3, <3>2
    <3>4. rc' \in Reconcilers /\ rc'.pc = rc.pc /\ rc'.inline = rc.inline
      BY <2>3, <3>1, <3>3 DEF Reconcilers
    <3> QED BY <2>1, <2>3, <3>4
  <2> QED BY <1>2, <2>2, <2>3 DEF RcReads
<1>3. CASE RcAcknowledges
  BY <1>3, RcNextEffect, RcFailsEffect DEF RcAcknowledges
<1>4. CASE RcRecovers
  <2>1. rc.pc = "recover" BY <1>4 DEF RcRecovers
  <2>2. CASE RcFails(TRUE) BY <2>1, <2>2, RcFailsEffect
  <2>3. CASE /\ rc' = [rc EXCEPT !.pc = "read", !.off = ack, !.target = term.out, !.fin = TRUE]
             /\ UNCHANGED <<boot, st>> /\ Verified
    BY <2>1, <2>3 DEF TypeOK, Reconcilers, Verified, Loadable, Records
  <2> QED BY <1>4, <2>2, <2>3 DEF RcRecovers
<1>5. CASE RcPublishes \/ RcCloses \/ RcUnmarks \/ RcAbandons
  BY <1>5, RcNextEffect, RcFailsEffect DEF RcPublishes, RcCloses, RcUnmarks, RcAbandons
<1>6. CASE RcCleansUp BY <1>6, RcEndsEffect DEF RcCleansUp, TypeOK
<1>7. CASE RcLoses BY <1>7, RcNextEffect, RcFailsEffect, RcEndsEffect DEF RcLoses, TypeOK
<1> QED BY <1>1, <1>2, <1>3, <1>4, <1>5, <1>6, <1>7 DEF RcStep

\* Start, reconciler and startup take turns.
LEMMA TurnsNext == IInv /\ [Next]_vars => Turns'
<1> SUFFICES ASSUME IInv, [Next]_vars PROVE Turns' OBVIOUS
<1> TypeOK /\ Turns /\ Launching /\ Marking BY DEF IInv
<1>1. CASE SupervisorStarts BY <1>1 DEF SupervisorStarts, Turns, TypeOK
<1>2. CASE FreezeTerminal BY <1>2 DEF FreezeTerminal, Turns, TypeOK
<1>3. CASE SupervisorExits BY <1>3 DEF SupervisorExits, Turns, TypeOK
<1>4. CASE SpoolAppends BY <1>4 DEF SpoolAppends, Turns, TypeOK
<1>5. CASE ChildExits BY <1>5 DEF ChildExits, Turns, TypeOK
<1>6. CASE SupervisorDies BY <1>6 DEF SupervisorDies, Turns, TypeOK
<1>7. CASE StartReserves BY <1>7 DEF StartReserves, Turns, TypeOK
<1>8. CASE StartMarks BY <1>8 DEF StartMarks, Fail, Turns, TypeOK
<1>9. CASE StartBinds BY <1>9 DEF StartBinds, Fail, Turns, TypeOK
<1>10. CASE StartPrepares BY <1>10 DEF StartPrepares, Fail, Turns, TypeOK
<1>11. CASE StartClaims BY <1>11 DEF StartClaims, Fail, Turns, TypeOK
<1>12. CASE StartSpawns BY <1>12 DEF StartSpawns, Fail, Turns, TypeOK
<1>13. CASE StartAttaches BY <1>13 DEF StartAttaches, Fail, Turns, TypeOK
<1>14. CASE StartAttachExpires BY <1>14 DEF StartAttachExpires, Fail, Turns, TypeOK
<1>15. CASE StartAdvances BY <1>15 DEF StartAdvances, Turns, TypeOK
<1>16. CASE StartRuns BY <1>16 DEF StartRuns, Fail, RcOff, Turns, TypeOK
<1>17. CASE StartPublishesFailure BY <1>17 DEF StartPublishesFailure, Turns, TypeOK
<1>18. CASE StartLosesBinding BY <1>18 DEF StartLosesBinding, Turns, TypeOK
<1>19. CASE StartUnmarks BY <1>19 DEF StartUnmarks, Turns, TypeOK
<1>20. CASE BootStarts BY <1>20 DEF BootStarts, Turns, TypeOK
<1>21. CASE BootAbandons BY <1>21 DEF BootAbandons, Turns, TypeOK
<1>22. CASE BootLists BY <1>22 DEF BootLists, Turns, TypeOK
<1>23. CASE BootRepairs BY <1>23 DEF BootRepairs, Turns, TypeOK
<1>24. CASE BootRefuses BY <1>24 DEF BootRefuses, RcOff, Turns, TypeOK
<1>25. CASE BootUnmarks BY <1>25 DEF BootUnmarks, Turns, TypeOK
<1>26. CASE BootReattaches BY <1>26 DEF BootReattaches, Turns, TypeOK
<1>27. CASE BootRuns BY <1>27 DEF BootRuns, RcOff, Turns, TypeOK
<1>28. CASE BootRecovers BY <1>28 DEF BootRecovers, RcOff, Turns, TypeOK
<1>29. CASE BootLoses BY <1>29 DEF BootLoses, RcOff, Turns, TypeOK
<1>30. CASE DaemonStops BY <1>30 DEF DaemonStops, RcOff, Turns, TypeOK
<1>31. CASE RcStep
  <2>1. UNCHANGED <<sess, launches, launch>>
    BY <1>31 DEF RcStep, RcStatus, RcWaits, RcReads, RcAcknowledges, RcRecovers, RcPublishes,
       RcCloses,
             RcUnmarks, RcCleansUp, RcAbandons, RcLoses
  <2> QED BY <1>31, <2>1, RcControl DEF Turns, TypeOK
<1>32. CASE UNCHANGED vars BY <1>32 DEF vars, Turns, TypeOK
<1> QED BY <1>1, <1>2, <1>3, <1>4, <1>5, <1>6, <1>7, <1>8, <1>9, <1>10, <1>11, <1>12, <1>13,
        <1>14, <1>15, <1>16, <1>17, <1>18, <1>19, <1>20, <1>21, <1>22, <1>23, <1>24, <1>25,
        <1>26, <1>27, <1>28, <1>29, <1>30, <1>31, <1>32
        DEF Next, SupervisorStep, StartStep, BootStep

\* What may be published is a receipt.
LEMMA ReceiptType ==
  /\ NoReceipt \in Receipts /\ FailedStart \in Receipts /\ Abandoned \in Receipts
  /\ \A r \in Records : FromRecord(r) \in Receipts
BY DEF Receipts

\* What kind of receipt it is.
LEMMA ReceiptKind ==
  ASSUME NEW r \in Receipts
  PROVE  /\ r.kind \in {"none", "failed_start", "abandoned", "terminal"}
         /\ r.kind = "none" => r = NoReceipt
         /\ r.kind = "terminal" => r.rec \in Records
BY DEF Receipts, NoReceipt, FailedStart, Abandoned, FromRecord

\* A fault is counted within its bound.
LEMMA FaultType == ASSUME TypeOK, Fault PROVE faults' \in 0 .. MaxFaults
BY PersistentAssumption DEF TypeOK, Fault

\* Every step keeps the count of faults within its bound.
LEMMA FaultsNext == ASSUME TypeOK, [Next]_vars PROVE faults' \in 0 .. MaxFaults
<1>1. faults' = faults \/ Fault
  BY DEF Next, vars, SupervisorStep, StartStep, BootStep, RcStep, RcStatus, RcWaits, RcReads,
     RcAcknowledges, RcRecovers, RcPublishes, RcCloses, RcUnmarks, RcCleansUp, RcAbandons,
     RcLoses,
         SupervisorStarts, FreezeTerminal, SupervisorExits, SpoolAppends, ChildExits,
         SupervisorDies,
         StartReserves, StartMarks, StartBinds, StartPrepares, StartClaims, StartSpawns,
         StartAttaches, StartAttachExpires, StartAdvances, StartRuns, StartPublishesFailure,
         StartLosesBinding, StartUnmarks, BootStarts, BootAbandons, BootLists, BootRepairs,
         BootRefuses,
         BootUnmarks, BootReattaches, BootRuns, BootRecovers, BootLoses, DaemonStops, Fail
<1> QED BY <1>1, FaultType DEF TypeOK

\* What one read imports: nothing, or the next chunk of the spool.
LEMMA RcReadsEffect ==
  ASSUME TypeOK, Spooling, Importing, RcReads
  PROVE  /\ rc.off \in Nat /\ rc.target \in Nat /\ rc.off + 1 \in 1 .. size
         /\ \/ canon' = canon /\ (RcFails(TRUE) \/ RcFails(FALSE))
            \/ /\ rc'.pc = "read" /\ rc'.off = rc.off + 1 /\ rc.off < rc.target
               /\ rc'.target = rc.target /\ (rc'.fin <=> rc.fin) /\ UNCHANGED <<boot, st>>
               /\ \/ rc.off = Len(canon) /\ canon' = Append(canon, spool[rc.off + 1])
                  \/ rc.off < Len(canon) /\ canon' = canon
<1>1. rc.off \in Nat /\ rc.target \in Nat BY DEF TypeOK, Reconcilers
<1>2. rc.pc = "read" /\ rc.off < rc.target BY DEF RcReads
<1>3. rc.off <= Len(canon) /\ rc.target <= size BY <1>2 DEF Importing
<1>4. size \in Nat /\ Len(canon) \in Nat BY DEF TypeOK
<1>5. rc.off + 1 \in 1 .. size BY <1>1, <1>2, <1>3, <1>4
<1> DEFINE got == ReconcileOutput(rc.off, spool[rc.off + 1])
<1> DEFINE Read == /\ rc'.pc = "read" /\ rc'.off = rc.off + 1 /\ rc'.target = rc.target
                   /\ (rc'.fin <=> rc.fin) /\ UNCHANGED <<boot, st>>
<1>6. \/ canon' = canon /\ (RcFails(TRUE) \/ RcFails(FALSE))
      \/ /\ canon' = got.log
         /\ \/ got.ok /\ Read
            \/ ~got.ok /\ RcFails(TRUE)
  <2>1. rc' = [rc EXCEPT !.off = @ + 1] /\ UNCHANGED <<boot, st>> => Read
    BY <1>2 DEF TypeOK, Reconcilers
  <2> HIDE DEF Read
  <2> QED BY <2>1 DEF RcReads
<1>7. rc.off = Len(canon) \/ rc.off < Len(canon) BY <1>1, <1>3, <1>4
<1>8. CASE rc.off = Len(canon)
  <2>1. got = [ok |-> TRUE, log |-> Append(canon, spool[rc.off + 1])]
    BY <1>1, <1>8 DEF ReconcileOutput
  <2>2. got.ok /\ got.log = Append(canon, spool[rc.off + 1]) BY <2>1
  <2> HIDE DEF got
  <2> QED BY <1>1, <1>2, <1>5, <1>6, <1>8, <2>2
<1>9. CASE rc.off < Len(canon)
  <2>1. got = [ok |-> canon[rc.off + 1] = spool[rc.off + 1], log |-> canon]
    BY <1>1, <1>9 DEF ReconcileOutput, TypeOK
  <2>2. got.log = canon BY <2>1
  <2> HIDE DEF got
  <2> QED BY <1>1, <1>2, <1>5, <1>6, <1>9, <2>2
<1> QED BY <1>7, <1>8, <1>9

\* The steps of an import.
RcImports == RcStatus \/ RcWaits \/ RcReads \/ RcAcknowledges \/ RcRecovers

\* The steps of an import decide nothing: they go on, stop the daemon that runs
\* them at startup, or find a session without a receipt lost.
LEMMA RcImportsEffect ==
  ASSUME TypeOK, RcImports
  PROVE  /\ UNCHANGED <<sess, receipt, binding, mark, priv, launch, spool, size, term, process, launches>>
         /\ rc'.pc \in {"off", "status", "read", "wait", "recover", "publish", "abandon"}
         /\ rc'.pc = "off" => boot' = "down"
         /\ rc'.pc = "abandon" => receipt = NoReceipt
<1>1. CASE RcStatus \/ RcWaits
  <2>1. UNCHANGED <<sess, receipt, binding, mark, priv, launch, spool, size, term, process, launches>>
    BY <1>1 DEF RcStatus, RcWaits
  <2>2. \/ rc'.pc \in {"read", "recover"} \/ RcFails(TRUE)
    BY <1>1, RcObservesEffect, RcNextPc DEF RcStatus, RcWaits
  <2> QED BY <2>1, <2>2, RcFailsEffect
<1>2. CASE RcReads
  <2>1. UNCHANGED <<sess, receipt, binding, mark, priv, launch, spool, size, term, process, launches>>
    BY <1>2 DEF RcReads
  <2>2. rc' = [rc EXCEPT !.off = @ + 1] \/ RcFails(TRUE) \/ RcFails(FALSE) BY <1>2 DEF RcReads
  <2>3. rc' = [rc EXCEPT !.off = @ + 1] => rc'.pc = "read"
    BY <1>2 DEF RcReads, TypeOK, Reconcilers
  <2> QED BY <2>1, <2>2, <2>3, RcFailsEffect
<1>3. CASE RcAcknowledges
  <2>1. UNCHANGED <<sess, receipt, binding, mark, priv, launch, spool, size, term, process, launches>>
    BY <1>3 DEF RcAcknowledges
  <2>2. \/ RcNext("publish") \/ RcNext("wait") \/ RcNext("recover") \/ RcFails(TRUE)
    BY <1>3 DEF RcAcknowledges
  <2>3. rc'.pc \in {"publish", "wait", "recover"} \/ RcFails(TRUE) BY <2>2, RcNextPc
  <2> QED BY <2>1, <2>3, RcFailsEffect
<1>4. CASE RcRecovers
  <2>1. UNCHANGED <<sess, receipt, binding, mark, priv, launch, spool, size, term, process, launches>>
    BY <1>4 DEF RcRecovers
  <2>2. rc'.pc = "read" \/ RcFails(TRUE) BY <1>4 DEF RcRecovers, TypeOK, Reconcilers
  <2> QED BY <2>1, <2>2, RcFailsEffect
<1> QED BY <1>1, <1>2, <1>3, <1>4 DEF RcImports

\* Type correctness, action by action.
LEMMA TypeNext == IInv /\ [Next]_vars => TypeOK'
<1> SUFFICES ASSUME IInv, [Next]_vars PROVE TypeOK' OBVIOUS
<1> TypeOK /\ Turns /\ Supervising /\ Spooling /\ Importing BY DEF IInv
<1> faults' \in 0 .. MaxFaults BY FaultsNext
<1>1. CASE SupervisorStarts
  <2>1. [state |-> "failed", out |-> 0, complete |-> TRUE] \in Records
    BY PersistentAssumption DEF Records
  <2>2. term' \in {NoRecord, Torn} \cup Records BY <1>1, <2>1 DEF SupervisorStarts, TypeOK
  <2> QED BY <1>1, <2>2 DEF SupervisorStarts, TypeOK
<1>2. CASE FreezeTerminal
  <2>1. TerminalOutcome \in {"completed", "failed", "killed"} BY DEF TerminalOutcome
  <2>2. (~capture) \in BOOLEAN BY DEF TypeOK
  <2>3. size \in 0 .. MaxOutput BY DEF TypeOK
  <2>4. [state |-> TerminalOutcome, out |-> size, complete |-> ~capture] \in Records
    BY <2>1, <2>2, <2>3 DEF Records
  <2> QED BY <1>2, <2>4 DEF FreezeTerminal, TypeOK
<1>3. CASE SupervisorExits
  BY <1>3 DEF SupervisorExits, TypeOK
<1>4. CASE SpoolAppends
  <2>1. wrote' \in 0 .. MaxOutput /\ wrote' \in Nat
    BY <1>4, PersistentAssumption DEF SpoolAppends, TypeOK
  <2>2. Append(spool, wrote') \in Seq(Nat) BY <2>1 DEF TypeOK
  <2>3. size + 1 \in 0 .. MaxOutput
    BY <1>4, PersistentAssumption DEF SpoolAppends, TypeOK, Spooling
  <2>4. size' \in 0 .. MaxOutput BY <1>4, <2>3 DEF SpoolAppends, TypeOK
  <2>5. spool' \in Seq(Nat) BY <1>4, <2>2 DEF SpoolAppends, TypeOK
  <2>6. capture' \in BOOLEAN BY <1>4 DEF SpoolAppends, TypeOK
  <2> QED BY <1>4, <2>1, <2>4, <2>5, <2>6 DEF SpoolAppends, TypeOK
<1>5. CASE ChildExits
  BY <1>5 DEF ChildExits, TypeOK
<1>6. CASE SupervisorDies
  BY <1>6 DEF SupervisorDies, TypeOK
<1>7. CASE StartReserves
  BY <1>7 DEF StartReserves, TypeOK
<1>8. CASE StartMarks
  BY <1>8 DEF StartMarks, Fail, TypeOK
<1>9. CASE StartBinds
  BY <1>9 DEF StartBinds, Fail, TypeOK, Open, Closed
<1>10. CASE StartPrepares
  BY <1>10 DEF StartPrepares, Fail, TypeOK
<1>11. CASE StartClaims
  BY <1>11 DEF StartClaims, Fail, TypeOK
<1>12. CASE StartSpawns
  BY <1>12 DEF StartSpawns, Fail, TypeOK
<1>13. CASE StartAttaches
  BY <1>13 DEF StartAttaches, Fail, TypeOK
<1>14. CASE StartAttachExpires
  BY <1>14 DEF StartAttachExpires, Fail, TypeOK
<1>15. CASE StartAdvances
  BY <1>15 DEF StartAdvances, TypeOK, Open, Closed
<1>16. CASE StartRuns
  <2>1. rc' \in Reconcilers BY <1>16, RcOffType DEF StartRuns, Fail, RcOff, Reconcilers, TypeOK
  <2> QED BY <1>16, <2>1 DEF StartRuns, Fail, TypeOK
<1>17. CASE StartPublishesFailure
  BY <1>17, ReceiptType DEF StartPublishesFailure, TypeOK
<1>18. CASE StartLosesBinding
  BY <1>18 DEF StartLosesBinding, TypeOK, Open, Closed
<1>19. CASE StartUnmarks
  <2>1. mark' \in BOOLEAN BY <1>19 DEF StartUnmarks, TypeOK
  <2> QED BY <1>19, <2>1 DEF StartUnmarks, TypeOK
<1>20. CASE RcStatus
  <2>1. st' = st /\ rc' \in Reconcilers /\ boot' \in {boot, "down", "up"}
    BY <1>20, RcControl DEF RcStep
  <2> QED BY <1>20, <2>1 DEF RcStatus, TypeOK
<1>21. CASE RcWaits
  <2>1. st' = st /\ rc' \in Reconcilers /\ boot' \in {boot, "down", "up"}
    BY <1>21, RcControl DEF RcStep
  <2> QED BY <1>21, <2>1 DEF RcWaits, TypeOK
<1>22. CASE RcReads
  <2>1. st' = st /\ rc' \in Reconcilers /\ boot' \in {boot, "down", "up"}
    BY <1>22, RcControl DEF RcStep
  <2>2. rc.off + 1 \in 1 .. size BY <1>22, RcReadsEffect
  <2>3. spool[rc.off + 1] \in Nat BY <2>2 DEF TypeOK, Spooling
  <2>4. canon' = canon \/ canon' = Append(canon, spool[rc.off + 1]) BY <1>22, RcReadsEffect
  <2>5. Append(canon, spool[rc.off + 1]) \in Seq(Nat) BY <2>3 DEF TypeOK
  <2>6. canon' \in Seq(Nat) BY <2>4, <2>5 DEF TypeOK
  <2> QED BY <1>22, <2>1, <2>6 DEF RcReads, TypeOK
<1>23. CASE RcAcknowledges
  <2>1. st' = st /\ rc' \in Reconcilers /\ boot' \in {boot, "down", "up"}
    BY <1>23, RcControl DEF RcStep
  <2>2. rc.target \in 0 .. MaxOutput BY DEF TypeOK, Reconcilers
  <2>3. ack' \in 0 .. MaxOutput BY <1>23, <2>2 DEF RcAcknowledges, TypeOK
  <2> QED BY <1>23, <2>3, <2>1, <2>2 DEF RcAcknowledges, TypeOK
<1>24. CASE RcRecovers
  <2>1. st' = st /\ rc' \in Reconcilers /\ boot' \in {boot, "down", "up"}
    BY <1>24, RcControl DEF RcStep
  <2> QED BY <1>24, <2>1 DEF RcRecovers, TypeOK
<1>25. CASE RcPublishes
  <2>1. st' = st /\ rc' \in Reconcilers /\ boot' \in {boot, "down", "up"}
    BY <1>25, RcControl DEF RcStep
  <2> QED BY <1>25, <2>1, ReceiptType DEF RcPublishes, TypeOK, Importing
<1>26. CASE RcCloses
  <2>1. st' = st /\ rc' \in Reconcilers /\ boot' \in {boot, "down", "up"}
    BY <1>26, RcControl DEF RcStep
  <2>2. binding' \in {"none"} \cup Open \cup Closed BY <1>26 DEF RcCloses, TypeOK, Open, Closed
  <2> QED BY <1>26, <2>2, <2>1 DEF RcCloses, TypeOK
<1>27. CASE RcUnmarks
  <2>1. st' = st /\ rc' \in Reconcilers /\ boot' \in {boot, "down", "up"}
    BY <1>27, RcControl DEF RcStep
  <2>2. mark' \in BOOLEAN BY <1>27 DEF RcUnmarks, TypeOK
  <2> QED BY <1>27, <2>2, <2>1 DEF RcUnmarks, TypeOK
<1>28. CASE RcCleansUp
  <2>1. st' = st /\ rc' \in Reconcilers /\ boot' \in {boot, "down", "up"}
    BY <1>28, RcControl DEF RcStep
  <2>2. priv' \in BOOLEAN BY <1>28 DEF RcCleansUp, TypeOK
  <2> QED BY <1>28, <2>2, <2>1 DEF RcCleansUp, TypeOK
<1>29. CASE RcAbandons
  <2>1. st' = st /\ rc' \in Reconcilers /\ boot' \in {boot, "down", "up"}
    BY <1>29, RcControl DEF RcStep
  <2> QED BY <1>29, <2>1, ReceiptType DEF RcAbandons, TypeOK
<1>30. CASE RcLoses
  <2>1. st' = st /\ rc' \in Reconcilers /\ boot' \in {boot, "down", "up"}
    BY <1>30, RcControl DEF RcStep
  <2>2. mark' \in BOOLEAN BY <1>30 DEF RcLoses, TypeOK
  <2>3. binding' \in {"none"} \cup Open \cup Closed BY <1>30 DEF RcLoses, TypeOK, Open, Closed
  <2> QED BY <1>30, <2>3, <2>2, <2>1 DEF RcLoses, TypeOK
<1>31. CASE BootStarts
  BY <1>31 DEF BootStarts, TypeOK
<1>32. CASE BootAbandons
  BY <1>32, ReceiptType DEF BootAbandons, TypeOK
<1>33. CASE BootLists
  BY <1>33 DEF BootLists, TypeOK, Open, Closed
<1>34. CASE BootRepairs
  BY <1>34 DEF BootRepairs, TypeOK, Open, Closed
<1>35. CASE BootRefuses
  <2>1. rc' \in Reconcilers BY <1>35, RcOffType DEF BootRefuses, RcOff, Reconcilers, TypeOK
  <2>2. binding' \in {binding, "terminal", "lost"} /\ boot' \in {"inline", "up", "down"}
    BY <1>35 DEF BootRefuses
  <2> QED BY <1>35, <2>1, <2>2, FaultType DEF BootRefuses, TypeOK, Closed
<1>36. CASE BootUnmarks
  <2>1. mark' \in BOOLEAN BY <1>36 DEF BootUnmarks, TypeOK
  <2> QED BY <1>36, <2>1 DEF BootUnmarks, TypeOK
<1>37. CASE BootReattaches
  BY <1>37 DEF BootReattaches, TypeOK, Open, Closed
<1>38. CASE BootRuns
  <2>1. rc' \in Reconcilers BY <1>38, RcOffType DEF BootRuns, RcOff, Reconcilers, TypeOK
  <2> QED BY <1>38, <2>1 DEF BootRuns, TypeOK
<1>39. CASE BootRecovers
  <2>1. rc' \in Reconcilers BY <1>39, RcOffType DEF BootRecovers, RcOff, Reconcilers, TypeOK
  <2> QED BY <1>39, <2>1 DEF BootRecovers, TypeOK
<1>40. CASE BootLoses
  <2>1. rc' \in Reconcilers BY <1>40, RcOffType DEF BootLoses, RcOff, Reconcilers, TypeOK
  <2> QED BY <1>40, <2>1 DEF BootLoses, TypeOK
<1>41. CASE DaemonStops
  <2>1. crashes' \in 0 .. MaxCrashes BY <1>41, PersistentAssumption DEF DaemonStops, TypeOK
  <2> QED BY <1>41, <2>1, RcOffType DEF DaemonStops, TypeOK
<1>42. CASE UNCHANGED vars BY <1>42 DEF vars, TypeOK
<1> QED BY <1>1, <1>2, <1>3, <1>4, <1>5, <1>6, <1>7, <1>8, <1>9, <1>10, <1>11, <1>12, <1>13,
        <1>14, <1>15, <1>16, <1>17, <1>18, <1>19, <1>20, <1>21, <1>22, <1>23, <1>24, <1>25,
        <1>26, <1>27, <1>28, <1>29, <1>30, <1>31, <1>32, <1>33, <1>34, <1>35, <1>36, <1>37,
        <1>38, <1>39, <1>40, <1>41, <1>42
        DEF Next, SupervisorStep, StartStep, RcStep, BootStep

\* The launch marker admits one spawn.
LEMMA LaunchingNext == IInv /\ [Next]_vars => Launching'
<1> SUFFICES ASSUME IInv, [Next]_vars PROVE Launching' OBVIOUS
<1> TypeOK /\ Turns /\ Launching /\ Supervising BY DEF IInv
<1>1. CASE SupervisorStarts BY <1>1 DEF SupervisorStarts, Launching, TypeOK
<1>2. CASE FreezeTerminal BY <1>2 DEF FreezeTerminal, Launching, TypeOK
<1>3. CASE SupervisorExits BY <1>3 DEF SupervisorExits, Launching, TypeOK
<1>4. CASE SpoolAppends BY <1>4 DEF SpoolAppends, Launching, TypeOK
<1>5. CASE ChildExits
  BY <1>5 DEF ChildExits, Launching, Supervising
<1>6. CASE SupervisorDies
  BY <1>6 DEF SupervisorDies, Launching, Alive, Serving
<1>7. CASE StartReserves
  BY <1>7 DEF StartReserves, Launching, Turns
<1>8. CASE StartMarks BY <1>8 DEF StartMarks, Fail, Launching, TypeOK
<1>9. CASE StartBinds BY <1>9 DEF StartBinds, Fail, Launching, TypeOK
<1>10. CASE StartPrepares BY <1>10 DEF StartPrepares, Fail, Launching, TypeOK
<1>11. CASE StartClaims
  <2>1. ~launch /\ launches = 0 /\ sup = "none" BY <1>11 DEF StartClaims, Launching
  <2>2. \/ launch' /\ st' = "spawn"
        \/ launch' = launch /\ st' = "publish"
    BY <1>11, <2>1 DEF StartClaims, Fail
  <2>3. UNCHANGED <<launches, sup, priv>> BY <1>11 DEF StartClaims, Fail
  <2> QED BY <2>1, <2>2, <2>3 DEF Launching
<1>12. CASE StartSpawns
  <2>1. launch /\ launches = 0 /\ sup = "none" BY <1>12 DEF StartSpawns, Launching
  <2>2. st' \in {"attach", "publish"} /\ UNCHANGED <<launch, priv>>
    BY <1>12 DEF StartSpawns, Fail
  <2>3. launches' = launches + 1 \/ (launches' = launches /\ sup' = sup)
    BY <1>12 DEF StartSpawns, Fail
  <2> QED BY <2>1, <2>2, <2>3 DEF Launching
<1>13. CASE StartAttaches BY <1>13 DEF StartAttaches, Fail, Launching, TypeOK
<1>14. CASE StartAttachExpires BY <1>14 DEF StartAttachExpires, Fail, Launching, TypeOK
<1>15. CASE StartAdvances BY <1>15 DEF StartAdvances, Launching, TypeOK
<1>16. CASE StartRuns BY <1>16 DEF StartRuns, Fail, RcOff, Launching, TypeOK
<1>17. CASE StartPublishesFailure BY <1>17 DEF StartPublishesFailure, Launching, TypeOK
<1>18. CASE StartLosesBinding BY <1>18 DEF StartLosesBinding, Launching, TypeOK
<1>19. CASE StartUnmarks BY <1>19 DEF StartUnmarks, Launching, TypeOK
<1>20. CASE RcStatus
  BY <1>20, RcControl, RcNextPc, RcFailsEffect, RcEndsEffect, RcObservesEffect DEF RcStep,
     RcStatus, Launching, TypeOK
<1>21. CASE RcWaits
  BY <1>21, RcControl, RcNextPc, RcFailsEffect, RcEndsEffect, RcObservesEffect DEF RcStep,
     RcWaits, Launching, TypeOK
<1>22. CASE RcReads
  BY <1>22, RcControl, RcNextPc, RcFailsEffect, RcEndsEffect, RcObservesEffect DEF RcStep,
     RcReads, Launching, TypeOK
<1>23. CASE RcAcknowledges
  BY <1>23, RcControl, RcNextPc, RcFailsEffect, RcEndsEffect, RcObservesEffect DEF RcStep,
     RcAcknowledges, Launching, TypeOK
<1>24. CASE RcRecovers
  BY <1>24, RcControl, RcNextPc, RcFailsEffect, RcEndsEffect, RcObservesEffect DEF RcStep,
     RcRecovers, Launching, TypeOK
<1>25. CASE RcPublishes
  BY <1>25, RcControl, RcNextPc, RcFailsEffect, RcEndsEffect, RcObservesEffect DEF RcStep,
     RcPublishes, Launching, TypeOK
<1>26. CASE RcCloses
  BY <1>26, RcControl, RcNextPc, RcFailsEffect, RcEndsEffect, RcObservesEffect DEF RcStep,
     RcCloses, Launching, TypeOK
<1>27. CASE RcUnmarks
  BY <1>27, RcControl, RcNextPc, RcFailsEffect, RcEndsEffect, RcObservesEffect DEF RcStep,
     RcUnmarks, Launching, TypeOK
<1>28. CASE RcCleansUp
  <2>1. st = "idle" /\ st' = "idle" BY <1>28, RcEndsEffect DEF RcCleansUp, Turns
  <2> QED BY <1>28, <2>1 DEF RcCleansUp, Launching
<1>29. CASE RcAbandons
  BY <1>29, RcControl, RcNextPc, RcFailsEffect, RcEndsEffect, RcObservesEffect DEF RcStep,
     RcAbandons, Launching, TypeOK
<1>30. CASE RcLoses
  BY <1>30, RcControl, RcNextPc, RcFailsEffect, RcEndsEffect, RcObservesEffect DEF RcStep,
     RcLoses, Launching, TypeOK
<1>31. CASE BootStarts BY <1>31 DEF BootStarts, Launching, TypeOK
<1>32. CASE BootAbandons BY <1>32 DEF BootAbandons, Launching, TypeOK
<1>33. CASE BootLists BY <1>33 DEF BootLists, Launching, TypeOK
<1>34. CASE BootRepairs BY <1>34 DEF BootRepairs, Launching, TypeOK
<1>35. CASE BootRefuses BY <1>35 DEF BootRefuses, RcOff, Launching, TypeOK
<1>36. CASE BootUnmarks BY <1>36 DEF BootUnmarks, Launching, TypeOK
<1>37. CASE BootReattaches BY <1>37 DEF BootReattaches, Launching, TypeOK
<1>38. CASE BootRuns BY <1>38 DEF BootRuns, RcOff, Launching, TypeOK
<1>39. CASE BootRecovers BY <1>39 DEF BootRecovers, RcOff, Launching, TypeOK
<1>40. CASE BootLoses BY <1>40 DEF BootLoses, RcOff, Launching, TypeOK
<1>41. CASE DaemonStops BY <1>41 DEF DaemonStops, RcOff, Launching, TypeOK
<1>42. CASE UNCHANGED vars BY <1>42 DEF vars, Launching, TypeOK
<1> QED BY <1>1, <1>2, <1>3, <1>4, <1>5, <1>6, <1>7, <1>8, <1>9, <1>10, <1>11, <1>12, <1>13,
        <1>14, <1>15, <1>16, <1>17, <1>18, <1>19, <1>20, <1>21, <1>22, <1>23, <1>24, <1>25,
        <1>26, <1>27, <1>28, <1>29, <1>30, <1>31, <1>32, <1>33, <1>34, <1>35, <1>36, <1>37,
        <1>38, <1>39, <1>40, <1>41, <1>42
        DEF Next, SupervisorStep, StartStep, RcStep, BootStep

\* The marker outlives the open binding.
LEMMA MarkingNext == IInv /\ [Next]_vars => Marking'
<1> SUFFICES ASSUME IInv, [Next]_vars PROVE Marking' OBVIOUS
<1> TypeOK /\ Turns /\ Marking /\ Deciding BY DEF IInv
<1>1. CASE SupervisorStarts
  BY <1>1 DEF SupervisorStarts, Marking, TypeOK, NeverOwnerless, Open, Closed
<1>2. CASE FreezeTerminal
  BY <1>2 DEF FreezeTerminal, Marking, TypeOK, NeverOwnerless, Open, Closed
<1>3. CASE SupervisorExits
  BY <1>3 DEF SupervisorExits, Marking, TypeOK, NeverOwnerless, Open, Closed
<1>4. CASE SpoolAppends BY <1>4 DEF SpoolAppends, Marking, TypeOK, NeverOwnerless, Open, Closed
<1>5. CASE ChildExits BY <1>5 DEF ChildExits, Marking, TypeOK, NeverOwnerless, Open, Closed
<1>6. CASE SupervisorDies
  BY <1>6 DEF SupervisorDies, Marking, TypeOK, NeverOwnerless, Open, Closed
<1>7. CASE StartReserves
  BY <1>7 DEF StartReserves, Turns, Marking, NeverOwnerless, Open
<1>8. CASE StartMarks
  BY <1>8 DEF StartMarks, Fail, Marking, TypeOK, NeverOwnerless, Open, Closed
<1>9. CASE StartBinds
  BY <1>9 DEF StartBinds, Fail, Marking, TypeOK, NeverOwnerless, Open, Closed
<1>10. CASE StartPrepares
  BY <1>10 DEF StartPrepares, Fail, Marking, TypeOK, NeverOwnerless, Open, Closed
<1>11. CASE StartClaims
  BY <1>11 DEF StartClaims, Fail, Marking, TypeOK, NeverOwnerless, Open, Closed
<1>12. CASE StartSpawns
  BY <1>12 DEF StartSpawns, Fail, Marking, TypeOK, NeverOwnerless, Open, Closed
<1>13. CASE StartAttaches
  BY <1>13 DEF StartAttaches, Fail, Marking, TypeOK, NeverOwnerless, Open, Closed
<1>14. CASE StartAttachExpires
  BY <1>14 DEF StartAttachExpires, Fail, Marking, TypeOK, NeverOwnerless, Open, Closed
<1>15. CASE StartAdvances
  BY <1>15 DEF StartAdvances, Marking, TypeOK, NeverOwnerless, Open, Closed
<1>16. CASE StartRuns
  BY <1>16 DEF StartRuns, Fail, RcOff, Marking, TypeOK, NeverOwnerless, Open, Closed
<1>17. CASE StartPublishesFailure
  BY <1>17 DEF StartPublishesFailure, Marking, TypeOK, NeverOwnerless, Open, Closed
<1>18. CASE StartLosesBinding
  BY <1>18 DEF StartLosesBinding, Turns, Deciding, Marking, NeverOwnerless, Open, Closed, TypeOK
<1>19. CASE StartUnmarks
  BY <1>19 DEF StartUnmarks, Marking, TypeOK, NeverOwnerless, Open, Closed
<1>20. CASE RcImports
  BY <1>20, RcImportsEffect, RcControl DEF RcStep, RcImports, Marking, NeverOwnerless
<1>21. CASE RcPublishes
  BY <1>21, RcNextPc DEF RcPublishes, Marking, NeverOwnerless
<1>22. CASE RcCloses
  <2>1. st = "idle" /\ boot \in {"inline", "up"} /\ binding # "none"
    BY <1>22 DEF RcCloses, Turns, Marking
  <2>2. CASE RcFails(FALSE) /\ binding' \in {binding, "terminal"}
    BY <2>1, <2>2, <1>22, RcFailsEffect DEF RcCloses, Marking, NeverOwnerless, Open, Closed
  <2>3. CASE RcNext("unmark") /\ binding' = "terminal"
    BY <2>1, <2>3, <1>22, RcNextPc DEF RcCloses, Marking, NeverOwnerless, Open, Closed
  <2> QED BY <1>22, <2>2, <2>3 DEF RcCloses
<1>23. CASE RcUnmarks
  <2>1. binding = "terminal" /\ binding' = binding BY <1>23 DEF RcUnmarks, Marking
  <2>2. RcNext("cleanup") \/ RcFails(FALSE) BY <1>23 DEF RcUnmarks
  <2>3. st' = st /\ (boot' = boot \/ boot' = "down") /\ rc'.pc # "unmark"
    <3>1. CASE RcNext("cleanup") BY <3>1, RcNextPc
    <3>2. CASE RcFails(FALSE) BY <3>2, RcFailsEffect
    <3> QED BY <2>2, <3>1, <3>2
  <2>4. st = "idle" /\ boot \in {"inline", "up"} BY <1>23 DEF RcUnmarks, Turns
  <2> QED BY <2>1, <2>3, <2>4 DEF Marking, NeverOwnerless, Open, Closed
<1>24. CASE RcCleansUp
  <2>1. binding = "terminal" /\ UNCHANGED <<binding, mark>> BY <1>24 DEF RcCleansUp, Marking
  <2>2. st' = st /\ boot' \in {boot, "up"} /\ rc'.pc = "off"
    BY <1>24, RcEndsEffect DEF RcCleansUp, TypeOK
  <2> QED BY <2>1, <2>2 DEF Marking, NeverOwnerless, Open, Closed
<1>25. CASE RcAbandons
  BY <1>25, RcNextPc DEF RcAbandons, Marking, NeverOwnerless
<1>26. CASE RcLoses
  <2>1. st = "idle" /\ boot \in {"inline", "up"} /\ binding # "none"
    BY <1>26 DEF RcLoses, Turns, Marking
  <2>2. CASE binding' = "lost" /\ RcNext("lose")
    BY <2>1, <2>2, <1>26, RcNextPc DEF RcLoses, Marking, NeverOwnerless, Open, Closed
  <2>3. CASE binding \in Closed /\ RcEnds /\ UNCHANGED binding
    BY <2>1, <2>3, <1>26, RcEndsEffect DEF RcLoses, Marking, NeverOwnerless, Open, Closed,
       TypeOK
  <2>4. CASE UNCHANGED <<binding, mark>> /\ (RcFails(FALSE) \/ RcNext("lose"))
    BY <2>1, <2>4, <1>26, RcNextPc, RcFailsEffect DEF RcLoses, Marking, NeverOwnerless
  <2> QED BY <1>26, <2>2, <2>3, <2>4 DEF RcLoses
<1>27. CASE BootStarts BY <1>27 DEF BootStarts, Marking, TypeOK, NeverOwnerless, Open, Closed
<1>28. CASE BootAbandons
  BY <1>28 DEF BootAbandons, Marking, TypeOK, NeverOwnerless, Open, Closed
<1>29. CASE BootLists
  BY <1>29 DEF BootLists, Turns, Marking, NeverOwnerless, Open, Closed, TypeOK
<1>30. CASE BootRepairs
  BY <1>30 DEF BootRepairs, Turns, Marking, NeverOwnerless, Open, Closed, TypeOK
<1>31. CASE BootRefuses
  <2>1. binding \in Open /\ st = "idle" /\ rc.pc = "off"
    BY <1>31 DEF BootRefuses, Turns, Marking
  <2>2. UNCHANGED <<mark, st>> /\ (binding' = binding \/ binding' \in Closed)
    BY <1>31 DEF BootRefuses, Closed
  <2>3. \/ boot' = "inline" /\ rc'.pc = "lose" /\ binding' = binding
        \/ boot' = "up" /\ rc' = rc /\ binding' = "lost"
        \/ boot' = "down" /\ rc' = rc
    BY <1>31 DEF BootRefuses, RcOff
  <2> QED BY <2>1, <2>2, <2>3 DEF Marking, NeverOwnerless, Open, Closed
<1>32. CASE BootUnmarks BY <1>32 DEF BootUnmarks, Marking, TypeOK, NeverOwnerless, Open, Closed
<1>33. CASE BootReattaches
  BY <1>33 DEF BootReattaches, Marking, TypeOK, NeverOwnerless, Open, Closed
<1>34. CASE BootRuns BY <1>34 DEF BootRuns, RcOff, Marking, TypeOK, NeverOwnerless, Open, Closed
<1>35. CASE BootRecovers
  BY <1>35 DEF BootRecovers, RcOff, Marking, TypeOK, NeverOwnerless, Open, Closed
<1>36. CASE BootLoses
  BY <1>36 DEF BootLoses, RcOff, Marking, TypeOK, NeverOwnerless, Open, Closed
<1>37. CASE DaemonStops
  BY <1>37 DEF DaemonStops, RcOff, Marking, TypeOK, NeverOwnerless, Open, Closed
<1>38. CASE UNCHANGED vars BY <1>38 DEF vars, Marking, TypeOK, NeverOwnerless, Open, Closed
<1> QED BY <1>1, <1>2, <1>3, <1>4, <1>5, <1>6, <1>7, <1>8, <1>9, <1>10, <1>11, <1>12, <1>13,
        <1>14, <1>15, <1>16, <1>17, <1>18, <1>19, <1>20, <1>21, <1>22, <1>23, <1>24, <1>25,
        <1>26, <1>27, <1>28, <1>29, <1>30, <1>31, <1>32, <1>33, <1>34, <1>35, <1>36, <1>37,
        <1>38
        DEF Next, SupervisorStep, StartStep, RcStep, BootStep, RcImports

\* The receipt comes before the closed binding.
LEMMA DecidingNext == IInv /\ [Next]_vars => Deciding'
<1> SUFFICES ASSUME IInv, [Next]_vars PROVE Deciding' OBVIOUS
<1> TypeOK /\ Turns /\ Marking /\ Deciding /\ Importing BY DEF IInv
<1>1. CASE SupervisorStarts
  BY <1>1 DEF SupervisorStarts, Deciding, TypeOK, ClosedIsDecided, Open, Closed, NoReceipt,
       FailedStart, Abandoned, FromRecord
<1>2. CASE FreezeTerminal
  BY <1>2 DEF FreezeTerminal, Deciding, TypeOK, ClosedIsDecided, Open, Closed, NoReceipt,
       FailedStart, Abandoned, FromRecord
<1>3. CASE SupervisorExits
  BY <1>3 DEF SupervisorExits, Deciding, TypeOK, ClosedIsDecided, Open, Closed, NoReceipt,
       FailedStart, Abandoned, FromRecord
<1>4. CASE SpoolAppends
  BY <1>4 DEF SpoolAppends, Deciding, TypeOK, ClosedIsDecided, Open, Closed, NoReceipt,
       FailedStart, Abandoned, FromRecord
<1>5. CASE ChildExits
  BY <1>5 DEF ChildExits, Deciding, TypeOK, ClosedIsDecided, Open, Closed, NoReceipt,
       FailedStart, Abandoned, FromRecord
<1>6. CASE SupervisorDies
  BY <1>6 DEF SupervisorDies, Deciding, TypeOK, ClosedIsDecided, Open, Closed, NoReceipt,
       FailedStart, Abandoned, FromRecord
<1>7. CASE StartReserves
  BY <1>7 DEF StartReserves, Turns, Deciding, ClosedIsDecided
<1>8. CASE StartMarks
  BY <1>8 DEF StartMarks, Fail, Deciding, TypeOK, ClosedIsDecided, Open, Closed, NoReceipt,
       FailedStart, Abandoned, FromRecord
<1>9. CASE StartBinds
  BY <1>9 DEF StartBinds, Fail, Deciding, TypeOK, ClosedIsDecided, Open, Closed, NoReceipt,
       FailedStart, Abandoned, FromRecord
<1>10. CASE StartPrepares
  BY <1>10 DEF StartPrepares, Fail, Deciding, TypeOK, ClosedIsDecided, Open, Closed, NoReceipt,
       FailedStart, Abandoned, FromRecord
<1>11. CASE StartClaims
  BY <1>11 DEF StartClaims, Fail, Deciding, TypeOK, ClosedIsDecided, Open, Closed, NoReceipt,
       FailedStart, Abandoned, FromRecord
<1>12. CASE StartSpawns
  BY <1>12 DEF StartSpawns, Fail, Deciding, TypeOK, ClosedIsDecided, Open, Closed, NoReceipt,
       FailedStart, Abandoned, FromRecord
<1>13. CASE StartAttaches
  BY <1>13 DEF StartAttaches, Fail, Deciding, TypeOK, ClosedIsDecided, Open, Closed, NoReceipt,
       FailedStart, Abandoned, FromRecord
<1>14. CASE StartAttachExpires
  BY <1>14 DEF StartAttachExpires, Fail, Deciding, TypeOK, ClosedIsDecided, Open, Closed,
       NoReceipt, FailedStart, Abandoned, FromRecord
<1>15. CASE StartAdvances
  BY <1>15 DEF StartAdvances, Deciding, TypeOK, ClosedIsDecided, Open, Closed, NoReceipt,
       FailedStart, Abandoned, FromRecord
<1>16. CASE StartRuns
  BY <1>16 DEF StartRuns, Fail, RcOff, Deciding, TypeOK, ClosedIsDecided, Open, Closed,
       NoReceipt, FailedStart, Abandoned, FromRecord
<1>17. CASE StartPublishesFailure
  <2>1. FailedStart.kind = "failed_start" /\ NoReceipt.kind = "none"
    BY DEF FailedStart, NoReceipt
  <2>2. receipt = NoReceipt /\ receipt' = FailedStart /\ rc.pc = "off" /\ rc' = rc /\ boot' = "up"
    BY <1>17 DEF StartPublishesFailure, Deciding, Turns
  <2> QED BY <1>17, <2>1, <2>2 DEF StartPublishesFailure, Deciding, ClosedIsDecided
<1>18. CASE StartLosesBinding
  BY <1>18 DEF StartLosesBinding, Deciding, TypeOK, ClosedIsDecided, Open, Closed, NoReceipt,
       FailedStart, Abandoned, FromRecord
<1>19. CASE StartUnmarks
  BY <1>19 DEF StartUnmarks, Deciding, TypeOK, ClosedIsDecided, Open, Closed, NoReceipt,
       FailedStart, Abandoned, FromRecord
<1>20. CASE RcImports
  BY <1>20, RcImportsEffect, RcControl DEF RcStep, RcImports, Deciding, ClosedIsDecided
<1>21. CASE RcPublishes
  <2>1. rc'.pc = "close" /\ UNCHANGED <<boot, st, binding>> /\ rc.pc = "publish"
    BY <1>21, RcNextPc DEF RcPublishes
  <2>2. receipt'.kind = "terminal" /\ receipt.kind \in {"none", "terminal"}
    BY <1>21 DEF RcPublishes, NoReceipt, FromRecord
  <2>3. st = "idle" /\ boot # "attached" BY <2>1 DEF Turns
  <2> QED BY <2>1, <2>2, <2>3 DEF Deciding, ClosedIsDecided
<1>22. CASE RcCloses
  <2>1. receipt.kind = "terminal" /\ receipt' = receipt /\ st = "idle" /\ boot # "attached"
    BY <1>22 DEF RcCloses, Deciding, Turns
  <2>2. receipt # NoReceipt BY <2>1 DEF NoReceipt
  <2>3. binding' \in {binding, "terminal"} BY <1>22 DEF RcCloses
  <2>4. CASE RcFails(FALSE)
    BY <2>1, <2>2, <2>3, <2>4, RcFailsEffect DEF Deciding, ClosedIsDecided
  <2>5. CASE RcNext("unmark") BY <2>1, <2>2, <2>3, <2>5, RcNextPc DEF Deciding, ClosedIsDecided
  <2> QED BY <1>22, <2>4, <2>5 DEF RcCloses
<1>23. CASE RcUnmarks
  <2>1. /\ receipt.kind = "terminal" /\ UNCHANGED <<receipt, binding>>
        /\ st = "idle" /\ boot # "attached"
    BY <1>23 DEF RcUnmarks, Deciding, Turns
  <2>2. receipt # NoReceipt BY <2>1 DEF NoReceipt
  <2>3. CASE RcFails(FALSE) BY <2>1, <2>2, <2>3, RcFailsEffect DEF Deciding, ClosedIsDecided
  <2>4. CASE RcNext("cleanup") BY <2>1, <2>2, <2>4, RcNextPc DEF Deciding, ClosedIsDecided
  <2> QED BY <1>23, <2>3, <2>4 DEF RcUnmarks
<1>24. CASE RcCleansUp
  <2>1. UNCHANGED <<receipt, binding>> /\ st = "idle" /\ boot # "attached"
    BY <1>24 DEF RcCleansUp, Turns
  <2>2. st' = "idle" /\ rc'.pc = "off" /\ boot' # "attached"
    BY <1>24, <2>1, RcEndsEffect DEF RcCleansUp, TypeOK
  <2> QED BY <2>1, <2>2 DEF Deciding, ClosedIsDecided
<1>25. CASE RcAbandons
  <2>1. rc'.pc = "lose" /\ UNCHANGED <<boot, st, binding>> /\ rc.pc = "abandon"
    BY <1>25, RcNextPc DEF RcAbandons
  <2>2. receipt' = Abandoned /\ Abandoned.kind = "abandoned" /\ receipt = NoReceipt /\ NoReceipt.kind = "none"
    BY <1>25 DEF RcAbandons, Deciding, Abandoned, NoReceipt
  <2>3. st = "idle" /\ boot # "attached" BY <2>1 DEF Turns
  <2> QED BY <2>1, <2>2, <2>3 DEF Deciding, ClosedIsDecided
<1>26. CASE RcLoses
  <2>1. receipt = Abandoned /\ receipt' = receipt /\ st = "idle" /\ boot # "attached"
    BY <1>26 DEF RcLoses, Deciding, Turns
  <2>2. Abandoned # NoReceipt /\ Abandoned.kind = "abandoned" BY DEF NoReceipt, Abandoned
  <2>3. binding' \in {binding, "lost"} BY <1>26 DEF RcLoses
  <2>4. CASE RcFails(FALSE)
    BY <2>1, <2>2, <2>3, <2>4, RcFailsEffect DEF Deciding, ClosedIsDecided
  <2>5. CASE RcNext("lose") BY <2>1, <2>2, <2>3, <2>5, RcNextPc DEF Deciding, ClosedIsDecided
  <2>6. CASE RcEnds
    BY <2>1, <2>2, <2>3, <2>6, RcEndsEffect DEF Deciding, ClosedIsDecided, TypeOK
  <2> QED BY <1>26, <2>4, <2>5, <2>6 DEF RcLoses
<1>27. CASE BootStarts
  BY <1>27 DEF BootStarts, Deciding, TypeOK, ClosedIsDecided, Open, Closed, NoReceipt,
       FailedStart, Abandoned, FromRecord
<1>28. CASE BootAbandons
  <2>1. Abandoned.kind = "abandoned" BY DEF Abandoned
  <2>2. rc.pc = "off" /\ st = "idle" BY <1>28 DEF BootAbandons, Turns
  <2>3. receipt' = receipt \/ (receipt' = Abandoned /\ binding = "none")
    BY <1>28 DEF BootAbandons
  <2> QED BY <1>28, <2>1, <2>2, <2>3 DEF BootAbandons, Deciding, ClosedIsDecided
<1>29. CASE BootLists
  BY <1>29 DEF BootLists, Deciding, TypeOK, ClosedIsDecided, Open, Closed, NoReceipt,
       FailedStart, Abandoned, FromRecord
<1>30. CASE BootRepairs
  <2>1. receipt.kind \in {"failed_start", "abandoned", "terminal"} /\ receipt' = receipt
    BY <1>30, ReceiptKind DEF BootRepairs, TypeOK
  <2>2. /\ rc.pc = "off" /\ st = "idle" /\ UNCHANGED <<rc, st>> /\ boot' = "unmark"
        /\ binding' = IF receipt.kind = "terminal" THEN "terminal" ELSE "lost"
    BY <1>30 DEF BootRepairs, Turns
  <2> QED BY <2>1, <2>2 DEF Deciding, ClosedIsDecided
<1>31. CASE BootRefuses
  <2>1. receipt.kind \in {"failed_start", "abandoned", "terminal"} /\ receipt' = receipt
    BY <1>31, ReceiptKind DEF BootRefuses, TypeOK
  <2>2. rc.pc = "off" /\ st = "idle" /\ st' = st BY <1>31 DEF BootRefuses, Turns
  <2>3. \/ boot' = "inline" /\ rc'.pc = "lose" /\ binding' = binding /\ receipt = Abandoned
        \/ boot' = "up" /\ rc' = rc /\ binding' = "lost" /\ receipt = Abandoned
        \/ /\ boot' = "down" /\ rc' = rc
           /\ \/ binding' = binding
              \/ binding' = IF receipt.kind = "terminal" THEN "terminal" ELSE "lost"
    BY <1>31 DEF BootRefuses, RcOff
  <2>4. receipt = Abandoned => receipt.kind = "abandoned" BY DEF Abandoned
  <2> QED BY <2>1, <2>2, <2>3, <2>4 DEF Deciding, ClosedIsDecided
<1>32. CASE BootUnmarks
  BY <1>32 DEF BootUnmarks, Deciding, TypeOK, ClosedIsDecided, Open, Closed, NoReceipt,
       FailedStart, Abandoned, FromRecord
<1>33. CASE BootReattaches
  BY <1>33 DEF BootReattaches, Deciding, TypeOK, ClosedIsDecided, Open, Closed, NoReceipt,
       FailedStart, Abandoned, FromRecord
<1>34. CASE BootRuns
  BY <1>34 DEF BootRuns, RcOff, Deciding, TypeOK, ClosedIsDecided, Open, Closed, NoReceipt,
       FailedStart, Abandoned, FromRecord
<1>35. CASE BootRecovers
  BY <1>35 DEF BootRecovers, RcOff, Deciding, TypeOK, ClosedIsDecided, Open, Closed, NoReceipt,
       FailedStart, Abandoned, FromRecord
<1>36. CASE BootLoses
  BY <1>36 DEF BootLoses, RcOff, Deciding, TypeOK, ClosedIsDecided, Open, Closed, NoReceipt,
       FailedStart, Abandoned, FromRecord
<1>37. CASE DaemonStops
  BY <1>37 DEF DaemonStops, RcOff, Deciding, TypeOK, ClosedIsDecided, Open, Closed, NoReceipt,
       FailedStart, Abandoned, FromRecord
<1>38. CASE UNCHANGED vars
  BY <1>38 DEF vars, Deciding, TypeOK, ClosedIsDecided, Open, Closed, NoReceipt, FailedStart,
       Abandoned, FromRecord
<1> QED BY <1>1, <1>2, <1>3, <1>4, <1>5, <1>6, <1>7, <1>8, <1>9, <1>10, <1>11, <1>12, <1>13,
        <1>14, <1>15, <1>16, <1>17, <1>18, <1>19, <1>20, <1>21, <1>22, <1>23, <1>24, <1>25,
        <1>26, <1>27, <1>28, <1>29, <1>30, <1>31, <1>32, <1>33, <1>34, <1>35, <1>36, <1>37,
        <1>38
        DEF Next, SupervisorStep, StartStep, RcStep, BootStep, RcImports

\* The daemon, but for the spawn, touches neither the processes nor what they write.
LEMMA DaemonFrame ==
  ASSUME BootStep \/ DaemonStops \/ RcStep \/ StartReserves \/ (StartStep /\ ~StartSpawns)
  PROVE  UNCHANGED <<process, spool, size, term>>
BY DEF BootStep, RcStep, StartStep, Fail, StartReserves, StartMarks, StartBinds, StartPrepares,
   StartClaims, StartAttaches,
         StartAttachExpires, StartAdvances, StartRuns, StartPublishesFailure, StartLosesBinding,
         StartUnmarks, RcStatus, RcWaits, RcReads, RcAcknowledges, RcRecovers, RcPublishes,
         RcCloses, RcUnmarks, RcCleansUp, RcAbandons, RcLoses, BootStarts, BootAbandons,
         BootLists, BootRepairs, BootRefuses, BootUnmarks, BootReattaches, BootRuns, BootRecovers, BootLoses,
         DaemonStops

\* The record tells of the child.
LEMMA SupervisingNext == IInv /\ [Next]_vars => Supervising'
<1> SUFFICES ASSUME IInv, [Next]_vars PROVE Supervising' OBVIOUS
<1> TypeOK /\ Turns /\ Launching /\ Supervising /\ Spooling BY DEF IInv
<1>1. CASE SupervisorStarts
  <2>1. child = "none" /\ term \notin Records /\ term # Torn /\ wrote = 0 /\ size = 0 /\ ~capture
    BY <1>1 DEF SupervisorStarts, Supervising, Spooling, TypeOK
  <2>2. [state |-> "failed", out |-> 0, complete |-> TRUE] # Torn BY DEF Torn, NoRecord
  <2>3. UNCHANGED <<size, wrote, code, capture>> BY <1>1 DEF SupervisorStarts
  <2>4. CASE term' = term /\ sup' \in {"serving", "gone"}
    BY <1>1, <2>1, <2>3, <2>4 DEF SupervisorStarts, Supervising
  <2>5. CASE /\ term' = [state |-> "failed", out |-> 0, complete |-> TRUE]
             /\ sup' = "gone" /\ child' = child
    BY <2>1, <2>2, <2>3, <2>5 DEF Supervising
  <2> QED BY <1>1, <2>4, <2>5 DEF SupervisorStarts
<1>2. CASE FreezeTerminal
  <2>1. child = "gone" /\ term \notin Records /\ term # Torn
    BY <1>2 DEF FreezeTerminal, Supervising
  <2>2. UNCHANGED <<size, wrote, code, capture, child>> /\ sup' = "frozen"
    BY <1>2 DEF FreezeTerminal
  <2>3. CASE term' = term BY <2>1, <2>2, <2>3 DEF Supervising
  <2>4. CASE term' = [state |-> TerminalOutcome, out |-> size, complete |-> ~capture]
    <3>1. term' # Torn BY <2>4 DEF Torn, NoRecord, TerminalOutcome
    <3>2. term'.out = size /\ (term'.complete <=> ~capture) /\ term'.state = TerminalOutcome
      BY <2>4
    <3>3. term'.state = "completed" => code = "zero" /\ ~capture BY <3>2 DEF TerminalOutcome
    <3> QED BY <2>1, <2>2, <3>1, <3>2, <3>3 DEF Supervising
  <2> QED BY <1>2, <2>3, <2>4 DEF FreezeTerminal
<1>3. CASE SupervisorExits BY <1>3 DEF SupervisorExits, Supervising, TypeOK
<1>4. CASE SpoolAppends
  <2>1. child = "running" /\ sup = "serving" /\ term \notin Records
    BY <1>4 DEF SpoolAppends, Supervising
  <2>2. UNCHANGED <<child, sup, term, code>> BY <1>4 DEF SpoolAppends
  <2> QED BY <2>1, <2>2 DEF Supervising
<1>5. CASE ChildExits
  <2>1. sup \notin {"none", "booting"} /\ sup \notin {"finalizing", "frozen"} /\ sup' # "serving"
    BY <1>5 DEF ChildExits, Supervising
  <2>2. term.state # "completed" BY <1>5 DEF ChildExits, Supervising
  <2> QED BY <1>5, <2>1, <2>2 DEF ChildExits, Supervising
<1>6. CASE SupervisorDies
  <2>1. Torn \notin Records /\ Torn.state = "torn" BY DEF Torn, NoRecord, Records
  <2>2. UNCHANGED <<size, wrote, code, capture, child>> /\ sup' = "gone"
    BY <1>6 DEF SupervisorDies
  <2>3. sup # "none" /\ term' \in {term, Torn} BY <1>6 DEF SupervisorDies, Alive, Serving
  <2> QED BY <2>1, <2>2, <2>3 DEF Supervising
<1>7. CASE StartSpawns
  <2>1. sup = "none" BY <1>7 DEF StartSpawns, Launching
  <2>2. child = "none" /\ term \notin Records /\ term # Torn BY <2>1 DEF Supervising
  <2> QED BY <1>7, <2>1, <2>2 DEF StartSpawns, Fail, Supervising
<1>8. CASE BootStep \/ DaemonStops \/ RcStep \/ StartReserves \/ (StartStep /\ ~StartSpawns)
  BY <1>8, DaemonFrame DEF Supervising
<1>9. CASE UNCHANGED vars BY <1>9 DEF vars, Supervising, TypeOK
<1> QED BY <1>1, <1>2, <1>3, <1>4, <1>5, <1>6, <1>7, <1>8, <1>9
        DEF Next, SupervisorStep, StartStep

\* The spool grows in the order of the output.
LEMMA SpoolingNext == IInv /\ [Next]_vars => Spooling'
<1> SUFFICES ASSUME IInv, [Next]_vars PROVE Spooling' OBVIOUS
<1> TypeOK /\ Supervising /\ Spooling BY DEF IInv
<1>1. CASE SupervisorStarts BY <1>1 DEF SupervisorStarts, Spooling, TypeOK
<1>2. CASE FreezeTerminal BY <1>2 DEF FreezeTerminal, Spooling, TypeOK
<1>3. CASE SupervisorExits BY <1>3 DEF SupervisorExits, Spooling, TypeOK
<1>4. CASE SpoolAppends
  <2>1. wrote' = wrote + 1 /\ wrote \in Nat /\ size \in Nat /\ spool \in Seq(Nat)
    BY <1>4 DEF SpoolAppends, TypeOK
  <2> DEFINE longer == Append(spool, wrote')
  <2>2. /\ Len(longer) = Len(spool) + 1
        /\ \A i \in 1 .. Len(longer) : longer[i] = IF i = Len(spool) + 1 THEN wrote' ELSE spool[i]
    BY <2>1
  <2>3. /\ size <= Len(spool) /\ Len(spool) <= wrote
        /\ \A i \in 1 .. Len(spool) : spool[i] <= wrote /\ spool[i] \in Nat
        /\ \A i, j \in 1 .. Len(spool) : i < j => spool[i] < spool[j]
        /\ ~capture => /\ size = wrote /\ Len(spool) = wrote
                       /\ \A i \in 1 .. Len(spool) : spool[i] = i
    BY <2>1 DEF Spooling
  <2>4. /\ \A i \in 1 .. Len(longer) : longer[i] <= wrote'
        /\ \A i, j \in 1 .. Len(longer) : i < j => longer[i] < longer[j]
        /\ ~capture => \A i \in 1 .. Len(longer) : longer[i] = i
    <3> HIDE DEF longer
    <3> Len(spool) \in Nat BY <2>1
    <3>1. ASSUME NEW i \in 1 .. Len(longer) PROVE longer[i] <= wrote' BY <2>1, <2>2, <2>3
    <3>2. ASSUME NEW i \in 1 .. Len(longer), NEW j \in 1 .. Len(longer), i < j
          PROVE longer[i] < longer[j]
      <4>1. i \in 1 .. Len(spool) /\ i # Len(spool) + 1 BY <2>2, <3>2
      <4>2. longer[i] = spool[i] BY <2>2, <4>1
      <4>3. CASE j = Len(spool) + 1 BY <2>1, <2>2, <2>3, <4>1, <4>2, <4>3
      <4>4. CASE j \in 1 .. Len(spool) /\ j # Len(spool) + 1
        BY <2>2, <2>3, <3>2, <4>1, <4>2, <4>4
      <4> QED BY <2>2, <4>3, <4>4
    <3>3. ASSUME ~capture, NEW i \in 1 .. Len(longer) PROVE longer[i] = i
      BY <2>1, <2>2, <2>3, <3>3
    <3> QED BY <3>1, <3>2, <3>3
  <2>5. CASE spool' = longer /\ size' = size + 1 /\ (capture' <=> capture)
    <3> HIDE DEF longer
    <3>1. size' <= Len(spool') /\ Len(spool') <= wrote' BY <2>1, <2>2, <2>3, <2>5
    <3>2. ~capture' => size' = wrote' /\ Len(spool') = wrote' BY <2>1, <2>2, <2>3, <2>5
    <3> QED BY <2>4, <2>5, <3>1, <3>2 DEF Spooling
  <2>6. CASE spool' = longer /\ size' = size /\ capture'
    <3> HIDE DEF longer
    <3>1. size' <= Len(spool') /\ Len(spool') <= wrote' BY <2>1, <2>2, <2>3, <2>6
    <3> QED BY <2>4, <2>6, <3>1 DEF Spooling
  <2>7. CASE spool' = spool /\ size' = size /\ capture'
    BY <2>1, <2>3, <2>7 DEF Spooling
  <2>8. \/ /\ size' = size + 1 /\ (capture' <=> capture) /\ spool' = longer
        \/ /\ size' = size /\ capture' /\ (spool' = spool \/ spool' = longer)
    BY <1>4 DEF SpoolAppends
  <2> QED BY <2>5, <2>6, <2>7, <2>8
<1>5. CASE ChildExits BY <1>5 DEF ChildExits, Spooling, TypeOK
<1>6. CASE SupervisorDies BY <1>6 DEF SupervisorDies, Spooling, TypeOK
<1>7. CASE StartSpawns BY <1>7 DEF StartSpawns, Fail, Spooling, TypeOK
<1>8. CASE BootStep \/ DaemonStops \/ RcStep \/ StartReserves \/ (StartStep /\ ~StartSpawns)
  BY <1>8, DaemonFrame DEF Spooling
<1>9. CASE UNCHANGED vars BY <1>9 DEF vars, Spooling, TypeOK
<1> QED BY <1>1, <1>2, <1>3, <1>4, <1>5, <1>6, <1>7, <1>8, <1>9
        DEF Next, SupervisorStep, StartStep

\* An import repeats nothing and skips nothing.
LEMMA ImportingNext == IInv /\ [Next]_vars => Importing'
<1> SUFFICES ASSUME IInv, [Next]_vars PROVE Importing' OBVIOUS
<1> TypeOK /\ Turns /\ Launching /\ Deciding /\ Supervising /\ Spooling /\ Importing BY DEF IInv
<1>1. CASE SupervisorStarts
  <2>1. term \notin Records BY <1>1 DEF SupervisorStarts, Supervising
  <2> QED BY <1>1, <2>1 DEF SupervisorStarts, Importing
<1>2. CASE FreezeTerminal
  <2>1. term \notin Records BY <1>2 DEF FreezeTerminal, Supervising
  <2> QED BY <1>2, <2>1 DEF FreezeTerminal, Importing
<1>3. CASE SupervisorExits BY <1>3 DEF SupervisorExits, Importing
<1>4. CASE SpoolAppends
  <2>1. term \notin Records BY <1>4 DEF SpoolAppends, Supervising
  <2>2. size' \in {size, size + 1} BY <1>4 DEF SpoolAppends
  <2>3. \A i \in 1 .. Len(spool) : spool'[i] = spool[i]
    <3>1. spool' = spool \/ spool' = Append(spool, wrote') BY <1>4 DEF SpoolAppends
    <3>2. spool \in Seq(Nat) BY DEF TypeOK
    <3>3. wrote' \in Nat BY <1>4, PersistentAssumption DEF SpoolAppends, TypeOK
    <3>4. \A i \in 1 .. Len(spool) : Append(spool, wrote')[i] = spool[i] BY <3>2, <3>3
    <3> QED BY <3>1, <3>4
  <2>4. \A i \in 1 .. Len(canon) : spool'[i] = spool[i]
    BY <2>3 DEF TypeOK, Importing, Spooling
  <2>5. UNCHANGED <<canon, ack, term, receipt, launch, priv, rc>> BY <1>4 DEF SpoolAppends
  <2>6. rc.pc = "read" => rc.target <= size' BY <2>2 DEF Importing, TypeOK, Reconcilers
  <2>7. Len(canon) <= size' BY <2>2 DEF Importing, TypeOK
  <2> QED BY <2>1, <2>4, <2>5, <2>6, <2>7 DEF Importing
<1>5. CASE ChildExits BY <1>5 DEF ChildExits, Importing
<1>6. CASE SupervisorDies
  <2>1. \/ term' = term
        \/ term \notin Records
    BY <1>6 DEF SupervisorDies, Supervising
  <2> QED BY <1>6, <2>1 DEF SupervisorDies, Importing
<1>7. CASE StartReserves BY <1>7 DEF StartReserves, Importing
<1>8. CASE StartMarks BY <1>8 DEF StartMarks, Fail, Importing
<1>9. CASE StartBinds BY <1>9 DEF StartBinds, Fail, Importing
<1>10. CASE StartPrepares
  <2>1. UNCHANGED <<canon, spool, size, ack, term, receipt, launch, rc>> /\ (priv' \/ priv' = priv)
    BY <1>10 DEF StartPrepares, Fail
  <2> QED BY <2>1 DEF Importing
<1>11. CASE StartClaims
  <2>1. priv /\ rc.pc = "off" BY <1>11 DEF StartClaims, Launching, Turns
  <2>2. UNCHANGED <<canon, spool, size, ack, term, receipt, priv, rc>>
    BY <1>11 DEF StartClaims, Fail
  <2> QED BY <2>1, <2>2 DEF Importing
<1>12. CASE StartSpawns BY <1>12 DEF StartSpawns, Fail, Importing
<1>13. CASE StartAttaches BY <1>13 DEF StartAttaches, Fail, Importing
<1>14. CASE StartAttachExpires BY <1>14 DEF StartAttachExpires, Fail, Importing
<1>15. CASE StartAdvances BY <1>15 DEF StartAdvances, Importing
<1>16. CASE StartRuns
  <2>1. rc'.pc \in {rc.pc, "status"} /\ (rc'.pc = "status" \/ rc' = rc)
    BY <1>16 DEF StartRuns, Fail, RcOff
  <2>2. UNCHANGED <<canon, spool, size, ack, term, receipt, launch, priv>>
    BY <1>16 DEF StartRuns, Fail
  <2> QED BY <2>1, <2>2 DEF Importing
<1>17. CASE StartPublishesFailure
  <2>1. receipt = NoReceipt /\ receipt' = FailedStart /\ NoReceipt.kind = "none" /\ FailedStart.kind = "failed_start"
    BY <1>17 DEF StartPublishesFailure, Deciding, NoReceipt, FailedStart
  <2>2. UNCHANGED <<canon, spool, size, ack, term, launch, priv, rc>>
    BY <1>17 DEF StartPublishesFailure
  <2> QED BY <2>1, <2>2 DEF Importing
<1>18. CASE StartLosesBinding BY <1>18 DEF StartLosesBinding, Importing
<1>19. CASE StartUnmarks BY <1>19 DEF StartUnmarks, Importing
<1>20. CASE RcStatus
  <2>1. UNCHANGED <<canon, spool, size, ack, term, receipt, launch, priv>> BY <1>20 DEF RcStatus
  <2>2. CASE rc'.pc = "read" /\ rc'.off = ack /\ rc'.target = size /\ ~rc'.fin
    BY <2>1, <2>2 DEF Importing, TypeOK
  <2>3. CASE rc'.pc = "recover" /\ term \in Records BY <2>1, <2>3 DEF Importing
  <2>4. CASE rc'.pc \in {"off", "status", "abandon"} BY <2>1, <2>4 DEF Importing
  <2>5. RcNext("recover") /\ Loadable => rc'.pc = "recover" /\ term \in Records
    BY RcNextPc DEF Loadable
  <2>6. RcFails(TRUE) => rc'.pc \in {"off", "status", "abandon"} BY RcFailsEffect
  <2>7. RcObserves BY <1>20 DEF RcStatus
  <2> QED BY <2>2, <2>3, <2>4, <2>5, <2>6, <2>7, RcObservesEffect
<1>21. CASE RcWaits
  <2>1. UNCHANGED <<canon, spool, size, ack, term, receipt, launch, priv>> BY <1>21 DEF RcWaits
  <2>2. CASE rc'.pc = "read" /\ rc'.off = ack /\ rc'.target = size /\ ~rc'.fin
    BY <2>1, <2>2 DEF Importing, TypeOK
  <2>3. CASE rc'.pc = "recover" /\ term \in Records BY <2>1, <2>3 DEF Importing
  <2>4. CASE rc'.pc \in {"off", "status", "abandon"} BY <2>1, <2>4 DEF Importing
  <2>5. RcNext("recover") /\ Loadable => rc'.pc = "recover" /\ term \in Records
    BY RcNextPc DEF Loadable
  <2>6. RcFails(TRUE) => rc'.pc \in {"off", "status", "abandon"} BY RcFailsEffect
  <2>7. RcObserves BY <1>21 DEF RcWaits
  <2> QED BY <2>2, <2>3, <2>4, <2>5, <2>6, <2>7, RcObservesEffect
<1>22. CASE RcReads
  <2>1. UNCHANGED <<spool, size, ack, term, receipt, launch, priv>> BY <1>22 DEF RcReads
  <2>2. CASE canon' = canon /\ (RcFails(TRUE) \/ RcFails(FALSE))
    <3>1. rc'.pc \in {"off", "status", "abandon"} BY <2>2, RcFailsEffect
    <3> QED BY <2>1, <2>2, <3>1 DEF Importing
  <2>3. CASE /\ rc'.pc = "read" /\ rc'.off = rc.off + 1 /\ rc.off < rc.target
             /\ rc'.target = rc.target /\ (rc'.fin <=> rc.fin)
             /\ \/ rc.off = Len(canon) /\ canon' = Append(canon, spool[rc.off + 1])
                \/ rc.off < Len(canon) /\ canon' = canon
    <3>1. rc.off \in Nat /\ rc.target \in Nat /\ size \in Nat /\ rc.pc = "read"
      BY <1>22 DEF RcReads, TypeOK, Reconcilers
    <3>2. CASE rc.off < Len(canon) /\ canon' = canon
      BY <2>1, <2>3, <3>1, <3>2 DEF Importing, TypeOK
    <3>3. CASE rc.off = Len(canon) /\ canon' = Append(canon, spool[rc.off + 1])
      <4>1. Len(canon') = Len(canon) + 1 BY <3>3 DEF TypeOK
      <4>2. ASSUME NEW i \in 1 .. Len(canon') PROVE canon'[i] = spool[i]
        BY <3>1, <3>3, <4>1, <4>2 DEF TypeOK, Importing
      <4>3. receipt.kind # "terminal"
        BY <2>3, <3>1, <3>3 DEF Importing, Supervising
      <4>4. rc.target <= size BY <3>1 DEF Importing
      <4>5. Len(canon') <= size /\ rc'.off <= Len(canon') /\ rc'.off <= rc'.target /\ ack <= Len(canon')
        BY <2>3, <3>1, <3>3, <4>1, <4>4 DEF Importing, TypeOK
      <4> QED BY <2>1, <2>3, <3>1, <4>2, <4>3, <4>4, <4>5 DEF Importing
    <3> QED BY <2>3, <3>2, <3>3
  <2> QED BY <1>22, <2>2, <2>3, RcReadsEffect
<1>23. CASE RcAcknowledges
  <2>1. /\ UNCHANGED <<canon, spool, size, term, receipt, launch, priv>>
        /\ rc.pc = "read" /\ rc.off = rc.target /\ rc.target \in Nat
    BY <1>23 DEF RcAcknowledges, TypeOK, Reconcilers
  <2>2. CASE RcFails(TRUE) /\ ack' = ack
    <3>1. rc'.pc \in {"off", "status", "abandon"} BY <2>2, RcFailsEffect
    <3> QED BY <2>1, <2>2, <3>1 DEF Importing
  <2>3. CASE ack' = rc.target
    <3>1. ack' <= Len(canon) BY <2>1, <2>3 DEF Importing
    <3>2. CASE rc.fin /\ RcNext("publish")
      <4>1. rc'.pc = "publish" BY <3>2, RcNextPc
      <4>2. term \in Records /\ ack' = term.out BY <2>1, <2>3, <3>2 DEF Importing
      <4> QED BY <2>1, <3>1, <4>1, <4>2 DEF Importing
    <3>3. CASE RcNext("wait")
      <4>1. rc'.pc = "wait" BY <3>3, RcNextPc
      <4> QED BY <2>1, <3>1, <4>1 DEF Importing
    <3>4. CASE Loadable /\ RcNext("recover")
      <4>1. rc'.pc = "recover" /\ term \in Records BY <3>4, RcNextPc DEF Loadable
      <4> QED BY <2>1, <3>1, <4>1 DEF Importing
    <3>5. CASE RcFails(TRUE)
      <4>1. rc'.pc \in {"off", "status", "abandon"} BY <3>5, RcFailsEffect
      <4> QED BY <2>1, <3>1, <4>1 DEF Importing
    <3> QED BY <1>23, <2>2, <3>2, <3>3, <3>4, <3>5 DEF RcAcknowledges
  <2> QED BY <1>23, <2>2, <2>3 DEF RcAcknowledges
<1>24. CASE RcRecovers
  <2>1. UNCHANGED <<canon, spool, size, ack, term, receipt, launch, priv>> /\ rc.pc = "recover"
    BY <1>24 DEF RcRecovers
  <2>2. CASE RcFails(TRUE)
    <3>1. rc'.pc \in {"off", "status", "abandon"} BY <2>2, RcFailsEffect
    <3> QED BY <2>1, <3>1 DEF Importing
  <2>3. CASE Verified /\ rc' = [rc EXCEPT !.pc = "read", !.off = ack, !.target = term.out, !.fin = TRUE]
    <3>1. rc'.pc = "read" /\ rc'.off = ack /\ rc'.target = term.out
      BY <2>3 DEF TypeOK, Reconcilers
    <3>2. term \in Records /\ term.out = size BY <2>3 DEF Verified, Loadable, Supervising
    <3>3. ack <= Len(canon) /\ Len(canon) <= size /\ ack <= size BY DEF Importing, TypeOK
    <3>4. term.out <= size BY <3>2 DEF TypeOK
    <3> QED BY <2>1, <3>1, <3>2, <3>3, <3>4 DEF Importing
  <2> QED BY <1>24, <2>2, <2>3 DEF RcRecovers
<1>25. CASE RcPublishes
  <2>1. /\ UNCHANGED <<canon, spool, size, ack, term, launch, priv>> /\ rc.pc = "publish"
        /\ rc'.pc = "close" /\ receipt' = FromRecord(term)
    BY <1>25, RcNextPc DEF RcPublishes
  <2>2. receipt'.kind = "terminal" /\ receipt'.rec = term BY <2>1 DEF FromRecord
  <2>3. term \in Records /\ ack = term.out /\ term.out = size BY <2>1 DEF Importing, Supervising
  <2>4. Len(canon) = term.out BY <2>3 DEF Importing, TypeOK
  <2> QED BY <2>1, <2>2, <2>3, <2>4 DEF Importing
<1>26. CASE RcCloses
  <2>1. UNCHANGED <<canon, spool, size, ack, term, receipt, launch, priv>> BY <1>26 DEF RcCloses
  <2>2. RcNext("unmark") \/ RcFails(FALSE) BY <1>26 DEF RcCloses
  <2>3. RcFails(FALSE) => rc'.pc \notin {"read", "recover", "publish"} BY RcFailsEffect
  <2>4. RcNext("unmark") => rc'.pc \notin {"read", "recover", "publish"} BY RcNextPc
  <2>5. rc'.pc \notin {"read", "recover", "publish"} BY <2>2, <2>3, <2>4
  <2> QED BY <2>1, <2>5 DEF Importing
<1>27. CASE RcUnmarks
  <2>1. UNCHANGED <<canon, spool, size, ack, term, receipt, launch, priv>>
    BY <1>27 DEF RcUnmarks
  <2>2. RcNext("cleanup") \/ RcFails(FALSE) BY <1>27 DEF RcUnmarks
  <2>3. RcFails(FALSE) => rc'.pc \notin {"read", "recover", "publish"} BY RcFailsEffect
  <2>4. RcNext("cleanup") => rc'.pc \notin {"read", "recover", "publish"} BY RcNextPc
  <2>5. rc'.pc \notin {"read", "recover", "publish"} BY <2>2, <2>3, <2>4
  <2> QED BY <2>1, <2>5 DEF Importing
<1>28. CASE RcCleansUp
  <2>1. UNCHANGED <<canon, spool, size, ack, term, receipt, launch>> /\ rc'.pc = "off"
    BY <1>28, RcEndsEffect DEF RcCleansUp
  <2>2. receipt.kind = "terminal" BY <1>28 DEF RcCleansUp, Deciding
  <2> QED BY <2>1, <2>2 DEF Importing
<1>29. CASE RcAbandons
  <2>1. UNCHANGED <<canon, spool, size, ack, term, launch, priv>> /\ rc'.pc = "lose"
    BY <1>29, RcNextPc DEF RcAbandons
  <2>2. receipt'.kind = "abandoned" /\ receipt.kind # "terminal"
    BY <1>29 DEF RcAbandons, Abandoned, NoReceipt
  <2> QED BY <2>1, <2>2 DEF Importing
<1>30. CASE RcLoses
  <2>1. UNCHANGED <<canon, spool, size, ack, term, receipt, launch, priv>> BY <1>30 DEF RcLoses
  <2>2. RcNext("lose") \/ RcEnds \/ RcFails(FALSE) BY <1>30 DEF RcLoses
  <2>3. RcFails(FALSE) => rc'.pc \notin {"read", "recover", "publish"} BY RcFailsEffect
  <2>4. RcNext("lose") => rc'.pc \notin {"read", "recover", "publish"} BY RcNextPc
  <2>5. rc'.pc \notin {"read", "recover", "publish"} BY <2>2, <2>3, <2>4, RcEndsEffect
  <2> QED BY <2>1, <2>5 DEF Importing
<1>31. CASE BootStarts BY <1>31 DEF BootStarts, Importing
<1>32. CASE BootAbandons
  <2>1. receipt' = receipt \/ (receipt.kind = "none" /\ receipt'.kind = "abandoned")
    BY <1>32 DEF BootAbandons, NoReceipt, Abandoned
  <2>2. UNCHANGED <<canon, spool, size, ack, term, launch, priv, rc>> BY <1>32 DEF BootAbandons
  <2> QED BY <2>1, <2>2 DEF Importing
<1>33. CASE BootLists BY <1>33 DEF BootLists, Importing
<1>34. CASE BootRepairs BY <1>34 DEF BootRepairs, Importing
<1>35. CASE BootRefuses
  <2>1. rc' = rc \/ rc'.pc = "lose" BY <1>35 DEF BootRefuses, RcOff
  <2>2. UNCHANGED <<canon, spool, size, ack, term, receipt, launch, priv>> BY <1>35 DEF BootRefuses
  <2> QED BY <2>1, <2>2 DEF Importing
<1>36. CASE BootUnmarks BY <1>36 DEF BootUnmarks, Importing
<1>37. CASE BootReattaches BY <1>37 DEF BootReattaches, Importing
<1>38. CASE BootRuns
  <2>1. rc'.pc \in {rc.pc, "status"} /\ (rc'.pc = "status" \/ rc' = rc)
    BY <1>38 DEF BootRuns, RcOff
  <2>2. UNCHANGED <<canon, spool, size, ack, term, receipt, launch, priv>> BY <1>38 DEF BootRuns
  <2> QED BY <2>1, <2>2 DEF Importing
<1>39. CASE BootRecovers
  <2>1. rc'.pc = "status" BY <1>39 DEF BootRecovers, RcOff
  <2>2. UNCHANGED <<canon, spool, size, ack, term, receipt, launch, priv>>
    BY <1>39 DEF BootRecovers
  <2> QED BY <2>1, <2>2 DEF Importing
<1>40. CASE BootLoses
  <2>1. rc'.pc = "abandon" BY <1>40 DEF BootLoses, RcOff
  <2>2. UNCHANGED <<canon, spool, size, ack, term, receipt, launch, priv>>
    BY <1>40 DEF BootLoses
  <2> QED BY <2>1, <2>2 DEF Importing
<1>41. CASE DaemonStops
  <2>1. rc'.pc = "off" BY <1>41 DEF DaemonStops, RcOff
  <2>2. UNCHANGED <<canon, spool, size, ack, term, receipt, launch, priv>>
    BY <1>41 DEF DaemonStops
  <2> QED BY <2>1, <2>2 DEF Importing
<1>42. CASE UNCHANGED vars BY <1>42 DEF vars, Importing
<1> QED BY <1>1, <1>2, <1>3, <1>4, <1>5, <1>6, <1>7, <1>8, <1>9, <1>10, <1>11, <1>12, <1>13,
        <1>14, <1>15, <1>16, <1>17, <1>18, <1>19, <1>20, <1>21, <1>22, <1>23, <1>24, <1>25,
        <1>26, <1>27, <1>28, <1>29, <1>30, <1>31, <1>32, <1>33, <1>34, <1>35, <1>36, <1>37,
        <1>38, <1>39, <1>40, <1>41, <1>42
        DEF Next, SupervisorStep, StartStep, RcStep, BootStep

\* It holds at the beginning.
LEMMA InitIInv == Init => IInv
<1> SUFFICES ASSUME Init PROVE IInv OBVIOUS
<1>1. TypeOK
  <2>1. 0 \in 0 .. MaxOutput /\ 0 \in 0 .. MaxCrashes /\ 0 \in 0 .. MaxFaults
    BY PersistentAssumption
  <2>2. <<>> \in Seq(Nat) OBVIOUS
  <2> QED BY <2>1, <2>2, RcOffType, ReceiptType DEF Init, TypeOK
<1>2. Turns BY DEF Init, Turns, RcOff
<1>3. Launching BY DEF Init, Launching
<1>4. Marking BY DEF Init, Marking, RcOff, NeverOwnerless, Open, Closed
<1>5. Deciding BY DEF Init, Deciding, RcOff, ClosedIsDecided
<1>6. Supervising
  <2>1. NoRecord \notin Records /\ NoRecord # Torn /\ NoRecord.state = "none"
    BY DEF NoRecord, Torn, Records
  <2> QED BY <2>1 DEF Init, Supervising
<1>7. Spooling BY DEF Init, Spooling
<1>8. Importing
  <2>1. NoReceipt.kind = "none" BY DEF NoReceipt
  <2> QED BY <2>1 DEF Init, Importing, RcOff
<1> QED BY <1>1, <1>2, <1>3, <1>4, <1>5, <1>6, <1>7, <1>8 DEF IInv

\* The inductive invariant holds in every behaviour of the session: the steps of
\* the start, of the reconciler, of the startup pass and of the supervisor, and
\* every stop of the daemon in between.
THEOREM Invariance == Spec => []IInv
<1>1. IInv /\ [Next]_vars => IInv'
  BY TypeNext, TurnsNext, LaunchingNext, MarkingNext, DecidingNext, SupervisingNext,
     SpoolingNext, ImportingNext DEF IInv
<1> QED BY <1>1, InitIInv, PTL DEF Spec

\* Files, log, spool, record and the steps of daemon and supervisor keep their
\* types.
THEOREM TypeCorrect == Spec => []TypeOK
BY Invariance, PTL DEF IInv

\* The launch marker is claimed once: across stops of the daemon, failed writes
\* and repeated recoveries a session never has a second supervisor, and so its
\* command is not run twice.
THEOREM SupervisorIsOne == Spec => []OneSupervisor
<1>1. IInv => OneSupervisor BY DEF IInv, Launching, OneSupervisor
<1> QED BY <1>1, Invariance, PTL

\* A binding that is open has its recovery marker and somebody in the daemon,
\* or the next startup, who will close it; the marker is removed only after the
\* binding is closed.
THEOREM OpenHasOwner == Spec => []OpenIsOwned
<1>1. IInv => OpenIsOwned BY DEF IInv, Marking, OpenIsOwned, RecoverableUntilClosed
<1> QED BY <1>1, Invariance, PTL

\* ReconcileOutput never imports a chunk twice or out of order, acknowledges
\* nothing that is not in the log, and the private copy is not removed before
\* all of it is imported, wherever the daemon stopped.
THEOREM ImportedOnce == Spec => []OutputIsImportedOnce
<1>1. IInv => OutputIsImportedOnce
  <2> SUFFICES ASSUME IInv PROVE OutputIsImportedOnce OBVIOUS
  <2> TypeOK /\ Spooling /\ Importing BY DEF IInv
  <2>1. /\ canon \in Seq(Nat) /\ spool \in Seq(Nat) /\ size \in Nat
        /\ Len(canon) <= size /\ size <= Len(spool)
        /\ \A i \in 1 .. Len(canon) : canon[i] = spool[i]
    BY DEF TypeOK, Spooling, Importing
  <2>2. IsPrefix(canon, SubSeq(spool, 1, size))
    <3> DEFINE counted == SubSeq(spool, 1, size)
    <3>1. counted \in Seq(Nat) /\ Len(counted) = size /\ \A i \in 1 .. size : counted[i] = spool[i]
      BY <2>1
    <3> HIDE DEF counted
    <3> DEFINE a == SubSeq(canon, 1, Len(canon))
               b == SubSeq(counted, 1, Len(canon))
    <3>2. a \in Seq(Nat) /\ Len(a) = Len(canon) /\ \A i \in 1 .. Len(canon) : a[i] = canon[i]
      BY <2>1
    <3>3. b \in Seq(Nat) /\ Len(b) = Len(canon) /\ \A i \in 1 .. Len(canon) : b[i] = counted[i]
      BY <2>1, <3>1
    <3>4. \A i \in 1 .. Len(canon) : a[i] = b[i] BY <2>1, <3>1, <3>2, <3>3
    <3> HIDE DEF a, b
    <3>5. a = b BY <3>2, <3>3, <3>4, SeqEqual
    <3> QED BY <2>1, <3>1, <3>5 DEF IsPrefix, a, b, counted
  <2>3. ASSUME NEW i \in 1 .. Len(canon), NEW j \in 1 .. Len(canon), i < j
        PROVE  canon[i] < canon[j]
    <3>1. i \in 1 .. Len(spool) /\ j \in 1 .. Len(spool) BY <2>1
    <3>2. spool[i] < spool[j] BY <2>3, <3>1 DEF Spooling
    <3> QED BY <2>1, <3>2
  <2>4. ack <= Len(canon) BY DEF Importing
  <2>5. launch /\ ~priv => receipt.kind = "terminal" /\ Len(canon) = receipt.rec.out
    BY DEF Importing
  <2> QED BY <2>2, <2>3, <2>4, <2>5
          DEF OutputIsImportedOnce, CanonicalIsPrefix, AckedIsCanonical,
              PrivateKeptUntilImported
<1> QED BY <1>1, Invariance, PTL

\* Binding, receipt and frozen record agree: a terminal receipt is the record,
\* says complete only if the log has the whole output, and claims success only
\* for a child that ended with code zero.
THEOREM DecisionsNeverDisagree == Spec => []DecisionsAgree
<1>1. IInv => DecisionsAgree
  <2> SUFFICES ASSUME IInv PROVE DecisionsAgree OBVIOUS
  <2> TypeOK /\ Deciding /\ Supervising /\ Spooling /\ Importing BY DEF IInv
  <2>1. ASSUME receipt.kind = "terminal"
        PROVE  /\ receipt.rec = term /\ Len(canon) = term.out
               /\ term.complete => canon = [k \in 1 .. wrote |-> k]
               /\ term.state = "completed" => child = "gone" /\ code = "zero" /\ term.complete
    <3>1. receipt.rec = term /\ term \in Records /\ Len(canon) = term.out BY <2>1 DEF Importing
    <3>2. term.out = size /\ (term.complete <=> ~capture) BY <3>1 DEF Supervising
    <3>3. ASSUME term.complete PROVE canon = [k \in 1 .. wrote |-> k]
      <4>1. size = wrote /\ Len(spool) = wrote /\ \A i \in 1 .. Len(spool) : spool[i] = i
        BY <3>2, <3>3 DEF Spooling
      <4>2. Len(canon) = wrote /\ \A i \in 1 .. wrote : canon[i] = i
        BY <3>1, <3>2, <4>1 DEF Importing
      <4> QED BY <4>2 DEF TypeOK
    <3>4. term.state = "completed" => child = "gone" /\ code = "zero" /\ term.complete
      BY DEF Supervising
    <3> QED BY <3>1, <3>3, <3>4
  <2>2. ClosedIsDecided BY DEF Deciding
  <2> QED BY <2>1, <2>2 DEF DecisionsAgree, ReceiptIsTheRecord
<1> QED BY <1>1, Invariance, PTL
=============================================================================
