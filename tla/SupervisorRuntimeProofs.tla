----------------------- MODULE SupervisorRuntimeProofs -----------------------
(* Theorems about SupervisorRuntime.  What the record says depends on what    *)
(* four threads left in the runtime under controlMu: IInv therefore keeps, in *)
(* addition to the types, how far the runtime is and what that says of the    *)
(* child (Phases), that whatever spoils a success has set a target            *)
(* (Blaming), the input records against what the child's stdin got (Feeding), *)
(* the spool against the output (Keeping), and for each kill_id the ledger of *)
(* the supervisor, the file of the daemon and the answer between them         *)
(* (Killing).  There is a lemma for each part, with a step for every action.  *)
(* The theorems hold for any number of input records, chunks, kill_ids and    *)
(* failed writes.                                                             *)
EXTENDS SupervisorRuntime, SequenceTheorems, TLAPS

\* How far the runtime is, and what that says of the child.
Phases ==
  /\ lock = "start" <=> state = "starting"
  /\ state = "running" => child # "none"
  /\ Terminal => child = "gone" /\ lock = "free"
  /\ stop # "idle" => child # "none" /\ state # "starting"
  /\ stop = "over" => child = "gone" \/ sig = "KILL"
  /\ stop = "pressed" => child = "gone" \/ sig # "none"
  /\ Gone => child # "running" \/ sig = "KILL" \/ (stop = "pressed" /\ sig # "none")
  /\ record.state # "none" => (Terminal \/ Gone) /\ child # "running" /\ lock = "free"
  /\ record.state = "completed" => child = "gone"
  /\ record.complete => record.state # "none"

\* Whatever spoils a success sets a terminal target.
Blaming ==
  /\ captureErr \/ inputErr \/ sig # "none" => target # "none"
  /\ timer = "fired" \/ stop \in {"grace", "pressed", "over"} => target # "none"

\* Until a delivery fails, the records are delivered one after the other.
Feeding ==
  ~inputErr =>
    /\ pending \in {0, Len(input)}
    /\ Len(stdin) = IF pending = 0 THEN Len(input) ELSE Len(input) - 1
    /\ \A i \in 1 .. Len(stdin) : input[i].delivered /\ stdin[i] = input[i].data
    /\ pending > 0 => ~input[pending].delivered

\* Until a chunk is refused, the spool is the output.
Keeping ==
  /\ ~captureErr => spool = [i \in 1 .. wrote |-> i]
  /\ child = "none" => ~captureErr

\* The two kill ledgers, the answer on its way, and the signals that were really
\* sent under one kill_id.
KillAnswered(k) ==
  /\ killFiles[k].signal = "none" => kills[k].signal = "none" /\ requests[k] = "none"
  /\ kills[k].signal = "none" \/ ~kills[k].needed => sent[k] = 0 /\ ~kills[k].attempted
  /\ kills[k].attempted \/ requests[k] = "attempted" => sent[k] > 0
  /\ requests[k] = "moot" => kills[k].signal # "none" /\ ~kills[k].needed
  /\ killFiles[k].complete => requests[k] = "none" /\ (killFiles[k].attempted <=> sent[k] > 0)

\* It holds for every kill_id.
Killing == \A k \in Kills : KillAnswered(k)

\* The inductive invariant.
IInv == TypeOK /\ Phases /\ Blaming /\ Feeding /\ Keeping /\ Killing /\ RecordIsTrue

USE DEF runtime, ledgers, threads, durable, process, daemon, history

-----------------------------------------------------------------------------
(* What the helpers of the actions do.                                     *)

\* Handle.Signal: nothing weaker than what was sent before, nothing to a child
\* that is gone.
LEMMA SendEffect ==
  ASSUME TypeOK, NEW s \in Signals, Send(s)
  PROVE  /\ sig' \in Signals \cup {"none"} /\ late' \in BOOLEAN
         /\ child = "gone" => sig' = sig
         /\ child # "gone" => sig' # "none"
         /\ sig = "KILL" => sig' = "KILL"
         /\ sig # "none" => sig' # "none"
         /\ s = "KILL" /\ child # "gone" => sig' = "KILL"
<1>1. late' \in BOOLEAN BY DEF Send
<1>2. child = "gone" => sig' = sig BY DEF Send
<1>3. child # "gone" => sig' = IF "KILL" \in {s, sig} THEN "KILL" ELSE s BY DEF Send
<1> QED BY <1>1, <1>2, <1>3 DEF TypeOK, Signals

\* setTargetLocked: the first target stays.
LEMMA SetTargetEffect ==
  ASSUME TypeOK, NEW t \in {"killed", "timed_out"}, SetTarget(t)
  PROVE  target' \in {"killed", "timed_out"}
BY DEF SetTarget, TypeOK

\* failInputDelivery and captureFailure: an error, a target, perhaps a signal.
LEMMA FailInputEffect ==
  ASSUME TypeOK, Blaming, FailInputDelivery
  PROVE  /\ inputErr' /\ inputErr' \in BOOLEAN /\ target' \in {"killed", "timed_out"}
         /\ sig' \in Signals \cup {"none"} /\ late' \in BOOLEAN
         /\ child = "gone" => sig' = sig
         /\ sig = "KILL" => sig' = "KILL"
         /\ sig # "none" => sig' # "none"
<1>1. CASE inputErr /\ UNCHANGED <<inputErr, target, sig, late>>
  BY <1>1 DEF TypeOK, Blaming
<1>2. CASE inputErr' = TRUE /\ SetTarget("killed") /\ Send("TERM")
  BY <1>2, SendEffect, SetTargetEffect DEF Signals
<1> QED BY <1>1, <1>2 DEF FailInputDelivery

\* A refused chunk: it is remembered, and a child that has its handle gets a
\* TERM.
LEMMA CaptureFailureEffect ==
  ASSUME TypeOK, Blaming, CaptureFailure
  PROVE  /\ captureErr' /\ captureErr' \in BOOLEAN /\ target' \in {"killed", "timed_out"}
         /\ sig' \in Signals \cup {"none"} /\ late' \in BOOLEAN
         /\ child = "gone" => sig' = sig
         /\ sig = "KILL" => sig' = "KILL"
         /\ sig # "none" => sig' # "none"
<1>1. CASE captureErr /\ UNCHANGED <<captureErr, target, sig, late>>
  BY <1>1 DEF TypeOK, Blaming
<1>2. CASE captureErr' = TRUE /\ SetTarget("killed") /\ Send("TERM")
  BY <1>2, SendEffect, SetTargetEffect DEF Signals
<1>3. CASE captureErr' = TRUE /\ SetTarget("killed") /\ UNCHANGED <<sig, late>>
  BY <1>3, SetTargetEffect DEF TypeOK
<1> QED BY <1>1, <1>2, <1>3 DEF CaptureFailure

\* A fault is counted within its bound.
LEMMA FaultType == ASSUME TypeOK, Fault PROVE faults' \in 0 .. MaxFaults
BY RuntimeAssumption DEF TypeOK, Fault

\* Every step keeps the count of faults within its bound.
LEMMA FaultsNext == ASSUME TypeOK, [Next]_vars PROVE faults' \in 0 .. MaxFaults
<1>1. faults' = faults \/ Fault
  BY DEF Next, vars, Start, Shutdown, FreezeTerminal, Accept, StartSpawns, StartFails,
         StartStores, Capture, ChildExits, Finalize, RunReturns, Write, Deliver, DeliverFails,
         KillReserves, SignalReplays, SignalSends, KillIsLost, KillCompletes, TimeoutFires,
         TimeoutKills, ShutdownAsked, ShutdownDelayed, ShutdownTerms, ShutdownKills,
         ShutdownExpires
<1> QED BY <1>1, FaultType DEF TypeOK

\* A kill that is sent names a signal.
LEMMA KillNamesSignal ==
  ASSUME TypeOK, Killing, NEW k \in Kills, requests[k] = "signal"
  PROVE  Admit(k, killFiles[k].signal).signal \in Signals
<1>1. killFiles[k].signal # "none" /\ killFiles[k] \in FileType /\ kills[k] \in KillType
  BY DEF Killing, KillAnswered, TypeOK
<1> QED BY <1>1 DEF Admit, FileType, KillType

\* The phases of the runtime follow each other.
LEMMA PhasesNext == IInv /\ [Next]_vars => Phases'
<1> SUFFICES ASSUME IInv, [Next]_vars PROVE Phases' OBVIOUS
<1> TypeOK /\ Phases /\ Blaming BY DEF IInv
<1>1. CASE StartSpawns BY <1>1 DEF StartSpawns, Phases, Terminal, Gone, Ended
<1>2. CASE StartFails
  <2>1. /\ state' = "exited" /\ lock' = "free" /\ child = "none"
        /\ UNCHANGED <<child, stop, sig>>
        /\ state = "starting"
    BY <1>2 DEF StartFails, Phases
  <2>2. record' = record \/ (record'.state = "failed" /\ record'.complete)
    BY <1>2 DEF StartFails, NoRecord
  <2> QED BY <2>1, <2>2 DEF Phases, Terminal, Gone, Ended
<1>3. CASE StartStores BY <1>3 DEF StartStores, Phases, Terminal, Gone, Ended
<1>4. CASE Capture
  <2>1. child = "running" /\ (sig = "KILL" => sig' = "KILL") /\ (sig # "none" => sig' # "none")
    BY <1>4, CaptureFailureEffect DEF Capture
  <2>2. UNCHANGED <<lock, state, child, stop, record>> BY <1>4 DEF Capture
  <2> QED BY <2>1, <2>2 DEF Phases, Terminal, Gone, Ended
<1>5. CASE ChildExits BY <1>5 DEF ChildExits, Phases, Terminal, Gone, Ended
<1>6. CASE Finalize
  <2>1. TerminalOutcome \in Ended BY DEF TerminalOutcome, TypeOK, Ended
  <2>2. state' = TerminalOutcome BY <1>6 DEF Finalize, FreezeTerminal
  <2>3. child = "gone" /\ lock = "free" /\ UNCHANGED <<lock, child, stop, sig>>
    BY <1>6 DEF Finalize
  <2>4. record' = record \/ record'.state = TerminalOutcome BY <1>6 DEF Finalize, FreezeTerminal
  <2> QED BY <2>1, <2>2, <2>3, <2>4 DEF Phases, Terminal, Gone, Ended
<1>7. CASE RunReturns BY <1>7 DEF RunReturns, Phases, Terminal, Gone, Ended
<1>8. ASSUME NEW offset \in 1 .. MaxRecords, NEW data \in Chunks \cup {EOF}, Write(offset, data)
      PROVE  Phases'
  BY <1>8 DEF Write, Accept, Phases, Terminal, Gone, Ended
<1>9. CASE Deliver
  <2>1. (sig = "KILL" => sig' = "KILL") /\ (sig # "none" => sig' # "none") /\ lock = "write" /\ lock' = "free"
    BY <1>9, FailInputEffect DEF Deliver
  <2>2. UNCHANGED <<state, child, stop, record>> BY <1>9 DEF Deliver
  <2> QED BY <2>1, <2>2 DEF Phases, Terminal, Gone, Ended
<1>10. CASE DeliverFails
  <2>1. (sig = "KILL" => sig' = "KILL") /\ (sig # "none" => sig' # "none") /\ lock = "write" /\ lock' = "free"
    BY <1>10, FailInputEffect DEF DeliverFails
  <2>2. UNCHANGED <<state, child, stop, record>> BY <1>10 DEF DeliverFails
  <2> QED BY <2>1, <2>2 DEF Phases, Terminal, Gone, Ended
<1>11. ASSUME NEW k \in Kills, NEW s \in KillSignals, KillReserves(k, s) PROVE Phases'
  BY <1>11 DEF KillReserves, Phases, Terminal, Gone, Ended
<1>12. ASSUME NEW k \in Kills, SignalReplays(k) PROVE Phases'
  BY <1>12 DEF SignalReplays, Phases, Terminal, Gone, Ended
<1>13. ASSUME NEW k \in Kills, SignalSends(k) PROVE Phases'
  <2>1. UNCHANGED <<lock, state, child, stop, record>> BY <1>13 DEF SignalSends
  <2>2. (sig = "KILL" => sig' = "KILL") /\ (sig # "none" => sig' # "none")
    <3> DEFINE r == Admit(k, killFiles[k].signal)
    <3>1. requests[k] = "signal" /\ Send(r.signal) BY <1>13 DEF SignalSends
    <3>2. r.signal \in Signals BY <3>1, KillNamesSignal DEF IInv
    <3> HIDE DEF r
    <3> QED BY <3>1, <3>2, SendEffect
  <2>3. child = "gone" => sig' = sig BY <1>13 DEF SignalSends, Send
  <2> QED BY <2>1, <2>2, <2>3 DEF Phases, Terminal, Gone, Ended
<1>14. ASSUME NEW k \in Kills, KillIsLost(k) PROVE Phases'
  BY <1>14 DEF KillIsLost, Phases, Terminal, Gone, Ended
<1>15. ASSUME NEW k \in Kills, KillCompletes(k) PROVE Phases'
  BY <1>15 DEF KillCompletes, Phases, Terminal, Gone, Ended
<1>16. CASE TimeoutFires
  <2>1. UNCHANGED <<lock, state, child, stop, record>> BY <1>16 DEF TimeoutFires
  <2>2. (sig = "KILL" => sig' = "KILL") /\ (sig # "none" => sig' # "none")
    BY <1>16 DEF TimeoutFires, Send
  <2> QED BY <2>1, <2>2 DEF Phases, Terminal, Gone, Ended
<1>17. CASE TimeoutKills
  <2>1. UNCHANGED <<lock, state, child, stop, record>> BY <1>17 DEF TimeoutKills
  <2>2. (sig = "KILL" => sig' = "KILL") /\ (sig # "none" => sig' # "none")
    BY <1>17 DEF TimeoutKills, Send
  <2> QED BY <2>1, <2>2 DEF Phases, Terminal, Gone, Ended
<1>18. CASE ShutdownTerms
  <2>1. UNCHANGED <<lock, state, child, record>> /\ state = "running"
    BY <1>18 DEF ShutdownTerms
  <2>2. stop' \in {"grace", "pressed"} BY <1>18 DEF ShutdownTerms
  <2>3. child = "gone" \/ sig' # "none" BY <1>18 DEF ShutdownTerms, Send
  <2> QED BY <2>1, <2>2, <2>3 DEF Phases, Terminal, Gone, Ended
<1>19. CASE ShutdownKills
  <2>1. UNCHANGED <<lock, state, child, record>> /\ state = "running" /\ stop' = "over"
    BY <1>19 DEF ShutdownKills
  <2>2. child = "gone" \/ sig' = "KILL" BY <1>19 DEF ShutdownKills, Send
  <2>3. sig = "KILL" => sig' = "KILL" BY <1>19 DEF ShutdownKills, Send
  <2> QED BY <2>1, <2>2, <2>3 DEF Phases, Terminal, Gone, Ended
<1>20. CASE ShutdownExpires BY <1>20 DEF ShutdownExpires, Phases, Terminal, Gone, Ended
<1>21. CASE UNCHANGED vars BY <1>21 DEF vars, Phases, Terminal, Gone, Ended
<1>22. CASE ShutdownAsked BY <1>22 DEF ShutdownAsked, Phases, Terminal, Gone, Ended
<1>23. CASE ShutdownDelayed BY <1>23 DEF ShutdownDelayed, Phases, Terminal, Gone, Ended
<1> QED BY <1>1, <1>2, <1>3, <1>4, <1>5, <1>6, <1>7, <1>8, <1>9, <1>10, <1>11, <1>12, <1>13,
        <1>14, <1>15, <1>16, <1>17, <1>18, <1>19, <1>20, <1>21, <1>22, <1>23
        DEF Next, Start, Shutdown

\* Whatever spoils a success sets a target.
LEMMA BlamingNext == IInv /\ [Next]_vars => Blaming'
<1> SUFFICES ASSUME IInv, [Next]_vars PROVE Blaming' OBVIOUS
<1> TypeOK /\ Blaming BY DEF IInv
<1>1. CASE StartSpawns BY <1>1 DEF StartSpawns, Blaming
<1>2. CASE StartFails BY <1>2 DEF StartFails, Blaming
<1>3. CASE StartStores BY <1>3 DEF StartStores, Blaming
<1>4. CASE Capture
  <2>1. \/ UNCHANGED <<captureErr, target, sig>>
        \/ target' \in {"killed", "timed_out"}
    BY <1>4, CaptureFailureEffect DEF Capture
  <2>2. UNCHANGED <<inputErr, timer, stop>> BY <1>4 DEF Capture
  <2> QED BY <2>1, <2>2 DEF Blaming
<1>5. CASE ChildExits BY <1>5 DEF ChildExits, Blaming
<1>6. CASE Finalize BY <1>6 DEF Finalize, FreezeTerminal, Blaming
<1>7. CASE RunReturns BY <1>7 DEF RunReturns, Blaming
<1>8. ASSUME NEW offset \in 1 .. MaxRecords, NEW data \in Chunks \cup {EOF}, Write(offset, data)
      PROVE  Blaming'
  BY <1>8 DEF Write, Accept, Blaming
<1>9. CASE Deliver
  <2>1. \/ UNCHANGED <<inputErr, target, sig>>
        \/ target' \in {"killed", "timed_out"}
    BY <1>9, FailInputEffect DEF Deliver
  <2>2. UNCHANGED <<captureErr, timer, stop>> BY <1>9 DEF Deliver
  <2> QED BY <2>1, <2>2 DEF Blaming
<1>10. CASE DeliverFails
  <2>1. target' \in {"killed", "timed_out"} BY <1>10, FailInputEffect DEF DeliverFails
  <2> QED BY <2>1 DEF Blaming
<1>11. ASSUME NEW k \in Kills, NEW s \in KillSignals, KillReserves(k, s) PROVE Blaming'
  BY <1>11 DEF KillReserves, Blaming
<1>12. ASSUME NEW k \in Kills, SignalReplays(k) PROVE Blaming'
  BY <1>12 DEF SignalReplays, Blaming
<1>13. ASSUME NEW k \in Kills, SignalSends(k) PROVE Blaming'
  <2>1. target' \in {"killed", "timed_out"} BY <1>13, SetTargetEffect DEF SignalSends
  <2> QED BY <2>1 DEF Blaming
<1>14. ASSUME NEW k \in Kills, KillIsLost(k) PROVE Blaming' BY <1>14 DEF KillIsLost, Blaming
<1>15. ASSUME NEW k \in Kills, KillCompletes(k) PROVE Blaming'
  BY <1>15 DEF KillCompletes, Blaming
<1>16. CASE TimeoutFires
  <2>1. \/ target' \in {"killed", "timed_out"}
        \/ timer' = "off" /\ UNCHANGED <<target, sig>>
    BY <1>16, SetTargetEffect DEF TimeoutFires
  <2>2. UNCHANGED <<captureErr, inputErr, stop>> BY <1>16 DEF TimeoutFires
  <2> QED BY <2>1, <2>2 DEF Blaming
<1>17. CASE TimeoutKills BY <1>17 DEF TimeoutKills, Blaming
<1>18. CASE ShutdownTerms
  <2>1. target' \in {"killed", "timed_out"} BY <1>18, SetTargetEffect DEF ShutdownTerms
  <2> QED BY <2>1 DEF Blaming
<1>19. CASE ShutdownKills BY <1>19 DEF ShutdownKills, Blaming
<1>20. CASE ShutdownExpires BY <1>20 DEF ShutdownExpires, Blaming
<1>21. CASE UNCHANGED vars BY <1>21 DEF vars, Blaming
<1>22. CASE ShutdownAsked BY <1>22 DEF ShutdownAsked, Blaming
<1>23. CASE ShutdownDelayed BY <1>23 DEF ShutdownDelayed, Blaming
<1> QED BY <1>1, <1>2, <1>3, <1>4, <1>5, <1>6, <1>7, <1>8, <1>9, <1>10, <1>11, <1>12, <1>13,
        <1>14, <1>15, <1>16, <1>17, <1>18, <1>19, <1>20, <1>21, <1>22, <1>23
        DEF Next, Start, Shutdown

\* Records are delivered one after the other.
LEMMA FeedingNext == IInv /\ [Next]_vars => Feeding'
<1> SUFFICES ASSUME IInv, [Next]_vars PROVE Feeding' OBVIOUS
<1> TypeOK /\ Blaming /\ Feeding BY DEF IInv
<1>1. CASE StartSpawns BY <1>1 DEF StartSpawns, Feeding
<1>2. CASE StartFails BY <1>2 DEF StartFails, Feeding
<1>3. CASE StartStores BY <1>3 DEF StartStores, Feeding
<1>4. CASE Capture BY <1>4 DEF Capture, Feeding
<1>5. CASE ChildExits BY <1>5 DEF ChildExits, Feeding
<1>6. CASE Finalize BY <1>6 DEF Finalize, FreezeTerminal, Feeding
<1>7. CASE RunReturns BY <1>7 DEF RunReturns, Feeding
<1>8. ASSUME NEW offset \in 1 .. MaxRecords, NEW data \in Chunks \cup {EOF}, Write(offset, data)
      PROVE  Feeding'
  <2> SUFFICES ASSUME ~inputErr PROVE Feeding' BY <1>8 DEF Write, Feeding
  <2>1. pending = 0 /\ UNCHANGED <<inputErr, stdin>> BY <1>8 DEF Write, TypeOK
  <2>2. /\ Len(stdin) = Len(input) /\ \A i \in 1 .. Len(input) : input[i].delivered /\ stdin[i] = input[i].data
    BY <2>1 DEF Feeding
  <2>3. input' = Append(input, [data |-> data, delivered |-> FALSE]) /\ pending' = Len(input) + 1
    BY <1>8, <2>2 DEF Write, Accept, TypeOK
  <2>4. /\ Len(input') = Len(input) + 1 /\ ~input'[Len(input) + 1].delivered
        /\ \A i \in 1 .. Len(input) : input'[i] = input[i]
    BY <2>3 DEF TypeOK
  <2>5. Len(input) \in Nat BY DEF TypeOK
  <2> QED BY <2>1, <2>2, <2>3, <2>4, <2>5 DEF Feeding
<1>9. CASE Deliver
  <2>1. pending \in 1 .. Len(input) /\ pending' = 0 /\ stdin' = Append(stdin, input[pending].data)
    BY <1>9 DEF Deliver, TypeOK
  <2>2. CASE inputErr' BY <2>2 DEF Feeding
  <2>3. CASE input' = [input EXCEPT ![pending].delivered = TRUE] /\ inputErr' = inputErr /\ ~inputErr
    <3>1. /\ pending = Len(input) /\ Len(stdin) = Len(input) - 1
          /\ \A i \in 1 .. Len(stdin) : input[i].delivered /\ stdin[i] = input[i].data
      BY <2>1, <2>3 DEF Feeding, TypeOK
    <3>2. input[pending] \in InputRecords BY <2>1 DEF TypeOK
    <3>3. /\ Len(input') = Len(input) /\ \A i \in 1 .. Len(input) : i # pending => input'[i] = input[i]
          /\ input'[pending].delivered /\ input'[pending].data = input[pending].data
      BY <2>1, <2>3, <3>2 DEF TypeOK, InputRecords
    <3>4. Len(stdin') = Len(stdin) + 1 /\ stdin'[Len(stdin) + 1] = input[pending].data
      BY <2>1, <3>2 DEF TypeOK, InputRecords
    <3>5. \A i \in 1 .. Len(stdin) : stdin'[i] = stdin[i] BY <2>1, <3>2 DEF TypeOK, InputRecords
    <3>6. Len(stdin) \in Nat /\ Len(input) \in Nat BY DEF TypeOK
    <3> QED BY <2>1, <2>3, <3>1, <3>3, <3>4, <3>5, <3>6 DEF Feeding
  <2> QED BY <1>9, <2>2, <2>3, FailInputEffect DEF Deliver
<1>10. CASE DeliverFails
  <2>1. inputErr' BY <1>10, FailInputEffect DEF DeliverFails
  <2> QED BY <2>1 DEF Feeding
<1>11. ASSUME NEW k \in Kills, NEW s \in KillSignals, KillReserves(k, s) PROVE Feeding'
  BY <1>11 DEF KillReserves, Feeding
<1>12. ASSUME NEW k \in Kills, SignalReplays(k) PROVE Feeding'
  BY <1>12 DEF SignalReplays, Feeding
<1>13. ASSUME NEW k \in Kills, SignalSends(k) PROVE Feeding' BY <1>13 DEF SignalSends, Feeding
<1>14. ASSUME NEW k \in Kills, KillIsLost(k) PROVE Feeding' BY <1>14 DEF KillIsLost, Feeding
<1>15. ASSUME NEW k \in Kills, KillCompletes(k) PROVE Feeding'
  BY <1>15 DEF KillCompletes, Feeding
<1>16. CASE TimeoutFires BY <1>16 DEF TimeoutFires, Feeding
<1>17. CASE TimeoutKills BY <1>17 DEF TimeoutKills, Feeding
<1>18. CASE ShutdownTerms BY <1>18 DEF ShutdownTerms, Feeding
<1>19. CASE ShutdownKills BY <1>19 DEF ShutdownKills, Feeding
<1>20. CASE ShutdownExpires BY <1>20 DEF ShutdownExpires, Feeding
<1>21. CASE UNCHANGED vars BY <1>21 DEF vars, Feeding
<1>22. CASE ShutdownAsked BY <1>22 DEF ShutdownAsked, Feeding
<1>23. CASE ShutdownDelayed BY <1>23 DEF ShutdownDelayed, Feeding
<1> QED BY <1>1, <1>2, <1>3, <1>4, <1>5, <1>6, <1>7, <1>8, <1>9, <1>10, <1>11, <1>12, <1>13,
        <1>14, <1>15, <1>16, <1>17, <1>18, <1>19, <1>20, <1>21, <1>22, <1>23
        DEF Next, Start, Shutdown

\* The spool is the output.
LEMMA KeepingNext == IInv /\ [Next]_vars => Keeping'
<1> SUFFICES ASSUME IInv, [Next]_vars PROVE Keeping' OBVIOUS
<1> TypeOK /\ Phases /\ Blaming /\ Keeping BY DEF IInv
<1>1. CASE StartSpawns BY <1>1 DEF StartSpawns, Keeping
<1>2. CASE StartFails BY <1>2 DEF StartFails, Keeping
<1>3. CASE StartStores BY <1>3 DEF StartStores, Keeping
<1>4. CASE Capture
  <2>1. child = "running" /\ child' = child /\ wrote' = wrote + 1 /\ wrote \in Nat
    BY <1>4 DEF Capture, TypeOK
  <2>2. CASE captureErr' BY <2>1, <2>2 DEF Keeping
  <2>3. CASE spool' = Append(spool, wrote') /\ captureErr' = captureErr /\ ~captureErr
    <3>1. spool = [i \in 1 .. wrote |-> i] BY <2>3 DEF Keeping
    <3>2. Append([i \in 1 .. wrote |-> i], wrote + 1) = [i \in 1 .. wrote + 1 |-> i]
      <4> DEFINE old == [i \in 1 .. wrote |-> i]
                 new == [i \in 1 .. wrote + 1 |-> i]
      <4>1. old \in Seq(Nat) /\ Len(old) = wrote BY <2>1, IsASeq
      <4>2. new \in Seq(Nat) /\ Len(new) = wrote + 1 BY <2>1, IsASeq
      <4>3. Append(old, wrote + 1) \in Seq(Nat) /\ Len(Append(old, wrote + 1)) = wrote + 1
        BY <2>1, <4>1
      <4>4. ASSUME NEW i \in 1 .. wrote + 1 PROVE Append(old, wrote + 1)[i] = new[i]
        BY <2>1, <4>1
      <4> HIDE DEF old, new
      <4>5. Append(old, wrote + 1) = new BY <4>2, <4>3, <4>4, SeqEqual
      <4> QED BY <4>5 DEF old, new
    <3> QED BY <2>1, <2>3, <3>1, <3>2 DEF Keeping
  <2> QED BY <1>4, <2>2, <2>3, CaptureFailureEffect DEF Capture
<1>5. CASE ChildExits BY <1>5 DEF ChildExits, Keeping
<1>6. CASE Finalize BY <1>6 DEF Finalize, FreezeTerminal, Keeping
<1>7. CASE RunReturns BY <1>7 DEF RunReturns, Keeping
<1>8. ASSUME NEW offset \in 1 .. MaxRecords, NEW data \in Chunks \cup {EOF}, Write(offset, data)
      PROVE  Keeping'
  BY <1>8 DEF Write, Accept, Keeping
<1>9. CASE Deliver BY <1>9 DEF Deliver, Keeping
<1>10. CASE DeliverFails BY <1>10 DEF DeliverFails, Keeping
<1>11. ASSUME NEW k \in Kills, NEW s \in KillSignals, KillReserves(k, s) PROVE Keeping'
  BY <1>11 DEF KillReserves, Keeping
<1>12. ASSUME NEW k \in Kills, SignalReplays(k) PROVE Keeping'
  BY <1>12 DEF SignalReplays, Keeping
<1>13. ASSUME NEW k \in Kills, SignalSends(k) PROVE Keeping' BY <1>13 DEF SignalSends, Keeping
<1>14. ASSUME NEW k \in Kills, KillIsLost(k) PROVE Keeping' BY <1>14 DEF KillIsLost, Keeping
<1>15. ASSUME NEW k \in Kills, KillCompletes(k) PROVE Keeping'
  BY <1>15 DEF KillCompletes, Keeping
<1>16. CASE TimeoutFires BY <1>16 DEF TimeoutFires, Keeping
<1>17. CASE TimeoutKills BY <1>17 DEF TimeoutKills, Keeping
<1>18. CASE ShutdownTerms BY <1>18 DEF ShutdownTerms, Keeping
<1>19. CASE ShutdownKills BY <1>19 DEF ShutdownKills, Keeping
<1>20. CASE ShutdownExpires BY <1>20 DEF ShutdownExpires, Keeping
<1>21. CASE UNCHANGED vars BY <1>21 DEF vars, Keeping
<1>22. CASE ShutdownAsked BY <1>22 DEF ShutdownAsked, Keeping
<1>23. CASE ShutdownDelayed BY <1>23 DEF ShutdownDelayed, Keeping
<1> QED BY <1>1, <1>2, <1>3, <1>4, <1>5, <1>6, <1>7, <1>8, <1>9, <1>10, <1>11, <1>12, <1>13,
        <1>14, <1>15, <1>16, <1>17, <1>18, <1>19, <1>20, <1>21, <1>22, <1>23
        DEF Next, Start, Shutdown

\* Ledgers, answers and signals agree for each kill.
LEMMA KillingNext == IInv /\ [Next]_vars => Killing'
<1> SUFFICES ASSUME IInv, [Next]_vars PROVE Killing' OBVIOUS
<1> TypeOK /\ Killing BY DEF IInv
<1>1. CASE StartSpawns BY <1>1 DEF StartSpawns, Killing, KillAnswered
<1>2. CASE StartFails BY <1>2 DEF StartFails, Killing, KillAnswered
<1>3. CASE StartStores BY <1>3 DEF StartStores, Killing, KillAnswered
<1>4. CASE Capture BY <1>4 DEF Capture, Killing, KillAnswered
<1>5. CASE ChildExits BY <1>5 DEF ChildExits, Killing, KillAnswered
<1>6. CASE Finalize BY <1>6 DEF Finalize, FreezeTerminal, Killing, KillAnswered
<1>7. CASE RunReturns BY <1>7 DEF RunReturns, Killing, KillAnswered
<1>8. ASSUME NEW offset \in 1 .. MaxRecords, NEW data \in Chunks \cup {EOF}, Write(offset, data)
      PROVE  Killing'
  BY <1>8 DEF Write, Accept, Killing, KillAnswered
<1>9. CASE Deliver BY <1>9 DEF Deliver, Killing, KillAnswered
<1>10. CASE DeliverFails BY <1>10 DEF DeliverFails, Killing, KillAnswered
<1>11. ASSUME NEW k \in Kills, NEW s \in KillSignals, KillReserves(k, s) PROVE Killing'
  <2>1. \A j \in Kills \ {k} : UNCHANGED <<kills[j], killFiles[j], requests[j], sent[j]>>
    BY <1>11 DEF KillReserves, NoReply, Reply, TypeOK
  <2>2. KillAnswered(k)'
    <3>1. /\ UNCHANGED <<kills, sent>> /\ requests[k] = "none" /\ ~killFiles[k].complete
          /\ killFiles[k].signal \in {"none", s} /\ s # "none"
      BY <1>11, RuntimeAssumption DEF KillReserves
    <3>2. CASE killFiles[k].signal = "none"
      <4>1. /\ killFiles'[k].signal = s /\ ~killFiles'[k].attempted
            /\ requests'[k] \in {"none", "signal"} /\ (killFiles'[k].complete => requests'[k] = "none")
        BY <1>11, <3>1, <3>2 DEF KillReserves, NoFile, TypeOK
      <4> QED BY <3>1, <3>2, <4>1 DEF Killing, KillAnswered
    <3>3. CASE killFiles[k].signal # "none"
      <4>1. killFiles'[k] = killFiles[k] /\ requests'[k] = "signal"
        BY <1>11, <3>1, <3>3 DEF KillReserves, TypeOK
      <4> QED BY <3>1, <3>3, <4>1 DEF Killing, KillAnswered
    <3> QED BY <3>2, <3>3
  <2> QED BY <2>1, <2>2 DEF Killing, KillAnswered
<1>12. ASSUME NEW k \in Kills, SignalReplays(k) PROVE Killing'
  <2>1. \A j \in Kills \ {k} : UNCHANGED <<kills[j], killFiles[j], requests[j], sent[j]>>
    BY <1>12 DEF SignalReplays, NoReply, Reply, TypeOK
  <2>2. KillAnswered(k)'
    <3> DEFINE r == Admit(k, killFiles[k].signal)
    <3>1. UNCHANGED <<killFiles, sent>> /\ requests[k] = "signal" /\ ~MustSend(r) /\ kills'[k] = r
      BY <1>12 DEF SignalReplays, TypeOK
    <3>2. requests'[k] = IF r.attempted THEN "attempted" ELSE "moot"
      BY <1>12, <3>1 DEF SignalReplays, Reply, TypeOK
    <3>3. killFiles[k].signal # "none" /\ ~killFiles[k].complete
      BY <3>1 DEF Killing, KillAnswered
    <3>4. \/ r = kills[k] /\ kills[k].signal # "none"
          \/ kills[k].signal = "none" /\ r.signal # "none" /\ ~r.attempted
      BY <3>3 DEF Admit
    <3>5. ~r.needed \/ r.attempted BY <3>1 DEF MustSend
    <3> HIDE DEF r
    <3> QED BY <3>1, <3>2, <3>3, <3>4, <3>5 DEF Killing, KillAnswered
  <2> QED BY <2>1, <2>2 DEF Killing, KillAnswered
<1>13. ASSUME NEW k \in Kills, SignalSends(k) PROVE Killing'
  <2>1. \A j \in Kills \ {k} : UNCHANGED <<kills[j], killFiles[j], requests[j], sent[j]>>
    BY <1>13 DEF SignalSends, NoReply, Reply, TypeOK
  <2>2. KillAnswered(k)'
    <3> DEFINE r == Admit(k, killFiles[k].signal)
    <3>1. /\ UNCHANGED killFiles /\ requests[k] = "signal" /\ MustSend(r)
          /\ sent'[k] = sent[k] + 1
          /\ sent[k] \in Nat
      BY <1>13 DEF SignalSends, TypeOK
    <3>2. killFiles[k].signal # "none" /\ ~killFiles[k].complete
      BY <3>1 DEF Killing, KillAnswered
    <3>3. r.signal # "none" /\ r.needed BY <3>1, <3>2 DEF Admit, MustSend
    <3>4. r \in KillType BY DEF Admit, KillType, FileType, TypeOK
    <3>5. /\ kills'[k].signal = r.signal /\ (kills'[k].needed <=> r.needed)
          /\ requests'[k] \in {"none", "attempted", "moot"}
          /\ requests'[k] = "moot" => FALSE
      <4>1. CASE kills' = [kills EXCEPT ![k] = [r EXCEPT !.attempted = TRUE]] /\ Reply(k)
        BY <4>1, <3>4 DEF Reply, TypeOK, KillType
      <4>2. CASE kills' = [kills EXCEPT ![k] = r] /\ NoReply(k)
        BY <4>2, <3>4 DEF NoReply, TypeOK, KillType
      <4> QED BY <1>13, <4>1, <4>2 DEF SignalSends
    <3> HIDE DEF r
    <3> QED BY <3>1, <3>2, <3>3, <3>5 DEF KillAnswered
  <2> QED BY <2>1, <2>2 DEF Killing, KillAnswered
<1>14. ASSUME NEW k \in Kills, KillIsLost(k) PROVE Killing'
  <2>1. \A j \in Kills \ {k} : UNCHANGED <<kills[j], killFiles[j], requests[j], sent[j]>>
    BY <1>14 DEF KillIsLost, NoReply, Reply, TypeOK
  <2>2. KillAnswered(k)'
    <3>1. UNCHANGED <<kills, killFiles, sent>> /\ requests'[k] = "none" /\ requests[k] # "none"
      BY <1>14 DEF KillIsLost, NoReply, TypeOK
    <3> QED BY <3>1 DEF Killing, KillAnswered
  <2> QED BY <2>1, <2>2 DEF Killing, KillAnswered
<1>15. ASSUME NEW k \in Kills, KillCompletes(k) PROVE Killing'
  <2>1. \A j \in Kills \ {k} : UNCHANGED <<kills[j], killFiles[j], requests[j], sent[j]>>
    BY <1>15 DEF KillCompletes, NoReply, Reply, TypeOK
  <2>2. KillAnswered(k)'
    <3>1. /\ UNCHANGED <<kills, sent>> /\ requests'[k] = "none"
          /\ requests[k] \in {"moot", "attempted"}
          /\ sent[k] \in Nat
      BY <1>15 DEF KillCompletes, NoReply, TypeOK
    <3>2. killFiles[k] \in FileType BY DEF TypeOK
    <3>3. /\ killFiles'[k].signal = killFiles[k].signal
          /\ (killFiles'[k].attempted <=> requests[k] = "attempted")
      BY <1>15, <3>2 DEF KillCompletes, FileType, TypeOK
    <3> QED BY <3>1, <3>3 DEF Killing, KillAnswered
  <2> QED BY <2>1, <2>2 DEF Killing, KillAnswered
<1>16. CASE TimeoutFires BY <1>16 DEF TimeoutFires, Killing, KillAnswered
<1>17. CASE TimeoutKills BY <1>17 DEF TimeoutKills, Killing, KillAnswered
<1>18. CASE ShutdownTerms BY <1>18 DEF ShutdownTerms, Killing, KillAnswered
<1>19. CASE ShutdownKills BY <1>19 DEF ShutdownKills, Killing, KillAnswered
<1>20. CASE ShutdownExpires BY <1>20 DEF ShutdownExpires, Killing, KillAnswered
<1>21. CASE UNCHANGED vars BY <1>21 DEF vars, Killing, KillAnswered
<1>22. CASE ShutdownAsked BY <1>22 DEF ShutdownAsked, Killing, KillAnswered
<1>23. CASE ShutdownDelayed BY <1>23 DEF ShutdownDelayed, Killing, KillAnswered
<1> QED BY <1>1, <1>2, <1>3, <1>4, <1>5, <1>6, <1>7, <1>8, <1>9, <1>10, <1>11, <1>12, <1>13,
        <1>14, <1>15, <1>16, <1>17, <1>18, <1>19, <1>20, <1>21, <1>22, <1>23
        DEF Next, Start, Shutdown

\* What the record says stays true.
LEMMA RecordIsTrueNext == IInv /\ [Next]_vars => RecordIsTrue'
<1> SUFFICES ASSUME IInv, [Next]_vars PROVE RecordIsTrue' OBVIOUS
<1> TypeOK /\ Phases /\ Blaming /\ Feeding /\ Keeping /\ RecordIsTrue BY DEF IInv
<1>1. CASE StartSpawns
  BY <1>1 DEF StartSpawns, RecordIsTrue, SuccessIsProven, CompleteOutputIsComplete
<1>2. CASE StartFails
  <2>1. UNCHANGED <<code, sig, stdin, input, spool, wrote>> /\ child = "none"
    BY <1>2 DEF StartFails
  <2>2. record' = record \/ record'.state = "failed" BY <1>2 DEF StartFails, NoRecord
  <2>3. spool = [i \in 1 .. wrote |-> i] BY <2>1 DEF Keeping
  <2> QED BY <2>1, <2>2, <2>3 DEF RecordIsTrue, SuccessIsProven, CompleteOutputIsComplete
<1>3. CASE StartStores
  BY <1>3 DEF StartStores, RecordIsTrue, SuccessIsProven, CompleteOutputIsComplete
<1>4. CASE Capture
  <2>1. record.state = "none" /\ record' = record
    BY <1>4 DEF Capture, Phases, Terminal, Gone, Ended
  <2> QED BY <2>1 DEF RecordIsTrue, SuccessIsProven, CompleteOutputIsComplete, Phases
<1>5. CASE ChildExits
  <2>1. record.state = "none" /\ record' = record
    BY <1>5 DEF ChildExits, Phases, Terminal, Gone, Ended
  <2> QED BY <2>1 DEF RecordIsTrue, SuccessIsProven, CompleteOutputIsComplete, Phases
<1>6. CASE Finalize
  <2>1. UNCHANGED <<code, sig, stdin, input, spool, wrote>> /\ lock = "free"
    BY <1>6 DEF Finalize
  <2>2. CASE record' = record
    BY <2>1, <2>2 DEF RecordIsTrue, SuccessIsProven, CompleteOutputIsComplete
  <2>3. CASE record'.state = TerminalOutcome /\ (record'.complete <=> ~captureErr)
    <3>1. record'.complete => spool = [i \in 1 .. wrote |-> i] BY <2>3 DEF Keeping
    <3>2. ASSUME record'.state = "completed"
          PROVE  code = "zero" /\ sig = "none" /\ stdin = Data(input) /\ ~captureErr
      <4>1. target = "none" /\ code = "zero" BY <2>3, <3>2 DEF TerminalOutcome, TypeOK
      <4>2. ~captureErr /\ ~inputErr /\ sig = "none" BY <4>1 DEF Blaming
      <4>3. pending = 0 BY <2>1 DEF TypeOK
      <4>4. Len(stdin) = Len(input) /\ \A i \in 1 .. Len(input) : stdin[i] = input[i].data
        BY <4>2, <4>3 DEF Feeding
      <4>5. stdin = [i \in 1 .. Len(input) |-> input[i].data] BY <4>4 DEF TypeOK
      <4>6. DOMAIN input = 1 .. Len(input) BY DEF TypeOK
      <4> QED BY <4>1, <4>2, <4>5, <4>6 DEF Data
    <3>3. ~captureErr => spool = [i \in 1 .. wrote |-> i] BY DEF Keeping
    <3> QED
      BY <2>1, <3>1, <3>2, <3>3 DEF RecordIsTrue, SuccessIsProven, CompleteOutputIsComplete
  <2> DEFINE frozen == [state |-> TerminalOutcome, complete |-> ~captureErr,
                        accepted |-> Len(Accepted), delivered |-> Len(Delivered)]
  <2>4. record' = record \/ record' = frozen BY <1>6 DEF Finalize, FreezeTerminal
  <2>5. frozen.state = TerminalOutcome OBVIOUS
  <2>6. frozen.complete = (~captureErr) OBVIOUS
  <2> HIDE DEF frozen
  <2> QED BY <2>2, <2>3, <2>4, <2>5, <2>6
<1>7. CASE RunReturns
  BY <1>7 DEF RunReturns, RecordIsTrue, SuccessIsProven, CompleteOutputIsComplete
<1>8. ASSUME NEW offset \in 1 .. MaxRecords, NEW data \in Chunks \cup {EOF}, Write(offset, data)
      PROVE  RecordIsTrue'
  <2>1. record.state = "none" /\ record' = record
    BY <1>8 DEF Write, Phases, Terminal, Gone, Ended
  <2> QED BY <2>1 DEF RecordIsTrue, SuccessIsProven, CompleteOutputIsComplete, Phases
<1>9. CASE Deliver
  <2>1. record.state = "none" /\ record' = record
    BY <1>9 DEF Deliver, Phases, Terminal, Gone, Ended
  <2> QED BY <2>1 DEF RecordIsTrue, SuccessIsProven, CompleteOutputIsComplete, Phases
<1>10. CASE DeliverFails
  <2>1. record.state = "none" /\ record' = record
    BY <1>10 DEF DeliverFails, Phases, Terminal, Gone, Ended
  <2> QED BY <2>1 DEF RecordIsTrue, SuccessIsProven, CompleteOutputIsComplete, Phases
<1>11. ASSUME NEW k \in Kills, NEW s \in KillSignals, KillReserves(k, s) PROVE RecordIsTrue'
  BY <1>11 DEF KillReserves, RecordIsTrue, SuccessIsProven, CompleteOutputIsComplete
<1>12. ASSUME NEW k \in Kills, SignalReplays(k) PROVE RecordIsTrue'
  BY <1>12 DEF SignalReplays, RecordIsTrue, SuccessIsProven, CompleteOutputIsComplete
<1>13. ASSUME NEW k \in Kills, SignalSends(k) PROVE RecordIsTrue'
  <2>1. UNCHANGED <<record, code, stdin, input, spool, wrote>> BY <1>13 DEF SignalSends
  <2>2. child = "gone" => sig' = sig BY <1>13 DEF SignalSends, Send
  <2> QED BY <2>1, <2>2 DEF RecordIsTrue, SuccessIsProven, CompleteOutputIsComplete, Phases
<1>14. ASSUME NEW k \in Kills, KillIsLost(k) PROVE RecordIsTrue'
  BY <1>14 DEF KillIsLost, RecordIsTrue, SuccessIsProven, CompleteOutputIsComplete
<1>15. ASSUME NEW k \in Kills, KillCompletes(k) PROVE RecordIsTrue'
  BY <1>15 DEF KillCompletes, RecordIsTrue, SuccessIsProven, CompleteOutputIsComplete
<1>16. CASE TimeoutFires
  <2>1. UNCHANGED <<record, code, stdin, input, spool, wrote>> BY <1>16 DEF TimeoutFires
  <2>2. child = "gone" => sig' = sig BY <1>16 DEF TimeoutFires, Send
  <2> QED BY <2>1, <2>2 DEF RecordIsTrue, SuccessIsProven, CompleteOutputIsComplete, Phases
<1>17. CASE TimeoutKills
  <2>1. UNCHANGED <<record, code, stdin, input, spool, wrote>> BY <1>17 DEF TimeoutKills
  <2>2. child = "gone" => sig' = sig BY <1>17 DEF TimeoutKills, Send
  <2> QED BY <2>1, <2>2 DEF RecordIsTrue, SuccessIsProven, CompleteOutputIsComplete, Phases
<1>18. CASE ShutdownTerms
  <2>1. UNCHANGED <<record, code, stdin, input, spool, wrote>> BY <1>18 DEF ShutdownTerms
  <2>2. child = "gone" => sig' = sig BY <1>18 DEF ShutdownTerms, Send
  <2> QED BY <2>1, <2>2 DEF RecordIsTrue, SuccessIsProven, CompleteOutputIsComplete, Phases
<1>19. CASE ShutdownKills
  <2>1. UNCHANGED <<record, code, stdin, input, spool, wrote>> BY <1>19 DEF ShutdownKills
  <2>2. child = "gone" => sig' = sig BY <1>19 DEF ShutdownKills, Send
  <2> QED BY <2>1, <2>2 DEF RecordIsTrue, SuccessIsProven, CompleteOutputIsComplete, Phases
<1>20. CASE ShutdownExpires
  BY <1>20 DEF ShutdownExpires, RecordIsTrue, SuccessIsProven, CompleteOutputIsComplete
<1>21. CASE UNCHANGED vars
  BY <1>21 DEF vars, RecordIsTrue, SuccessIsProven, CompleteOutputIsComplete
<1>22. CASE ShutdownAsked BY <1>22 DEF ShutdownAsked, RecordIsTrue, SuccessIsProven, CompleteOutputIsComplete
<1>23. CASE ShutdownDelayed BY <1>23 DEF ShutdownDelayed, RecordIsTrue, SuccessIsProven, CompleteOutputIsComplete
<1> QED BY <1>1, <1>2, <1>3, <1>4, <1>5, <1>6, <1>7, <1>8, <1>9, <1>10, <1>11, <1>12, <1>13,
        <1>14, <1>15, <1>16, <1>17, <1>18, <1>19, <1>20, <1>21, <1>22, <1>23
        DEF Next, Start, Shutdown

\* Type correctness, action by action.
LEMMA TypeOKNext == IInv /\ [Next]_vars => TypeOK'
<1> SUFFICES ASSUME IInv, [Next]_vars PROVE TypeOK' OBVIOUS
<1> TypeOK /\ Phases /\ Blaming /\ Killing BY DEF IInv
<1> faults' \in 0 .. MaxFaults BY FaultsNext
<1>1. CASE StartSpawns BY <1>1 DEF StartSpawns, TypeOK
<1>2. CASE StartFails
  <2>1. record'.state \in Ended \cup {"none"} BY <1>2 DEF StartFails, NoRecord, TypeOK, Ended
  <2>2. UNCHANGED <<pending, input, lock>> \/ (UNCHANGED <<pending, input>> /\ lock = "start" /\ lock' = "free")
    BY <1>2 DEF StartFails
  <2> QED BY <1>2, <2>1, <2>2 DEF StartFails, TypeOK
<1>3. CASE StartStores BY <1>3 DEF StartStores, TypeOK
<1>4. CASE Capture
  <2>1. wrote' \in 0 .. MaxOutput /\ wrote' \in 1 .. MaxOutput
    BY <1>4, RuntimeAssumption DEF Capture, TypeOK
  <2>2. Append(spool, wrote') \in Seq(1 .. MaxOutput) BY <2>1 DEF TypeOK
  <2>3. spool' \in Seq(1 .. MaxOutput) BY <1>4, <2>2 DEF Capture, TypeOK
  <2>4. /\ captureErr' \in BOOLEAN /\ target' \in {"none", "killed", "timed_out"}
        /\ sig' \in Signals \cup {"none"} /\ late' \in BOOLEAN
    <3>1. CASE UNCHANGED <<captureErr, target, sig, late>> BY <3>1 DEF TypeOK
    <3>2. CASE CaptureFailure BY <3>2, CaptureFailureEffect
    <3> QED BY <1>4, <3>1, <3>2 DEF Capture
  <2> QED BY <1>4, <2>1, <2>3, <2>4 DEF Capture, TypeOK
<1>5. CASE ChildExits BY <1>5 DEF ChildExits, TypeOK
<1>6. CASE Finalize
  <2>1. TerminalOutcome \in Ended BY DEF TerminalOutcome, TypeOK, Ended
  <2>2. state' = TerminalOutcome /\ (record' = record \/ record'.state = TerminalOutcome)
    BY <1>6 DEF Finalize, FreezeTerminal
  <2>3. state' \in Ended /\ record'.state \in Ended \cup {"none"} BY <2>1, <2>2 DEF TypeOK
  <2> QED BY <1>6, <2>3 DEF Finalize, TypeOK
<1>7. CASE RunReturns BY <1>7 DEF RunReturns, TypeOK
<1>8. ASSUME NEW offset \in 1 .. MaxRecords, NEW data \in Chunks \cup {EOF}, Write(offset, data)
      PROVE  TypeOK'
  <2>1. [data |-> data, delivered |-> FALSE] \in InputRecords BY <1>8 DEF InputRecords
  <2>2. DOMAIN input = 1 .. Len(input) /\ Len(input) \in Nat BY DEF TypeOK
  <2>3. CASE input' = input /\ offset \in DOMAIN input
    <3>1. input' \in Seq(InputRecords) /\ pending' \in 0 .. Len(input') /\ pending' > 0
      BY <1>8, <2>2, <2>3 DEF Write, TypeOK
    <3> QED BY <1>8, <3>1 DEF Write, TypeOK
  <2>4. CASE input' = Append(input, [data |-> data, delivered |-> FALSE]) /\ offset = Len(input) + 1
    <3>1. input' \in Seq(InputRecords) /\ Len(input') = Len(input) + 1 BY <2>1, <2>4 DEF TypeOK
    <3>2. pending' \in 0 .. Len(input') /\ pending' > 0 BY <1>8, <2>2, <2>4, <3>1 DEF Write
    <3> QED BY <1>8, <3>1, <3>2 DEF Write, TypeOK
  <2> QED BY <1>8, <2>3, <2>4 DEF Write, Accept
<1>9. CASE Deliver
  <2>1. pending' = 0 /\ lock' = "free" /\ pending \in 1 .. Len(input)
    BY <1>9 DEF Deliver, TypeOK
  <2>2. input[pending] \in InputRecords BY <2>1 DEF TypeOK
  <2>3. [input[pending] EXCEPT !.delivered = TRUE] \in InputRecords /\ input[pending].data \in Chunks \cup {EOF}
    BY <2>2 DEF InputRecords
  <2>4. input' \in Seq(InputRecords)
    <3>1. input' = input \/ input' = [input EXCEPT ![pending] = [input[pending] EXCEPT !.delivered = TRUE]]
      BY <1>9 DEF Deliver
    <3>2. [input EXCEPT ![pending] = [input[pending] EXCEPT !.delivered = TRUE]] \in Seq(InputRecords)
      BY <2>1, <2>3, ExceptSeq DEF TypeOK
    <3> QED BY <3>1, <3>2 DEF TypeOK
  <2>5. stdin' \in Seq(Chunks \cup {EOF}) BY <1>9, <2>3 DEF Deliver, TypeOK
  <2>6. /\ inputErr' \in BOOLEAN /\ target' \in {"none", "killed", "timed_out"}
        /\ sig' \in Signals \cup {"none"} /\ late' \in BOOLEAN
    <3>1. CASE UNCHANGED <<inputErr, target, sig, late>> BY <3>1 DEF TypeOK
    <3>2. CASE FailInputDelivery BY <3>2, FailInputEffect
    <3> QED BY <1>9, <3>1, <3>2 DEF Deliver
  <2>7. pending' \in 0 .. Len(input') BY <2>1, <2>4
  <2> QED BY <1>9, <2>1, <2>4, <2>5, <2>6, <2>7 DEF Deliver, TypeOK
<1>10. CASE DeliverFails
  <2>1. pending' = 0 /\ lock' = "free" /\ pending' \in 0 .. Len(input)
    BY <1>10 DEF DeliverFails, TypeOK
  <2>2. /\ inputErr' \in BOOLEAN /\ target' \in {"none", "killed", "timed_out"}
        /\ sig' \in Signals \cup {"none"} /\ late' \in BOOLEAN
    BY <1>10, FailInputEffect DEF DeliverFails
  <2> QED BY <1>10, <2>1, <2>2 DEF DeliverFails, TypeOK
<1>11. ASSUME NEW k \in Kills, NEW s \in KillSignals, KillReserves(k, s) PROVE TypeOK'
  <2>1. s \in Signals BY <1>11, RuntimeAssumption DEF Signals
  <2>2. (Terminal \/ Gone) \in BOOLEAN OBVIOUS
  <2>3. [NoFile EXCEPT !.signal = s, !.complete = Terminal \/ Gone] \in FileType
    BY <2>1, <2>2 DEF NoFile, FileType
  <2>4. killFiles' \in [Kills -> FileType] BY <1>11, <2>3 DEF KillReserves, TypeOK
  <2>5. requests' \in [Kills -> {"none", "signal", "moot", "attempted"}]
    BY <1>11 DEF KillReserves, TypeOK
  <2> QED BY <1>11, <2>4, <2>5 DEF KillReserves, TypeOK
<1>12. ASSUME NEW k \in Kills, SignalReplays(k) PROVE TypeOK'
  <2>1. Admit(k, killFiles[k].signal) \in KillType
    <3>1. kills[k] \in KillType /\ killFiles[k].signal \in Signals \cup {"none"}
      BY DEF TypeOK, FileType
    <3>2. (~Terminal) \in BOOLEAN OBVIOUS
    <3> QED BY <3>1, <3>2 DEF Admit, KillType
  <2>2. kills' \in [Kills -> KillType] BY <1>12, <2>1 DEF SignalReplays, TypeOK
  <2>3. requests' \in [Kills -> {"none", "signal", "moot", "attempted"}]
    BY <1>12 DEF SignalReplays, Reply, TypeOK
  <2> QED BY <1>12, <2>2, <2>3 DEF SignalReplays, TypeOK
<1>13. ASSUME NEW k \in Kills, SignalSends(k) PROVE TypeOK'
  <2>1. Admit(k, killFiles[k].signal) \in KillType
    <3>1. kills[k] \in KillType /\ killFiles[k].signal \in Signals \cup {"none"}
      BY DEF TypeOK, FileType
    <3>2. (~Terminal) \in BOOLEAN OBVIOUS
    <3> QED BY <3>1, <3>2 DEF Admit, KillType
  <2> DEFINE r == Admit(k, killFiles[k].signal)
  <2>2. [r EXCEPT !.attempted = TRUE] \in KillType BY <2>1 DEF KillType
  <2>3. kills' = [kills EXCEPT ![k] = [r EXCEPT !.attempted = TRUE]] \/ kills' = [kills EXCEPT ![k] = r]
    BY <1>13 DEF SignalSends
  <2>4. kills' \in [Kills -> KillType] BY <2>1, <2>2, <2>3 DEF TypeOK
  <2>5. requests' \in [Kills -> {"none", "signal", "moot", "attempted"}]
    BY <1>13 DEF SignalSends, Reply, NoReply, TypeOK
  <2>6. sent' \in [Kills -> Nat] BY <1>13 DEF SignalSends, TypeOK
  <2>7. MustSend(r) /\ requests[k] = "signal" BY <1>13 DEF SignalSends
  <2>8. r.signal \in Signals BY <2>7, KillNamesSignal
  <2>9. Send(r.signal) /\ SetTarget("killed") BY <1>13 DEF SignalSends
  <2>10. sig' \in Signals \cup {"none"} /\ late' \in BOOLEAN /\ target' \in {"none", "killed", "timed_out"}
    BY <2>8, <2>9, SendEffect, SetTargetEffect
  <2> HIDE DEF r
  <2> QED BY <1>13, <2>4, <2>5, <2>6, <2>10 DEF SignalSends, TypeOK
<1>14. ASSUME NEW k \in Kills, KillIsLost(k) PROVE TypeOK'
  <2>1. requests' \in [Kills -> {"none", "signal", "moot", "attempted"}]
    BY <1>14 DEF KillIsLost, NoReply, TypeOK
  <2> QED BY <1>14, <2>1 DEF KillIsLost, TypeOK
<1>15. ASSUME NEW k \in Kills, KillCompletes(k) PROVE TypeOK'
  <2>1. requests' \in [Kills -> {"none", "signal", "moot", "attempted"}]
    BY <1>15 DEF KillCompletes, NoReply, TypeOK
  <2>2. (requests[k] = "attempted") \in BOOLEAN OBVIOUS
  <2> DEFINE f == [killFiles[k] EXCEPT !.complete = TRUE, !.attempted = (requests[k] = "attempted")]
  <2>3. killFiles' \in [Kills -> FileType]
    <3>1. killFiles[k] \in FileType BY DEF TypeOK
    <3>2. f \in FileType BY <2>2, <3>1 DEF FileType
    <3>3. killFiles' = [killFiles EXCEPT ![k] = f] BY <1>15 DEF KillCompletes
    <3> HIDE DEF f
    <3> QED BY <3>2, <3>3 DEF TypeOK
  <2> QED BY <1>15, <2>1, <2>3 DEF KillCompletes, TypeOK
<1>16. CASE TimeoutFires
  <2>1. sig' \in Signals \cup {"none"} /\ late' \in BOOLEAN /\ target' \in {"none", "killed", "timed_out"}
    <3>1. CASE UNCHANGED <<sig, late, target>> BY <3>1 DEF TypeOK
    <3>2. ASSUME NEW x \in Signals, Send(x)
          PROVE  sig' \in Signals \cup {"none"} /\ late' \in BOOLEAN
      BY <3>2, SendEffect
    <3>3. ASSUME NEW t \in {"killed", "timed_out"}, SetTarget(t)
          PROVE  target' \in {"killed", "timed_out"}
      BY <3>3, SetTargetEffect
    <3> QED BY <1>16, <3>1, <3>2, <3>3 DEF TimeoutFires, Signals, TypeOK
  <2> QED BY <1>16, <2>1 DEF TimeoutFires, TypeOK
<1>17. CASE TimeoutKills
  <2>1. sig' \in Signals \cup {"none"} /\ late' \in BOOLEAN /\ target' \in {"none", "killed", "timed_out"}
    <3>1. CASE UNCHANGED <<sig, late, target>> BY <3>1 DEF TypeOK
    <3>2. ASSUME NEW x \in Signals, Send(x)
          PROVE  sig' \in Signals \cup {"none"} /\ late' \in BOOLEAN
      BY <3>2, SendEffect
    <3>3. ASSUME NEW t \in {"killed", "timed_out"}, SetTarget(t)
          PROVE  target' \in {"killed", "timed_out"}
      BY <3>3, SetTargetEffect
    <3> QED BY <1>17, <3>1, <3>2, <3>3 DEF TimeoutKills, Signals, TypeOK
  <2> QED BY <1>17, <2>1 DEF TimeoutKills, TypeOK
<1>18. CASE ShutdownTerms
  <2>1. sig' \in Signals \cup {"none"} /\ late' \in BOOLEAN /\ target' \in {"none", "killed", "timed_out"}
    <3>1. CASE UNCHANGED <<sig, late, target>> BY <3>1 DEF TypeOK
    <3>2. ASSUME NEW x \in Signals, Send(x)
          PROVE  sig' \in Signals \cup {"none"} /\ late' \in BOOLEAN
      BY <3>2, SendEffect
    <3>3. ASSUME NEW t \in {"killed", "timed_out"}, SetTarget(t)
          PROVE  target' \in {"killed", "timed_out"}
      BY <3>3, SetTargetEffect
    <3> QED BY <1>18, <3>1, <3>2, <3>3 DEF ShutdownTerms, Signals, TypeOK
  <2> QED BY <1>18, <2>1 DEF ShutdownTerms, TypeOK
<1>19. CASE ShutdownKills
  <2>1. sig' \in Signals \cup {"none"} /\ late' \in BOOLEAN /\ target' \in {"none", "killed", "timed_out"}
    <3>1. CASE UNCHANGED <<sig, late, target>> BY <3>1 DEF TypeOK
    <3>2. ASSUME NEW x \in Signals, Send(x)
          PROVE  sig' \in Signals \cup {"none"} /\ late' \in BOOLEAN
      BY <3>2, SendEffect
    <3>3. ASSUME NEW t \in {"killed", "timed_out"}, SetTarget(t)
          PROVE  target' \in {"killed", "timed_out"}
      BY <3>3, SetTargetEffect
    <3> QED BY <1>19, <3>1, <3>2, <3>3 DEF ShutdownKills, Signals, TypeOK
  <2> QED BY <1>19, <2>1 DEF ShutdownKills, TypeOK
<1>20. CASE ShutdownExpires BY <1>20 DEF ShutdownExpires, TypeOK
<1>21. CASE UNCHANGED vars BY <1>21 DEF vars, TypeOK
<1>22. CASE ShutdownAsked BY <1>22 DEF ShutdownAsked, TypeOK
<1>23. CASE ShutdownDelayed BY <1>23 DEF ShutdownDelayed, TypeOK
<1> QED BY <1>1, <1>2, <1>3, <1>4, <1>5, <1>6, <1>7, <1>8, <1>9, <1>10, <1>11, <1>12, <1>13,
        <1>14, <1>15, <1>16, <1>17, <1>18, <1>19, <1>20, <1>21, <1>22, <1>23
        DEF Next, Start, Shutdown

\* It holds at the beginning.
LEMMA InitIInv == Init => IInv
<1> SUFFICES ASSUME Init PROVE IInv OBVIOUS
<1>1. TypeOK
  <2>1. 0 \in 0 .. MaxOutput /\ 0 \in 0 .. MaxFaults BY RuntimeAssumption
  <2>2. <<>> \in Seq(InputRecords) /\ <<>> \in Seq(1 .. MaxOutput) /\ <<>> \in Seq(Chunks \cup {EOF})
        /\ Len(<<>>) = 0
    OBVIOUS
  <2>3. NoKill \in KillType /\ NoFile \in FileType BY DEF NoKill, KillType, NoFile, FileType
  <2>4. NoRecord.state = "none" BY DEF NoRecord
  <2>5. pending \in 0 .. Len(input) /\ (lock = "write" <=> pending > 0) BY <2>2 DEF Init
  <2>6. /\ kills \in [Kills -> KillType] /\ killFiles \in [Kills -> FileType]
        /\ requests \in [Kills -> {"none", "signal", "moot", "attempted"}]
        /\ sent \in [Kills -> Nat]
    BY <2>3 DEF Init
  <2>7. /\ input \in Seq(InputRecords) /\ spool \in Seq(1 .. MaxOutput)
        /\ stdin \in Seq(Chunks \cup {EOF}) /\ record.state = "none"
    BY <2>2, <2>4 DEF Init
  <2> QED BY <2>1, <2>5, <2>6, <2>7 DEF Init, TypeOK
<1>2. Phases BY DEF Init, Phases, Terminal, Gone, Ended, NoRecord
<1>3. Blaming BY DEF Init, Blaming
<1>4. Feeding BY DEF Init, Feeding
<1>5. Keeping BY DEF Init, Keeping
<1>6. Killing BY DEF Init, Killing, KillAnswered, NoKill, NoFile
<1>7. RecordIsTrue
  BY DEF Init, RecordIsTrue, SuccessIsProven, CompleteOutputIsComplete, NoRecord
<1> QED BY <1>1, <1>2, <1>3, <1>4, <1>5, <1>6, <1>7 DEF IInv

\* The inductive invariant holds in every behaviour of the supervisor, its
\* child and the daemon that asks for kills.
THEOREM Invariance == Spec => []IInv
<1>1. IInv /\ [Next]_vars => IInv'
  BY TypeOKNext, PhasesNext, BlamingNext, FeedingNext, KeepingNext, KillingNext,
     RecordIsTrueNext
     DEF IInv
<1> QED BY <1>1, InitIInv, PTL DEF Spec

\* Runtime, ledgers, files and threads keep their types.
THEOREM TypeCorrect == Spec => []TypeOK
BY Invariance, PTL DEF IInv

\* As long as no delivery failed the child was given exactly the first records
\* of the ledger, each once and in order, and a record is marked delivered if
\* and only if the child has it, in spite of repeated writes.
THEOREM InputDeliveredInOrder == Spec => []InputInOrder
<1>1. IInv => InputInOrder
  <2> SUFFICES ASSUME IInv, ~inputErr PROVE
        /\ IsPrefix(stdin, Data(input))
        /\ \A i \in DOMAIN input : input[i].delivered <=> i <= Len(stdin)
    BY DEF InputInOrder
  <2>1. input \in Seq(InputRecords) /\ stdin \in Seq(Chunks \cup {EOF}) /\ DOMAIN input = 1 .. Len(input)
    BY DEF IInv, TypeOK
  <2>2. /\ pending \in {0, Len(input)}
        /\ Len(stdin) = IF pending = 0 THEN Len(input) ELSE Len(input) - 1
        /\ \A i \in 1 .. Len(stdin) : input[i].delivered /\ stdin[i] = input[i].data
        /\ pending > 0 => ~input[pending].delivered
    BY DEF IInv, Feeding
  <2>3. Len(stdin) \in Nat /\ Len(input) \in Nat /\ pending \in Nat BY <2>1 DEF IInv, TypeOK
  <2>4. ASSUME NEW i \in DOMAIN input PROVE input[i].delivered <=> i <= Len(stdin)
    <3>1. i \in 1 .. Len(input) BY <2>1, <2>4
    <3>2. CASE i <= Len(stdin) BY <2>2, <2>3, <3>1, <3>2
    <3>3. CASE ~(i <= Len(stdin))
      <4>1. i = pending /\ pending > 0 BY <2>2, <2>3, <3>1, <3>3
      <4> QED BY <2>2, <3>3, <4>1
    <3> QED BY <3>2, <3>3
  <2>5. IsPrefix(stdin, Data(input))
    <3> DEFINE d == Data(input)
    <3>1. ASSUME NEW i \in 1 .. Len(input) PROVE input[i].data \in Chunks \cup {EOF}
      <4>1. input[i] \in InputRecords BY <2>1
      <4> QED BY <4>1 DEF InputRecords
    <3>2. d = [i \in 1 .. Len(input) |-> input[i].data] BY <2>1 DEF Data
    <3>3. d \in Seq(Chunks \cup {EOF}) /\ Len(d) = Len(input) BY <2>3, <3>1, <3>2, IsASeq
    <3>4. Len(stdin) <= Len(d) /\ \A i \in 1 .. Len(stdin) : stdin[i] = d[i]
      <4>1. Len(stdin) <= Len(input) BY <2>2, <2>3
      <4>2. ASSUME NEW i \in 1 .. Len(stdin) PROVE stdin[i] = d[i]
        <5>1. i \in 1 .. Len(input) BY <2>3, <4>1
        <5> QED BY <2>2, <3>2, <5>1
      <4> QED BY <3>3, <4>1, <4>2
    <3> HIDE DEF d
    <3> DEFINE a == SubSeq(stdin, 1, Len(stdin))
               b == SubSeq(d, 1, Len(stdin))
    <3>5. /\ a \in Seq(Chunks \cup {EOF}) /\ Len(a) = Len(stdin)
          /\ \A i \in 1 .. Len(stdin) : a[i] = stdin[i]
      BY <2>1
    <3>6. /\ b \in Seq(Chunks \cup {EOF}) /\ Len(b) = Len(stdin)
          /\ \A i \in 1 .. Len(stdin) : b[i] = d[i]
      BY <2>3, <3>3, <3>4
    <3>7. \A i \in 1 .. Len(stdin) : a[i] = b[i] BY <3>4, <3>5, <3>6
    <3> HIDE DEF a, b
    <3>8. a = b BY <3>5, <3>6, <3>7, SeqEqual
    <3> QED BY <3>4, <3>8 DEF IsPrefix, a, b, d
  <2> QED BY <2>4, <2>5
<1> QED BY <1>1, Invariance, PTL

\* The frozen record claims success only for a child that ended with code zero,
\* with nothing that spoiled it, and complete output only if the spool has all
\* of it.
THEOREM RecordNeverLies == Spec => []RecordIsTrue
BY Invariance, PTL DEF IInv

\* The answer the daemon keeps for a kill_id says that a signal was sent if and
\* only if one was, although answers are lost and requests repeated.
THEOREM KillAnswersAreTrue == Spec => []KillAnswerIsTrue
<1>1. IInv => KillAnswerIsTrue BY DEF IInv, Killing, KillAnswered, KillAnswerIsTrue
<1> QED BY <1>1, Invariance, PTL

\* When the supervisor is gone its child is gone, or has been sent KILL, or TERM
\* by a shutdown that a write kept waiting until its budget was nearly spent.
THEOREM NoChildLeftBehind == Spec => []NoChildIsLeft
<1>1. IInv => NoChildIsLeft BY DEF IInv, TypeOK, Signals, Phases, NoChildIsLeft
<1> QED BY <1>1, Invariance, PTL

=============================================================================
