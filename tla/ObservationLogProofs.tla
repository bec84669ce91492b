----------------------- MODULE ObservationLogProofs -----------------------
(* Theorems about ObservationLog.  A step changes the ledger and the store in *)
(* few ways (Moves, StoreMoves): an obligation is prepared under the next     *)
(* number, decided once, by the change made under it or at a startup by its   *)
(* subject, and collected only behind the mark of the projection.  On that    *)
(* rest the parts of IInv: the numbers given out (Numbered), what each writer *)
(* knows of its obligation (Writing), the queued transitions (Retrying), what *)
(* the materializer has read under a lock that excludes neither writers nor   *)
(* retention (Projecting), and what a call of the client has read (Reading).  *)
(* There is a lemma for each part.  The theorems hold for any number of       *)
(* writers, changes, faults and crashes, and for every scan limit and size of *)
(* an answer.                                                                 *)
EXTENDS ObservationLog, FiniteSetTheorems, WellFoundedInduction, TLAPS

\* The numbers given out are 1 to high, and the file of the newest is kept.
Numbered ==
  /\ \A s \in Seqs : s <= high <=> ledger[s] # "none"
  /\ high > 0 => ledger[high] # "collected"
  /\ \A s \in applied \cup events : s <= high

\* What a writer in its section knows of its obligation.
Section(w) ==
  writer[w].pc # "idle" =>
    /\ writer[w].seq \in Seqs /\ ledger[writer[w].seq] = "prepared"
    /\ retries[writer[w].seq] = "none"
    /\ writer[w].pc = "write" => writer[w].seq \notin applied
    /\ writer[w].pc = "finish" => /\ writer[w].to \in Terminal
                                  /\ writer[w].to = "committed" <=> writer[w].seq \in applied
    /\ \A v \in Writers : v # w /\ writer[v].pc # "idle" => writer[v].seq # writer[w].seq

\* What every writer knows.
Writing == \A w \in Writers : Section(w)

\* A queued transition agrees with the store and with what the ledger shows.
Retrying ==
  \A s \in Seqs : retries[s] # "none" =>
    /\ ledger[s] \in {"prepared", "collected", retries[s]}
    /\ retries[s] = "committed" <=> s \in applied

\* What the materializer has read still stands.
Projecting ==
  /\ \A s \in Seqs : ledger[s] = "prepared" => projection.mat < s
  /\ run.pc # "idle" => run.mat = projection.mat
  /\ run.pc \in {"put", "save"} =>
       /\ run.high <= high
       /\ \A s \in Seqs : run.batch[s] \in Terminal => /\ ledger[s] \in {run.batch[s], "collected"}
                                                       /\ run.batch[s] = "committed" => Vouched(s)
                                                       /\ run.batch[s] = "aborted" => s \notin applied
  /\ run.pc = "save" => /\ NextSeq <= run.high /\ run.batch[NextSeq] \in Terminal
                        /\ run.batch[NextSeq] = "committed" => NextSeq \in events

\* What the client was given so far, and what its call has read.
Reading ==
  /\ client.call.pc = "list" =>
       client.call.through <= projection.mat /\ client.call.comp <= client.cursor
  /\ client.cursor <= projection.mat \/ client.cursor <= client.resumed
  /\ client.resumed <= high
  /\ client.call.pc = "facts" => client.call.through <= high
  /\ \A s \in Seqs : ledger[s] = "prepared" /\ s <= client.resumed => s \in client.missed

\* The inductive invariant.
IInv ==
  /\ TypeOK /\ Numbered /\ Writing /\ Retrying /\ Projecting /\ Reading
  /\ LedgerIsTrue /\ ProjectionIsSound /\ ClientMissesNothing

USE DEF store, writing, journal, history

-----------------------------------------------------------------------------
(* Least and greatest elements.                                            *)

\* A set of natural numbers that is not empty has a least element.
LEMMA LeastElement ==
  ASSUME NEW T \in SUBSET Nat, T # {}
  PROVE  \E m \in T : \A x \in T : m <= x
<1> DEFINE R == OpToRel(<, Nat)
<1>1. IsWellFoundedOn(R, Nat) BY NatLessThanWellFounded
<1>2. \A x, y \in Nat : x < y => <<x, y>> \in R BY DEF OpToRel
<1> HIDE DEF R
<1>3. PICK m \in T : \A y \in T : ~(<<y, m>> \in R) BY <1>1, WFMin
<1>4. \A y \in T : ~(y < m) BY <1>2, <1>3
<1>5. \A y \in T : m <= y BY <1>4
<1> QED BY <1>5

\* One that is bounded has a greatest element, and Max is that element.
LEMMA GreatestElement ==
  ASSUME NEW n \in Nat, NEW T \in SUBSET (0 .. n), T # {}
  PROVE  Max(T) \in T /\ \A x \in T : x <= Max(T)
<1> DEFINE U == {n - x : x \in T}
<1>1. U \in SUBSET Nat OBVIOUS
<1>2. PICK t \in T : TRUE OBVIOUS
<1>3. n - t \in U OBVIOUS
<1>4. PICK u \in U : \A x \in U : u <= x BY <1>1, <1>3, LeastElement
<1>5. PICK m \in T : u = n - m BY <1>4
<1>6. \A x \in T : n - x \in U OBVIOUS
<1>7. \A x \in T : x <= m BY <1>4, <1>5, <1>6
<1>8. \E z \in T : \A x \in T : z >= x BY <1>7
<1>9. Max(T) \in T /\ \A x \in T : Max(T) >= x BY <1>8 DEF Max
<1> QED BY <1>9

\* Max is the element that bounds the others.
LEMMA MaxIs ==
  ASSUME NEW T \in SUBSET Nat, NEW m \in T, \A x \in T : x <= m
  PROVE  Max(T) = m
<1>1. \E z \in T : \A x \in T : z >= x OBVIOUS
<1>2. Max(T) \in T /\ \A x \in T : Max(T) >= x BY <1>1 DEF Max
<1>3. Max(T) \in Nat /\ m \in Nat /\ Max(T) >= m /\ Max(T) <= m BY <1>2
<1> QED BY <1>3

-----------------------------------------------------------------------------
(* What the helpers of the actions do.                                     *)

\* The bounds are natural numbers.
LEMMA Bounds == MaxSeq \in Nat /\ MaxFaults \in Nat /\ MaxCrashes \in Nat /\ Hiding \subseteq Writers
BY LogAssumption

\* A fault is counted within its bound.
LEMMA FaultType == ASSUME TypeOK, Fault PROVE faults' \in 0 .. MaxFaults
BY Bounds DEF TypeOK, Fault

\* The values of what is idle.
LEMMA IdleTypes ==
  /\ NoRun \in Runs /\ NoRun.pc = "idle" /\ NoRun.who = "none"
  /\ NoCall \in Calls /\ NoCall.pc = "idle" /\ NoCall.through = 0 /\ NoCall.comp = 0
  /\ Idle \in Sections /\ Idle.pc = "idle"
BY Bounds DEF NoRun, Runs, NoCall, Calls, Idle, Sections, States

\* Materialize answers: the run ends, and a client that goes on does so up to the
\* mark, when nothing is missing before it, or with a snapshot.
LEMMA AnswerEffect ==
  ASSUME TypeOK, NEW ok \in BOOLEAN, NEW mat \in 0 .. MaxSeq, NEW hw \in 0 .. MaxSeq,
         Answer(ok, mat, hw)
  PROVE  /\ run' = NoRun /\ loop' \in {loop, "timer", "waiting", "error"}
         /\ client' \in Readers /\ client'.cursor = client.cursor
         /\ client'.resumed = client.resumed /\ client'.known = client.known
         /\ client'.missed = client.missed
         /\ \/ client'.call = client.call \/ client'.call.pc \in {"idle", "cut"}
            \/ /\ ok /\ client'.call.pc = "list" /\ client'.call.through = mat
               /\ client'.call.comp <= client.cursor
<1> USE Bounds
<1>1. client \in Readers BY DEF TypeOK
<1>2. CASE run.who = "loop"
  <2>1. /\ run' = NoRun /\ client' = client
        /\ loop' = IF loop = "repeating" THEN "timer" ELSE IF ok THEN "waiting" ELSE "error"
    BY <1>2 DEF Answer
  <2> QED BY <1>1, <2>1
<1>3. CASE run.who # "loop"
  <2> DEFINE call == CASE ~ok \/ mat < hw -> NoCall
                       [] client.cursor < run.comp -> [NoCall EXCEPT !.pc = "cut"]
                       [] client.cursor > hw -> NoCall
                       [] OTHER -> [pc |-> "list", through |-> mat, comp |-> run.comp]
  <2>1. run' = NoRun /\ loop' = loop /\ client' = [client EXCEPT !.call = call]
    BY <1>3 DEF Answer
  <2>2. \/ call = NoCall \/ call = [NoCall EXCEPT !.pc = "cut"]
        \/ /\ ok /\ call = [pc |-> "list", through |-> mat, comp |-> run.comp]
           /\ ~(client.cursor < run.comp)
    OBVIOUS
  <2> HIDE DEF call
  <2>6. run.comp \in 0 .. MaxSeq /\ client.cursor \in 0 .. MaxSeq BY <1>1 DEF TypeOK, Runs, Readers
  <2>3. /\ call \in Calls
        /\ \/ call.pc \in {"idle", "cut"}
           \/ /\ ok /\ call.pc = "list" /\ call.through = mat
              /\ call.comp <= client.cursor
    BY <2>2, <2>6, IdleTypes DEF Calls
  <2>4. call \in Calls BY <2>3
  <2>5. /\ client' \in Readers /\ client'.cursor = client.cursor
        /\ client'.resumed = client.resumed /\ client'.known = client.known
        /\ client'.missed = client.missed /\ client'.call = call
    BY <1>1, <2>1, <2>4 DEF Readers
  <2> QED BY <2>1, <2>3, <2>5
<1> QED BY <1>2, <1>3

\* The newest obligation is the watermark.
LEMMA NewestIsHigh ==
  ASSUME TypeOK, Numbered
  PROVE  /\ Max(Surviving \cup {0}) = high
         /\ Surviving # {} => Max(Surviving) = high
<1> USE Bounds
<1>1. \A s \in Surviving : s \in Nat /\ s <= high BY DEF Surviving, Numbered, TypeOK, Seqs
<1>2. high \in Nat BY DEF TypeOK
<1>3. high > 0 => high \in Surviving BY DEF Surviving, Numbered, TypeOK, Seqs
<1>4. high = 0 => Surviving = {} BY <1>1 DEF Surviving, Seqs
<1>5. Surviving \cup {0} \in SUBSET Nat /\ high \in Surviving \cup {0}
      /\ \A s \in Surviving \cup {0} : s <= high
  BY <1>1, <1>2, <1>3
<1>6. Max(Surviving \cup {0}) = high BY <1>5, MaxIs
<1>7. ASSUME Surviving # {} PROVE Max(Surviving) = high
  <2>1. Surviving \in SUBSET Nat /\ high \in Surviving BY <1>1, <1>2, <1>3, <1>4, <1>7
  <2> QED BY <1>1, <2>1, MaxIs
<1> QED BY <1>6, <1>7

-----------------------------------------------------------------------------
(* What a step may do to the ledger and to the store.                      *)

\* An obligation is prepared under the next number, decided once and truthfully,
\* and collected when the projection is past it.
Moves(s) ==
  \/ ledger'[s] = ledger[s]
  \/ ledger[s] = "none" /\ ledger'[s] = "prepared" /\ s = high + 1 /\ high' = high + 1
  \/ /\ ledger[s] = "prepared" /\ ledger'[s] \in Terminal
     /\ ledger'[s] = "committed" =>
          s \in applied \/ (s \in adopted' /\ Present(s) /\ retries'[s] = "none")
     /\ ledger'[s] = "aborted" => s \notin applied
  \/ ledger[s] \in Terminal /\ ledger'[s] = "collected" /\ s <= projection.mat /\ s # high

\* A change is made by a writer in its section, and nothing else happens then.
StoreMoves ==
  /\ \A s \in Seqs : Moves(s)
  /\ ledger' \in [Seqs -> States]
  /\ high' = high \/ (high' = high + 1 /\ high' \in Seqs /\ ledger'[high'] = "prepared")
  /\ adopted \subseteq adopted' /\ \A s \in Seqs : s <= high => subject'[s] = subject[s]
  /\ \/ applied' = applied
     \/ /\ UNCHANGED <<ledger, high, projection, events, run, retries, client>>
        /\ \E w \in Writers : /\ writer[w].pc = "write"
                              /\ applied' = applied \cup {writer[w].seq}
                              /\ \A v \in Writers : v # w => writer'[v] = writer[v]

\* A step that leaves the ledger and the store alone.
LEMMA NothingMoves ==
  ASSUME TypeOK, UNCHANGED <<ledger, subject, high, applied, adopted>> PROVE StoreMoves
BY DEF StoreMoves, Moves, TypeOK

\* Every step moves the ledger and the store this way.
LEMMA StoreNext == IInv /\ [Next]_vars => StoreMoves
<1> SUFFICES ASSUME IInv, [Next]_vars PROVE StoreMoves OBVIOUS
<1> TypeOK /\ Numbered /\ Writing /\ Retrying BY DEF IInv
<1> USE Bounds
<1>1. ASSUME NEW w \in Writers, Prepare(w) PROVE StoreMoves
  <2>1. high + 1 \in Seqs /\ ledger[high + 1] = "none"
    BY <1>1 DEF Prepare, Numbered, TypeOK, Seqs
  <2>2. /\ ledger' = [ledger EXCEPT ![high + 1] = "prepared"] /\ high' = high + 1
        /\ applied' = applied /\ adopted' = adopted
    BY <1>1 DEF Prepare
  <2>3. \A s \in Seqs : s <= high => subject'[s] = subject[s]
    <3>1. PICK x : subject' = [subject EXCEPT ![high + 1] = x] BY <1>1 DEF Prepare
    <3>2. \A s \in Seqs : s <= high => s # high + 1 BY DEF TypeOK, Seqs
    <3> QED BY <3>1, <3>2 DEF TypeOK
  <2>4. ledger' \in [Seqs -> States] BY <2>2 DEF TypeOK, States
  <2>5. \A s \in Seqs : Moves(s) BY <2>1, <2>2 DEF Moves, TypeOK
  <2>6. ledger'[high'] = "prepared" BY <2>1, <2>2 DEF TypeOK
  <2> QED BY <2>1, <2>2, <2>4, <2>5, <2>6, <2>3 DEF StoreMoves
<1>2. ASSUME NEW w \in Writers, Write(w) PROVE StoreMoves
  <2>1. /\ UNCHANGED <<ledger, subject, high, projection, events, run, retries, client, adopted>>
        /\ writer[w].pc = "write"
        /\ applied' = applied \/ applied' = applied \cup {writer[w].seq}
    BY <1>2 DEF Write
  <2>2. \A v \in Writers : v # w => writer'[v] = writer[v]
    BY <1>2 DEF Write, Finishing, TypeOK
  <2>3. \A s \in Seqs : Moves(s) BY <2>1 DEF Moves
  <2>4. ledger' \in [Seqs -> States] BY <2>1 DEF TypeOK
  <2> QED BY <2>1, <2>2, <2>3, <2>4 DEF StoreMoves
<1>3. ASSUME NEW w \in Writers, Finish(w) PROVE StoreMoves
  <2> DEFINE s == writer[w].seq
             to == writer[w].to
  <2>1. UNCHANGED <<subject, high, applied, adopted>>
        /\ (ledger' = ledger \/ ledger' = [ledger EXCEPT ![s] = to])
    BY <1>3 DEF Finish
  <2>2. /\ s \in Seqs /\ ledger[s] = "prepared" /\ to \in Terminal
        /\ to = "committed" <=> s \in applied
    BY <1>3 DEF Finish, Writing, Section
  <2> HIDE DEF s, to
  <2>3. \A t \in Seqs : Moves(t) BY <2>1, <2>2 DEF Moves, TypeOK, Terminal
  <2>4. ledger' \in [Seqs -> States] BY <2>1, <2>2 DEF TypeOK, States, Terminal
  <2> QED BY <2>1, <2>3, <2>4 DEF StoreMoves
<1>4. CASE LoopRetries
  <2>1. PICK done : /\ \A s \in done : retries[s] # "none" /\ ledger[s] # "collected"
                    /\ ledger' = [s \in Seqs |-> IF s \in done THEN retries[s] ELSE ledger[s]]
                    /\ UNCHANGED <<subject, high, applied, adopted>>
    BY <1>4 DEF LoopRetries
  <2>2. ASSUME NEW s \in Seqs PROVE Moves(s)
    <3>1. CASE s \in done
      <4>1. /\ ledger'[s] = retries[s] /\ retries[s] \in Terminal
            /\ ledger[s] = "prepared" \/ ledger[s] = retries[s]
            /\ retries[s] = "committed" <=> s \in applied
        BY <2>1, <3>1 DEF Retrying, TypeOK
      <4> QED BY <4>1 DEF Moves, Terminal
    <3>2. CASE s \notin done BY <2>1, <3>2 DEF Moves
    <3> QED BY <3>1, <3>2
  <2>3. ledger' \in [Seqs -> States] BY <2>1 DEF TypeOK, States, Terminal
  <2> QED BY <2>1, <2>2, <2>3 DEF StoreMoves
<1>5. CASE CollectObligations
  <2>1. PICK through \in 1 .. projection.mat :
          /\ Collectible(through) # {}
          /\ ledger' = [s \in Seqs |-> IF s \in Collectible(through) THEN "collected" ELSE ledger[s]]
    BY <1>5 DEF CollectObligations
  <2>2. UNCHANGED <<subject, high, applied, adopted>> BY <1>5 DEF CollectObligations
  <2>3. ASSUME NEW s \in Collectible(through)
        PROVE  s \in Seqs /\ ledger[s] \in Terminal /\ s <= through /\ s # high
    <3>1. s \in Surviving /\ s <= through /\ ledger[s] # "prepared" /\ s # Max(Surviving)
      BY DEF Collectible
    <3>2. s # high BY <3>1, NewestIsHigh
    <3>3. ledger[s] \in Terminal BY <3>1 DEF Surviving, TypeOK, States, Terminal
    <3> QED BY <3>1, <3>2, <3>3 DEF Surviving
  <2>4. ASSUME NEW s \in Seqs PROVE Moves(s)
    <3>1. s <= through => s <= projection.mat BY DEF TypeOK, Marks, Seqs
    <3>2. CASE s \in Collectible(through) BY <2>1, <2>3, <3>1, <3>2 DEF Moves
    <3>3. CASE s \notin Collectible(through) BY <2>1, <3>3 DEF Moves
    <3> QED BY <3>2, <3>3
  <2>5. ledger' \in [Seqs -> States] BY <2>1 DEF TypeOK, States
  <2> QED BY <2>2, <2>4, <2>5 DEF StoreMoves
<1>6. CASE Restart
  <2>1. high' = high /\ UNCHANGED <<subject, applied>> /\ adopted \subseteq adopted'
    BY <1>6, NewestIsHigh DEF Restart
  <2>2. ledger' = [s \in Seqs |-> Reconciled(s)] BY <1>6 DEF Restart
  <2>3. ASSUME NEW s \in Seqs PROVE Moves(s)
    <3>1. s \in applied => Present(s) BY DEF Present
    <3>2. retries'[s] = "none" /\ (ledger[s] = "prepared" => s \in adopted') BY <1>6 DEF Restart
    <3> QED BY <2>2, <3>1, <3>2 DEF Moves, Reconciled, Terminal
  <2>4. ledger' \in [Seqs -> States] BY <2>2 DEF Reconciled, TypeOK, States
  <2> QED BY <2>1, <2>3, <2>4 DEF StoreMoves
<1>7. CASE \/ Materialize \/ LoopMaterializes \/ LoopWakes \/ CompactEvents \/ Inspect
           \/ UNCHANGED vars
  <2>1. UNCHANGED <<ledger, subject, high, applied, adopted>>
    BY <1>7 DEF Materialize, ReadHigh, Put, Save, LoopMaterializes, LoopWakes, CompactEvents,
       Inspect,
                Ask, ListDelta, SnapshotCut, SnapshotFacts, SnapshotFails, vars
  <2> QED BY <2>1, NothingMoves
<1> QED BY <1>1, <1>2, <1>3, <1>4, <1>5, <1>6, <1>7 DEF Next, Loop, Retention

\* The change a writer makes is that of its own obligation, which is prepared.
LEMMA ChangeIsPrepared ==
  ASSUME IInv, StoreMoves, applied' # applied
  PROVE  \E w \in Writers : /\ writer[w].pc = "write" /\ applied' = applied \cup {writer[w].seq}
                            /\ writer[w].seq \in Seqs /\ ledger[writer[w].seq] = "prepared"
                            /\ retries[writer[w].seq] = "none"
                            /\ writer[w].seq <= high /\ projection.mat < writer[w].seq
                            /\ \A v \in Writers : v # w => writer'[v] = writer[v]
<1> TypeOK /\ Numbered /\ Writing /\ Projecting BY DEF IInv
<1>1. PICK w \in Writers : /\ writer[w].pc = "write" /\ applied' = applied \cup {writer[w].seq}
                           /\ \A v \in Writers : v # w => writer'[v] = writer[v]
  BY DEF StoreMoves
<1>2. /\ writer[w].seq \in Seqs /\ ledger[writer[w].seq] = "prepared"
      /\ retries[writer[w].seq] = "none"
  BY <1>1 DEF Writing, Section
<1>3. writer[w].seq <= high BY <1>2 DEF Numbered
<1>4. projection.mat < writer[w].seq BY <1>2 DEF Projecting
<1> QED BY <1>1, <1>2, <1>3, <1>4

\* What a committed obligation says stays so: the store loses nothing, and an
\* obligation keeps its subject.
LEMMA VouchedStays ==
  ASSUME IInv, StoreMoves, NEW s \in Seqs, s <= high,
         s \in applied \/ (s \in adopted' /\ Present(s))
  PROVE  Vouched(s)'
<1> TypeOK /\ Numbered BY DEF IInv
<1>1. applied \subseteq applied' BY DEF StoreMoves
<1>2. CASE s \in applied BY <1>1, <1>2 DEF Vouched
<1>3. CASE s \in adopted' /\ Present(s)
  <2>1. PICK t \in applied : subject[t] = subject[s] BY <1>3 DEF Present
  <2>2. t \in Seqs /\ t <= high BY DEF TypeOK, Numbered
  <2>3. subject'[t] = subject'[s] BY <2>1, <2>2 DEF StoreMoves
  <2>4. Present(s)' BY <1>1, <2>3 DEF Present
  <2> QED BY <1>3, <2>4 DEF Vouched
<1> QED BY <1>2, <1>3

\* The numbers stay in order.
LEMMA NumberedNext == IInv /\ [Next]_vars => Numbered'
<1> SUFFICES ASSUME IInv, [Next]_vars PROVE Numbered' OBVIOUS
<1> TypeOK /\ Numbered /\ StoreMoves BY StoreNext DEF IInv
<1> USE Bounds
<1>1. high \in Nat /\ high' \in Nat BY DEF TypeOK, StoreMoves
<1>2. high <= high' BY <1>1 DEF StoreMoves
<1>3. ASSUME NEW s \in Seqs PROVE s <= high' <=> ledger'[s] # "none"
  <2>1. s \in Nat /\ (s <= high <=> ledger[s] # "none") BY DEF Numbered, Seqs
  <2>2. \/ ledger'[s] = ledger[s]
        \/ s = high + 1 /\ high' = high + 1 /\ ledger'[s] = "prepared"
        \/ ledger[s] # "none" /\ ledger'[s] # "none"
    <3>1. Moves(s) BY DEF StoreMoves
    <3> QED BY <3>1 DEF Moves, Terminal
  <2>3. high' = high \/ (high' = high + 1 /\ ledger'[high'] = "prepared") BY DEF StoreMoves
  <2> QED BY <1>1, <2>1, <2>2, <2>3
<1>4. high' > 0 => ledger'[high'] # "collected"
  BY <1>1 DEF StoreMoves, Moves, Numbered, Terminal, TypeOK, Seqs
<1>5. \A s \in applied' : s <= high'
  <2>1. \A s \in applied' : s \in Nat /\ s <= high
    <3>1. \A s \in Seqs : s \in Nat BY DEF Seqs
    <3>2. \A s \in applied' : s \in applied \/ (s \in Seqs /\ s <= high) BY ChangeIsPrepared
    <3> QED BY <3>1, <3>2 DEF Numbered, TypeOK
  <2> QED BY <1>1, <1>2, <2>1
<1>6. \A s \in events' : s <= high'
  <2>1. events' \subseteq events \/ (Put /\ events' \subseteq events \cup {NextSeq})
    BY DEF Next, vars, Prepare, Write, Finish, Materialize, ReadHigh, Put, Save, Loop, LoopRetries,
           LoopMaterializes, LoopWakes, Retention, CompactEvents, CollectObligations, Inspect, Ask,
           ListDelta, SnapshotCut, SnapshotFacts, SnapshotFails, Restart
  <2>2. \A s \in events : s \in Nat /\ s <= high BY DEF Numbered, TypeOK, Seqs
  <2>3. CASE events' \subseteq events BY <1>1, <1>2, <2>2, <2>3
  <2>4. CASE Put /\ ~(events' \subseteq events)
    <3>1. NextSeq <= run.high /\ run.high <= high BY <2>4 DEF Put, IInv, Projecting
    <3>2. NextSeq \in Nat /\ run.high \in Nat BY DEF NextSeq, TypeOK, Runs
    <3> QED BY <1>1, <1>2, <2>1, <2>2, <2>4, <3>1, <3>2
  <2> QED BY <2>1, <2>3, <2>4
<1> QED BY <1>3, <1>4, <1>5, <1>6 DEF Numbered

\* LedgerIsTrue: a decision is true when it is made, and stays so because a change
\* belongs to an obligation that is prepared.
LEMMA LedgerNext == IInv /\ [Next]_vars => LedgerIsTrue'
<1> SUFFICES ASSUME IInv, [Next]_vars PROVE LedgerIsTrue' OBVIOUS
<1> TypeOK /\ Numbered /\ Projecting /\ LedgerIsTrue /\ StoreMoves BY StoreNext DEF IInv
<1>1. ASSUME NEW s \in Seqs, ledger'[s] = "committed" PROVE Vouched(s)'
  <2>1. s <= high
    <3>1. ledger[s] # "none" BY <1>1 DEF StoreMoves, Moves, Terminal
    <3> QED BY <3>1 DEF Numbered
  <2>2. s \in applied \/ (s \in adopted' /\ Present(s))
    BY <1>1 DEF StoreMoves, Moves, Terminal, LedgerIsTrue, Vouched
  <2> QED BY <2>1, <2>2, VouchedStays
<1>2. ASSUME NEW s \in Seqs, ledger'[s] = "aborted" PROVE s \notin applied'
  <2>1. CASE applied' = applied
    BY <1>2, <2>1 DEF StoreMoves, Moves, LedgerIsTrue, Terminal
  <2>2. CASE applied' # applied
    <3>1. PICK q \in Seqs : applied' = applied \cup {q} /\ ledger[q] = "prepared" /\ ledger' = ledger
      BY <2>2, ChangeIsPrepared DEF StoreMoves
    <3> QED BY <1>2, <3>1 DEF LedgerIsTrue
  <2> QED BY <2>1, <2>2
<1>3. ASSUME NEW s \in events' PROVE Vouched(s)'
  <2>1. events' \subseteq events \/ (Put /\ events' \subseteq events \cup {NextSeq})
    BY DEF Next, vars, Prepare, Write, Finish, Materialize, ReadHigh, Put, Save, Loop, LoopRetries,
           LoopMaterializes, LoopWakes, Retention, CompactEvents, CollectObligations, Inspect, Ask,
           ListDelta, SnapshotCut, SnapshotFacts, SnapshotFails, Restart
  <2>2. CASE s \in events
    <3>1. s \in Seqs /\ Vouched(s) BY <2>2 DEF LedgerIsTrue, TypeOK
    <3>2. s <= high BY <2>2 DEF Numbered
    <3> QED BY <3>1, <3>2, VouchedStays DEF Vouched, StoreMoves
  <2>3. CASE Put /\ s \notin events
    <3>1. run.pc = "put" /\ run.batch[NextSeq] = "committed" /\ NextSeq <= run.high
          /\ s = NextSeq
      BY <2>3 DEF Put
    <3>2. NextSeq \in Seqs BY <3>1, Bounds DEF NextSeq, TypeOK, Runs, Seqs
    <3>3. Vouched(NextSeq) /\ ledger[NextSeq] # "none" BY <3>1, <3>2 DEF Projecting, Terminal
    <3>4. NextSeq <= high BY <3>2, <3>3 DEF Numbered
    <3> QED BY <3>1, <3>2, <3>3, <3>4, VouchedStays DEF Vouched, StoreMoves
  <2> QED BY <2>1, <2>2, <2>3
<1> QED BY <1>1, <1>2, <1>3 DEF LedgerIsTrue

\* A writer keeps what it knows of its obligation; nobody else decides it.
LEMMA WritingNext == IInv /\ [Next]_vars => Writing'
<1> SUFFICES ASSUME IInv, [Next]_vars PROVE Writing' OBVIOUS
<1> TypeOK /\ Numbered /\ Writing /\ StoreMoves BY StoreNext DEF IInv
<1> USE Bounds
<1>1. ASSUME NEW w \in Writers, Prepare(w) PROVE Writing'
  <2>1. high + 1 \in Seqs /\ ledger[high + 1] = "none" /\ high + 1 \notin applied
    BY <1>1 DEF Prepare, Numbered, TypeOK, Seqs
  <2>2. retries[high + 1] = "none" BY <2>1 DEF IInv, Retrying, TypeOK, Terminal
  <2>3. /\ ledger' = [ledger EXCEPT ![high + 1] = "prepared"] /\ UNCHANGED <<applied, retries>>
        /\ writer' = [writer EXCEPT ![w] = [pc |-> "write", seq |-> high + 1, to |-> "none"]]
             \/ writer' = writer
    BY <1>1 DEF Prepare
  <2>4. \A v \in Writers : writer[v].pc # "idle" => writer[v].seq # high + 1
    BY <2>1 DEF Writing, Section
  <2>5. writer[w].pc = "idle" BY <1>1 DEF Prepare
  <2>6. ASSUME NEW v \in Writers, v # w PROVE Section(v)'
    <3>1. writer'[v] = writer[v] BY <2>3, <2>6 DEF TypeOK
    <3>2. \A u \in Writers : writer'[u] = writer[u] \/ (u = w /\ writer'[u].seq = high + 1)
      BY <2>3 DEF TypeOK
    <3>3. Section(v) BY DEF Writing
    <3> QED BY <2>1, <2>3, <2>4, <3>1, <3>2, <3>3 DEF Section, TypeOK
  <2>7. Section(w)'
    <3>1. CASE writer' = writer BY <2>5, <3>1 DEF Section
    <3>2. CASE writer' = [writer EXCEPT ![w] = [pc |-> "write", seq |-> high + 1, to |-> "none"]]
      <4>1. /\ writer'[w].pc = "write" /\ writer'[w].seq = high + 1
            /\ \A v \in Writers : v # w => writer'[v] = writer[v]
        BY <3>2 DEF TypeOK
      <4>2. ledger'[high + 1] = "prepared" BY <2>1, <2>3 DEF TypeOK
      <4> QED BY <2>1, <2>2, <2>3, <2>4, <4>1, <4>2 DEF Section
    <3> QED BY <2>3, <3>1, <3>2
  <2> QED BY <2>6, <2>7 DEF Writing
<1>2. ASSUME NEW w \in Writers, Write(w) PROVE Writing'
  <2>1. UNCHANGED <<ledger, retries>> /\ writer[w].pc = "write" BY <1>2 DEF Write
  <2>2. /\ \A v \in Writers : v # w => writer'[v] = writer[v]
        /\ \/ applied' = applied \cup {writer[w].seq} /\ writer'[w].pc = "finish"
                /\ writer'[w].to = "committed" /\ writer'[w].seq = writer[w].seq
           \/ applied' = applied /\ writer'[w].pc = "finish"
                /\ writer'[w].to = "aborted" /\ writer'[w].seq = writer[w].seq
           \/ applied' \in {applied, applied \cup {writer[w].seq}} /\ writer'[w].pc = "idle"
    BY <1>2, IdleTypes DEF Write, Finishing, TypeOK, Sections
  <2>3. ASSUME NEW v \in Writers PROVE Section(v)'
    <3>1. Section(v) /\ Section(w) BY DEF Writing
    <3>2. writer'[v].pc # "idle" => writer[v].pc # "idle" /\ writer'[v].seq = writer[v].seq
      BY <2>1, <2>2
    <3>3. \A u \in Writers : writer'[u].pc # "idle" => writer[u].pc # "idle" /\ writer'[u].seq = writer[u].seq
      BY <2>1, <2>2
    <3>4. CASE v = w BY <2>1, <2>2, <3>1, <3>3, <3>4 DEF Section, Terminal
    <3>5. CASE v # w
      <4>1. writer'[v] = writer[v] BY <2>2, <3>5
      <4>2. writer[v].pc # "idle" => writer[v].seq # writer[w].seq
        BY <2>1, <3>1, <3>5 DEF Section
      <4>3. writer[v].pc # "idle" => (writer[v].seq \in applied' <=> writer[v].seq \in applied)
        BY <2>2, <4>2
      <4> QED BY <2>1, <3>1, <3>3, <4>1, <4>3 DEF Section
    <3> QED BY <3>4, <3>5
  <2> QED BY <2>3 DEF Writing
<1>3. ASSUME NEW w \in Writers, Finish(w) PROVE Writing'
  <2> DEFINE q == writer[w].seq
  <2>1. applied' = applied /\ writer[w].pc = "finish" /\ writer' = [writer EXCEPT ![w] = Idle]
    BY <1>3 DEF Finish
  <2>2. /\ \A v \in Writers : v # w => writer'[v] = writer[v]
        /\ writer'[w].pc = "idle"
    BY <2>1, IdleTypes DEF TypeOK
  <2>3. q \in Seqs BY <2>1 DEF Writing, Section
  <2>4. \A s \in Seqs : s # q => ledger'[s] = ledger[s] /\ retries'[s] = retries[s]
    BY <1>3 DEF Finish, TypeOK
  <2>5. ASSUME NEW v \in Writers PROVE Section(v)'
    <3>1. Section(v) /\ Section(w) BY DEF Writing
    <3>2. CASE v = w BY <2>2, <3>2 DEF Section
    <3>3. CASE v # w
      <4>1. writer'[v] = writer[v] /\ (writer[v].pc # "idle" => writer[v].seq # q)
        BY <2>1, <2>2, <3>1, <3>3 DEF Section
      <4>2. \A u \in Writers : writer'[u].pc # "idle" => writer'[u] = writer[u] BY <2>2
      <4> HIDE DEF q
      <4> QED BY <2>1, <2>4, <3>1, <4>1, <4>2 DEF Section
    <3> QED BY <3>2, <3>3
  <2> QED BY <2>5 DEF Writing
<1>4. ASSUME UNCHANGED <<writer, applied>>,
             \A s \in Seqs : ledger[s] = "prepared" /\ retries[s] = "none"
                               => ledger'[s] = "prepared" /\ retries'[s] = "none"
      PROVE  Writing'
  BY <1>4 DEF Writing, Section
<1>5. CASE LoopRetries
  <2>1. UNCHANGED <<writer, applied>> BY <1>5 DEF LoopRetries
  <2>2. \A s \in Seqs : ledger[s] = "prepared" /\ retries[s] = "none"
                          => ledger'[s] = "prepared" /\ retries'[s] = "none"
    BY <1>5 DEF LoopRetries
  <2> QED BY <1>4, <2>1, <2>2
<1>6. CASE CollectObligations
  <2>1. UNCHANGED <<writer, applied, retries>> BY <1>6 DEF CollectObligations
  <2>2. \A s \in Seqs : ledger[s] = "prepared" => ledger'[s] = "prepared"
    BY <1>6 DEF CollectObligations, Collectible
  <2> QED BY <1>4, <2>1, <2>2
<1>7. CASE Restart
  <2>1. \A w \in Writers : writer'[w].pc = "idle" BY <1>7, IdleTypes DEF Restart
  <2> QED BY <2>1 DEF Writing, Section
<1>8. CASE \/ Materialize \/ LoopMaterializes \/ LoopWakes \/ CompactEvents \/ Inspect
           \/ UNCHANGED vars
  <2>1. UNCHANGED <<writer, applied, ledger, retries>>
    BY <1>8 DEF Materialize, ReadHigh, Put, Save, LoopMaterializes, LoopWakes, CompactEvents,
       Inspect,
                Ask, ListDelta, SnapshotCut, SnapshotFacts, SnapshotFails, vars
  <2> QED BY <1>4, <2>1
<1> QED BY <1>1, <1>2, <1>3, <1>5, <1>6, <1>7, <1>8 DEF Next, Loop, Retention

\* A queued transition stays true, and the ledger shows nothing else.
LEMMA RetryingNext == IInv /\ [Next]_vars => Retrying'
<1> SUFFICES ASSUME IInv, [Next]_vars PROVE Retrying' OBVIOUS
<1> TypeOK /\ Writing /\ Retrying /\ StoreMoves BY StoreNext DEF IInv
<1>1. ASSUME NEW s \in Seqs, retries[s] # "none", retries'[s] # "none"
      PROVE  /\ ledger'[s] \in {"prepared", "collected", retries[s]}
             /\ retries[s] = "committed" <=> s \in applied'
  <2>1. /\ ledger[s] \in {"prepared", "collected", retries[s]} /\ retries[s] \in Terminal
        /\ retries[s] = "committed" <=> s \in applied
    BY <1>1 DEF Retrying, TypeOK
  <2>2. s \in applied' <=> s \in applied BY <1>1, ChangeIsPrepared DEF StoreMoves
  <2>3. Moves(s) BY DEF StoreMoves
  <2>4. \/ ledger'[s] \in {ledger[s], "collected"}
        \/ ledger[s] = "none"
        \/ ledger'[s] = "committed" /\ s \in applied
        \/ ledger'[s] = "aborted" /\ s \notin applied
    BY <1>1, <2>3 DEF Moves, Terminal
  <2> QED BY <2>1, <2>2, <2>4 DEF Terminal
<1>2. ASSUME \A s \in Seqs : retries'[s] \in {"none", retries[s]} PROVE Retrying'
  BY <1>1, <1>2 DEF Retrying
<1>3. ASSUME NEW w \in Writers, Finish(w) PROVE Retrying'
  <2> DEFINE q == writer[w].seq
             to == writer[w].to
  <2>1. q \in Seqs /\ ledger[q] = "prepared" /\ (to = "committed" <=> q \in applied)
    BY <1>3 DEF Finish, Writing, Section
  <2>2. /\ applied' = applied /\ ledger'[q] \in {"prepared", to}
        /\ retries' = retries \/ retries' = [retries EXCEPT ![q] = to]
    BY <1>3, <2>1 DEF Finish, TypeOK
  <2> HIDE DEF q, to
  <2>3. CASE retries' = retries BY <1>2, <2>3
  <2>4. CASE retries' = [retries EXCEPT ![q] = to]
    BY <1>1, <2>1, <2>2, <2>4 DEF Retrying, TypeOK
  <2> QED BY <2>2, <2>3, <2>4
<1>4. ASSUME ~\E w \in Writers : Finish(w)
      PROVE  \A s \in Seqs : retries'[s] \in {"none", retries[s]}
  BY <1>4 DEF Next, vars, Prepare, Write, Materialize, ReadHigh, Put, Save, Loop, LoopRetries,
           LoopMaterializes, LoopWakes, Retention, CompactEvents, CollectObligations, Inspect,
           Ask,
           ListDelta, SnapshotCut, SnapshotFacts, SnapshotFails, Restart
<1> QED BY <1>2, <1>3, <1>4

\* The mark is raised by Save alone, to the number after the one it has read.
LEMMA MarkMoves ==
  ASSUME TypeOK, [Next]_vars
  PROVE  \/ projection'.mat = projection.mat
         \/ /\ Save /\ run.pc = "save" /\ projection'.mat = NextSeq /\ projection'.comp = projection.comp
            /\ run' = [run EXCEPT !.mat = NextSeq, !.pc = "put"]
            /\ UNCHANGED <<ledger, high, applied, events, client, writer, retries>>
<1>1. CASE Save BY <1>1 DEF Save, Answer, TypeOK, Marks
<1>2. CASE CompactEvents BY <1>2 DEF CompactEvents, TypeOK, Marks
<1>3. CASE ~Save /\ ~CompactEvents
  <2>1. projection' = projection
    BY <1>3 DEF Next, vars, Prepare, Write, Finish, Materialize, ReadHigh, Put, Loop,
       LoopRetries,
             LoopMaterializes, LoopWakes, Retention, CollectObligations, Inspect, Ask,
             ListDelta, SnapshotCut, SnapshotFacts, SnapshotFails, Restart
  <2> QED BY <2>1
<1> QED BY <1>1, <1>2, <1>3

\* What a batch says is not overtaken: a decision is final.
LEMMA BatchStands ==
  ASSUME IInv, StoreMoves, NEW s \in Seqs, NEW b \in Terminal,
         ledger[s] \in {b, "collected"}, b = "committed" => Vouched(s),
         b = "aborted" => s \notin applied
  PROVE  /\ ledger'[s] \in {b, "collected"}
         /\ b = "committed" => Vouched(s)'
         /\ b = "aborted" => s \notin applied'
<1>1. s \in applied' <=> s \in applied
  BY ChangeIsPrepared DEF Terminal
<1>2. Moves(s) BY DEF StoreMoves
<1>3. s <= high BY DEF IInv, Numbered, Terminal
<1>4. b = "committed" => Vouched(s)' BY <1>3, VouchedStays DEF Vouched, StoreMoves
<1> QED BY <1>1, <1>2, <1>4 DEF Moves, Terminal

\* What the materializer has read stands until it answers.
LEMMA ProjectingNext == IInv /\ [Next]_vars => Projecting'
<1> SUFFICES ASSUME IInv, [Next]_vars PROVE Projecting' OBVIOUS
<1> TypeOK /\ Numbered /\ Projecting /\ LedgerIsTrue /\ ProjectionIsSound /\ StoreMoves
  BY StoreNext DEF IInv
<1> USE Bounds
<1> DEFINE Ahead == \A s \in Seqs : ledger[s] = "prepared" => projection.mat < s
           Read  == run.pc # "idle" => run.mat = projection.mat
           Batch == run.pc \in {"put", "save"} =>
                      /\ run.high <= high
                      /\ \A s \in Seqs : run.batch[s] \in Terminal =>
                           /\ ledger[s] \in {run.batch[s], "collected"}
                           /\ run.batch[s] = "committed" => Vouched(s)
                           /\ run.batch[s] = "aborted" => s \notin applied
           Point == run.pc = "save" => /\ NextSeq <= run.high /\ run.batch[NextSeq] \in Terminal
                                       /\ run.batch[NextSeq] = "committed" => NextSeq \in events
<1>1. Ahead /\ Read /\ Batch /\ Point BY DEF Projecting
<1>2. high \in Nat /\ high' \in Nat /\ high <= high' /\ projection.mat <= high
  BY DEF TypeOK, StoreMoves, ProjectionIsSound, ProjectionCanGoOn
<1>3. run.mat \in Nat /\ run.high \in Nat /\ run.high <= MaxSeq /\ projection.mat \in Nat
  BY DEF TypeOK, Runs, Marks
<1>4. run.pc = "save" => NextSeq \in Seqs BY <1>1, <1>3 DEF NextSeq, Seqs
<1>5. Ahead'
  <2>1. ASSUME NEW s \in Seqs, ledger'[s] = "prepared" PROVE projection.mat < s
    <3>1. ledger[s] = "prepared" \/ s = high + 1 BY <2>1 DEF StoreMoves, Moves, Terminal
    <3> QED BY <1>1, <1>2, <1>3, <3>1
  <2>2. CASE projection'.mat = projection.mat BY <2>1, <2>2
  <2>3. CASE projection'.mat # projection.mat
    <3>1. /\ run.pc = "save" /\ projection'.mat = NextSeq /\ ledger' = ledger BY <2>3, MarkMoves
    <3>2. ledger[NextSeq] # "prepared" BY <1>1, <1>4, <3>1 DEF Terminal
    <3>3. NextSeq = projection.mat + 1 BY <1>1, <3>1 DEF NextSeq
    <3>4. \A s \in Seqs : s \in Nat BY DEF Seqs
    <3> QED BY <1>3, <2>1, <3>1, <3>2, <3>3, <3>4
  <2> QED BY <2>2, <2>3
<1>6. ASSUME run' = run, projection'.mat = projection.mat, \A e \in events : e > projection.mat => e \in events'
      PROVE  Projecting'
  <2>1. Read' BY <1>1, <1>6
  <2>2. Batch'
    <3> SUFFICES ASSUME run.pc \in {"put", "save"} PROVE Batch' BY <1>6
    <3>1. run.high <= high' BY <1>1, <1>2, <1>3
    <3>2. ASSUME NEW s \in Seqs, run.batch[s] \in Terminal
          PROVE  /\ ledger'[s] \in {run.batch[s], "collected"}
                 /\ run.batch[s] = "committed" => Vouched(s)'
                 /\ run.batch[s] = "aborted" => s \notin applied'
      BY <1>1, <3>2, BatchStands
    <3> QED BY <1>6, <3>1, <3>2
  <2>3. Point'
    <3> SUFFICES ASSUME run.pc = "save" PROVE Point' BY <1>6
    <3>1. NextSeq' = NextSeq BY <1>6 DEF NextSeq
    <3>2. NextSeq > projection.mat BY <1>1, <1>3 DEF NextSeq
    <3> QED BY <1>1, <1>6, <3>1, <3>2
  <2> QED BY <1>5, <2>1, <2>2, <2>3 DEF Projecting
<1>7. ASSUME run'.pc = "idle" PROVE Projecting'
  BY <1>5, <1>7 DEF Projecting
<1>8. ASSUME NEW who, Begin(who), projection' = projection PROVE Projecting'
  <2>1. run'.pc = "high" /\ run'.mat = projection.mat BY <1>8, IdleTypes DEF Begin, NoRun
  <2> QED BY <1>5, <1>8, <2>1 DEF Projecting
<1>9. CASE ReadHigh
  <2>1. UNCHANGED <<ledger, subject, high, applied, adopted, projection>> /\ run.pc = "high" BY <1>9 DEF ReadHigh
  <2>2. CASE run' = NoRun BY <1>7, <2>2, IdleTypes
  <2>3. CASE run' # NoRun
    <3>1. run' = [run EXCEPT !.pc = "put", !.high = high, !.batch =
                       [s \in Seqs |-> IF s > run.mat THEN ledger[s] ELSE "none"]]
      BY <1>9, <2>3 DEF ReadHigh, Answer
    <3>2. /\ run'.pc = "put" /\ run'.high = high /\ run'.mat = run.mat
          /\ run'.batch = [s \in Seqs |-> IF s > run.mat THEN ledger[s] ELSE "none"]
      BY <3>1 DEF TypeOK, Runs
    <3>3. \A s \in Seqs : run'.batch[s] \in Terminal => run'.batch[s] = ledger[s]
      BY <3>2 DEF Terminal
    <3>4. Batch' BY <1>2, <2>1, <3>2, <3>3 DEF LedgerIsTrue, Terminal, Vouched, Present
    <3>5. Read' BY <1>1, <2>1, <3>2
    <3> QED BY <1>5, <3>2, <3>4, <3>5 DEF Projecting
  <2> QED BY <2>2, <2>3
<1>10. CASE Put
  <2>1. UNCHANGED <<ledger, subject, high, applied, adopted, projection>> /\ run.pc = "put" BY <1>10 DEF Put
  <2>2. CASE run' = NoRun BY <1>7, <2>2, IdleTypes
  <2>3. CASE run' = [run EXCEPT !.pc = "high"]
    <3>1. run'.pc = "high" /\ run'.mat = run.mat BY <2>3 DEF TypeOK, Runs
    <3> QED BY <1>1, <1>5, <2>1, <3>1 DEF Projecting
  <2>4. CASE run' # NoRun /\ run' # [run EXCEPT !.pc = "high"]
    <3>1. /\ NextSeq <= run.high /\ run.batch[NextSeq] \in Terminal
          /\ run' = [run EXCEPT !.pc = "save"]
          /\ run.batch[NextSeq] = "committed" => NextSeq \in events'
      BY <1>10, <2>4 DEF Put, Answer
    <3>2. /\ run'.pc = "save" /\ run'.high = run.high /\ run'.mat = run.mat
          /\ run'.batch = run.batch
      BY <3>1 DEF TypeOK, Runs
    <3>3. Batch' BY <1>1, <2>1, <3>2 DEF Vouched, Present
    <3>4. Point' BY <3>1, <3>2 DEF NextSeq
    <3>5. Read' BY <1>1, <2>1, <3>2
    <3> QED BY <1>5, <3>3, <3>4, <3>5 DEF Projecting
  <2> QED BY <2>2, <2>3, <2>4
<1>11. CASE Save
  <2>1. UNCHANGED <<ledger, subject, high, applied, adopted, events>> /\ run.pc = "save" BY <1>11 DEF Save
  <2>2. CASE run' = NoRun BY <1>7, <2>2, IdleTypes
  <2>3. CASE run' # NoRun
    <3>1. /\ projection' = [projection EXCEPT !.mat = NextSeq]
          /\ run' = [run EXCEPT !.mat = NextSeq, !.pc = "put"]
      BY <1>11, <2>3 DEF Save, Answer
    <3>2. /\ run'.pc = "put" /\ run'.high = run.high /\ run'.mat = NextSeq
          /\ run'.batch = run.batch
          /\ projection'.mat = NextSeq
      BY <3>1 DEF TypeOK, Runs, Marks
    <3>3. Batch' BY <1>1, <2>1, <3>2 DEF Vouched, Present
    <3> QED BY <1>5, <3>2, <3>3 DEF Projecting
  <2> QED BY <2>2, <2>3
<1>12. CASE LoopMaterializes BY <1>8, <1>12 DEF LoopMaterializes
<1>13. CASE Ask BY <1>8, <1>13 DEF Ask
<1>14. CASE Restart BY <1>7, <1>14, IdleTypes DEF Restart
<1>15. CASE CompactEvents
  <2>1. run' = run BY <1>15 DEF CompactEvents
  <2>2. projection'.mat = projection.mat BY <1>15 DEF CompactEvents, TypeOK, Marks
  <2>3. \A e \in events : e > projection.mat => e \in events'
    <3>1. PICK last \in events : /\ last <= projection.mat
                                 /\ \A e \in events : e > last => e \in events'
      BY <1>15 DEF CompactEvents
    <3>2. \A e \in events : e \in Nat BY DEF TypeOK, Seqs
    <3> QED BY <1>3, <3>1, <3>2
  <2> QED BY <1>6, <2>1, <2>2, <2>3
<1>16. CASE \/ \E w \in Writers : Prepare(w) \/ Write(w) \/ Finish(w)
            \/ LoopRetries \/ LoopWakes \/ CollectObligations \/ ListDelta \/ SnapshotCut
            \/ SnapshotFacts \/ SnapshotFails \/ UNCHANGED vars
  <2>1. UNCHANGED <<run, events, projection>>
    BY <1>16 DEF Prepare, Write, Finish, LoopRetries, LoopWakes, CollectObligations, ListDelta,
       SnapshotCut,
                 SnapshotFacts, SnapshotFails, vars
  <2> QED BY <1>6, <2>1
<1> QED
  BY <1>9, <1>10, <1>11, <1>12, <1>13, <1>14, <1>15, <1>16 DEF Next, Materialize, Loop,
     Retention, Inspect

\* Events are dropped by CompactEvents alone, which says so with the mark.
LEMMA EventMoves ==
  ASSUME TypeOK, [Next]_vars
  PROVE  /\ projection'.comp \in Nat /\ projection.comp <= projection'.comp
         /\ \A e \in events : e \in events' \/ e <= projection'.comp
<1> projection.comp \in Nat BY Bounds DEF TypeOK, Marks
<1> \A e \in events : e \in Nat BY DEF TypeOK, Seqs
<1>1. CASE CompactEvents
  <2>1. PICK last \in events : /\ projection.comp < last
                               /\ projection' = [projection EXCEPT !.comp = last]
                               /\ \A e \in events : e > last => e \in events'
    BY <1>1 DEF CompactEvents
  <2>2. projection'.comp = last BY <2>1 DEF TypeOK, Marks
  <2> QED BY <2>1, <2>2
<1>2. CASE Save
  <2>1. events' = events /\ projection'.comp = projection.comp BY <1>2 DEF Save, TypeOK, Marks
  <2> QED BY <2>1
<1>3. CASE ~Save /\ ~CompactEvents
  <2>1. projection' = projection /\ events \subseteq events'
    BY <1>3 DEF Next, vars, Prepare, Write, Finish, Materialize, ReadHigh, Put, Loop,
       LoopRetries,
             LoopMaterializes, LoopWakes, Retention, CollectObligations, Inspect, Ask,
             ListDelta, SnapshotCut, SnapshotFacts, SnapshotFails, Restart
  <2> QED BY <2>1
<1> QED BY <1>1, <1>2, <1>3

\* ProjectionIsSound: the mark passes a change only when its event is there, and
\* what lies above the mark is not collected.
LEMMA SoundNext == IInv /\ [Next]_vars => ProjectionIsSound'
<1> SUFFICES ASSUME IInv, [Next]_vars PROVE ProjectionIsSound' OBVIOUS
<1> TypeOK /\ Numbered /\ Projecting /\ ProjectionIsSound /\ StoreMoves BY StoreNext DEF IInv
<1> USE Bounds
<1>1. /\ high \in Nat /\ high' \in Nat /\ high <= high' /\ projection.mat \in Nat
      /\ projection.comp \in Nat /\ projection.mat <= high
  BY DEF TypeOK, Marks, StoreMoves, ProjectionIsSound, ProjectionCanGoOn
<1>2. \A s \in Seqs : s \in Nat BY DEF Seqs
<1>3. ASSUME run.pc = "save"
      PROVE  /\ NextSeq = projection.mat + 1 /\ NextSeq \in Seqs /\ NextSeq <= high
             /\ NextSeq \in applied => NextSeq \in events
  <2>1. run.mat = projection.mat /\ NextSeq <= run.high /\ run.high <= high
    BY <1>3 DEF Projecting
  <2>2. run.high \in Nat /\ run.high <= MaxSeq /\ run.mat \in Nat BY DEF TypeOK, Runs
  <2>3. NextSeq = projection.mat + 1 /\ NextSeq \in Seqs /\ NextSeq <= high
    BY <1>1, <2>1, <2>2 DEF NextSeq, Seqs
  <2>4. NextSeq \in applied => NextSeq \in events BY <1>3, <2>3 DEF Projecting, Terminal
  <2> QED BY <2>3, <2>4
<1>4. projection'.mat \in Nat /\ projection.mat <= projection'.mat /\ projection'.mat <= high'
  BY <1>1, <1>3, MarkMoves
<1>5. ASSUME NEW s \in applied', s <= projection'.mat
      PROVE  s \in events' \/ s <= projection'.comp
  <2>1. s \in Seqs BY ChangeIsPrepared DEF TypeOK
  <2>2. s \in applied
    <3>1. CASE applied' = applied BY <3>1
    <3>2. CASE applied' # applied
      <4>1. projection' = projection BY <3>2 DEF StoreMoves
      <4>2. PICK q \in Seqs : applied' = applied \cup {q} /\ projection.mat < q
        BY <3>2, ChangeIsPrepared
      <4> QED BY <1>1, <1>2, <1>5, <4>1, <4>2
    <3> QED BY <3>1, <3>2
  <2>3. s \in events \/ s <= projection.comp
    <3>1. CASE s <= projection.mat BY <2>2, <3>1 DEF ProjectionIsSound, ProjectionIsComplete
    <3>2. CASE projection.mat < s
      <4>1. run.pc = "save" /\ s <= NextSeq BY <1>1, <1>2, <1>5, <2>1, <3>2, MarkMoves
      <4>2. s = NextSeq BY <1>1, <1>2, <1>3, <2>1, <3>2, <4>1
      <4> QED BY <1>3, <2>2, <4>1, <4>2
    <3> QED BY <1>1, <1>2, <2>1, <3>1, <3>2
  <2> QED BY <1>1, <1>2, <2>1, <2>3, EventMoves
<1>6. ASSUME NEW s \in Seqs, projection'.mat < s, s <= high'
      PROVE  ledger'[s] \notin {"none", "collected"}
  <2>1. projection.mat < s BY <1>1, <1>2, <1>4, <1>6
  <2>2. Moves(s) BY DEF StoreMoves
  <2>3. CASE s <= high
    <3>1. ledger[s] \notin {"none", "collected"}
      BY <2>1, <2>3 DEF ProjectionIsSound, ProjectionCanGoOn, Surviving
    <3> QED BY <1>1, <1>2, <2>1, <2>2, <3>1 DEF Moves, Terminal
  <2>4. CASE high < s
    <3>1. s = high + 1 /\ high' = high + 1 BY <1>1, <1>2, <1>6, <2>4 DEF StoreMoves
    <3> QED BY <3>1 DEF StoreMoves
  <2> QED BY <1>1, <1>2, <2>3, <2>4
<1>7. ProjectionIsComplete' BY <1>5 DEF ProjectionIsComplete
<1>8. ProjectionCanGoOn' BY <1>4, <1>6 DEF ProjectionCanGoOn, Surviving
<1> QED BY <1>7, <1>8 DEF ProjectionIsSound

-----------------------------------------------------------------------------
(* The least elements of a set, which is how inspectDelta cuts its answer. *)

\* First is a beginning of the set.
LEMMA FirstIsBeginning ==
  ASSUME NEW N \in Nat, NEW T \in SUBSET (0 .. N), NEW n \in Nat \ {0}
  PROVE  /\ First(T, n) \subseteq T
         /\ \A e \in First(T, n), d \in T : d <= e => d \in First(T, n)
         /\ T # {} => First(T, n) # {}
<1> DEFINE Below(e) == {d \in T : d < e}
<1>1. \A x \in T : x \in Nat OBVIOUS
<1>2. /\ \A x, y, z \in T : x < y /\ y <= z => x < z
      /\ \A x, y \in T : x < y <=> ~(y <= x)
      /\ \A x, y \in T : x < y <=> x <= y /\ x # y
  BY <1>1
<1>3. IsFiniteSet(0 .. N) BY FS_Interval
<1>4. \A e : IsFiniteSet(Below(e)) BY <1>3, FS_Subset
<1>5. \A e : Cardinality(Below(e)) \in Nat BY <1>4, FS_CardinalityType
<1>6. First(T, n) = {e \in T : Cardinality(Below(e)) < n} BY DEF First
<1>7. ASSUME NEW e \in First(T, n), NEW d \in T, d <= e PROVE d \in First(T, n)
  <2>1. Below(d) \subseteq Below(e) BY <1>2, <1>6, <1>7
  <2>2. Cardinality(Below(d)) <= Cardinality(Below(e)) BY <1>4, <2>1, FS_Subset
  <2>3. Cardinality(Below(e)) < n BY <1>6
  <2> HIDE DEF Below
  <2>4. Cardinality(Below(d)) < n BY <1>5, <2>2, <2>3
  <2> QED BY <1>6, <2>4
<1>8. ASSUME T # {} PROVE First(T, n) # {}
  <2>1. T \in SUBSET Nat OBVIOUS
  <2>2. PICK m \in T : \A x \in T : m <= x BY <1>8, <2>1, LeastElement
  <2>3. Below(m) = {} BY <1>2, <2>2
  <2>4. Cardinality(Below(m)) = 0 BY <2>3, FS_EmptySet
  <2> QED BY <1>6, <2>4
<1> QED BY <1>6, <1>7, <1>8

\* When it is shorter than asked for, it is the whole set.
LEMMA FirstIsAll ==
  ASSUME NEW N \in Nat, NEW T \in SUBSET (0 .. N), NEW n \in Nat \ {0},
         Cardinality(First(T, n)) # n
  PROVE  First(T, n) = T
<1> DEFINE F == First(T, n)
           Below(e) == {d \in T : d < e}
<1>1. \A x \in T : x \in Nat OBVIOUS
<1>2. /\ \A x, y, z \in T : x < y /\ y <= z => x < z
      /\ \A x, y \in T : x < y <=> ~(y <= x)
      /\ \A x, y \in T : x < y <=> x <= y /\ x # y
  BY <1>1
<1>3. IsFiniteSet(0 .. N) BY FS_Interval
<1>4. \A S \in SUBSET T : IsFiniteSet(S) /\ Cardinality(S) \in Nat
  BY <1>3, FS_Subset, FS_CardinalityType
<1>5. F \subseteq T /\ \A e \in F, d \in T : d <= e => d \in F BY FirstIsBeginning
<1>6. \A e \in T : e \in F <=> Cardinality(Below(e)) < n BY DEF First
<1> HIDE DEF F
<1>7. SUFFICES ASSUME F # T PROVE Cardinality(F) = n BY DEF F
<1>8. T \ F \in SUBSET Nat /\ T \ F # {} BY <1>1, <1>5, <1>7
<1>9. PICK m \in T \ F : \A x \in T \ F : m <= x BY <1>8, LeastElement
<1>10. Below(m) \subseteq F BY <1>2, <1>9
<1>11. n <= Cardinality(F)
  <2>1. Cardinality(Below(m)) <= Cardinality(F) BY <1>4, <1>5, <1>10, FS_Subset
  <2>2. ~(Cardinality(Below(m)) < n) BY <1>6, <1>9
  <2>3. Cardinality(Below(m)) \in Nat /\ Cardinality(F) \in Nat BY <1>4, <1>5
  <2> HIDE DEF Below
  <2> QED BY <2>1, <2>2, <2>3
<1>12. F # {} BY <1>11, FS_EmptySet
<1>13. PICK g \in F : \A x \in F : x <= g
  <2>1. F \in SUBSET (0 .. N) BY <1>5
  <2> QED BY <1>12, <2>1, GreatestElement
<1>14. Below(g) = F \ {g} BY <1>2, <1>5, <1>13
<1>15. Cardinality(F \ {g}) = Cardinality(F) - 1 BY <1>4, <1>5, <1>13, FS_RemoveElement
<1>16. Cardinality(F \ {g}) < n BY <1>5, <1>6, <1>13, <1>14
<1>17. Cardinality(F) \in Nat BY <1>4, <1>5
<1> QED BY <1>11, <1>15, <1>16, <1>17

\* What inspectDelta gives: the cursor moves within what was asked for, and every
\* event of the client's that it passes is given.
LEMMA ListEffect ==
  ASSUME TypeOK, ListDelta
  PROVE  /\ client' \in Readers /\ client'.call = NoCall
         /\ client'.cursor <= client.call.through
         /\ client'.resumed = client.resumed /\ client.known \subseteq client'.known
         /\ client'.missed = client.missed \cup Dropped
         /\ \A e \in events \cap Mine :
              client.cursor < e /\ e <= client'.cursor => e \in client'.known
<1> USE Bounds
<1> DEFINE through == client.call.through
           found   == {e \in events : client.cursor < e /\ e <= through}
           scanned == First(found, ScanLimit)
           wanted  == scanned \cap Mine
           given   == First(wanted, MaxEvents)
           cut     == IF Cardinality(given) = MaxEvents THEN Max(given)
                      ELSE IF scanned # found THEN Max(scanned) ELSE through
<1>1. client' = [client EXCEPT !.call = NoCall, !.cursor = cut, !.known = @ \cup given,
                              !.missed = @ \cup Dropped]
  BY DEF ListDelta
<1>2. /\ through \in 0 .. MaxSeq /\ client \in Readers /\ events \subseteq Seqs
      /\ client.cursor \in 0 .. MaxSeq
  BY DEF TypeOK, Readers, Calls
<1>3. found \subseteq events /\ \A e \in events : e \in found <=> client.cursor < e /\ e <= through
  OBVIOUS
<1>4. ScanLimit \in Nat \ {0} /\ MaxEvents \in Nat \ {0} BY LogAssumption
<1> HIDE DEF through, found
<1>5. found \in SUBSET (0 .. MaxSeq)
  <2>1. Seqs \subseteq 0 .. MaxSeq BY DEF Seqs
  <2> QED BY <1>2, <1>3, <2>1
<1>6. /\ scanned \subseteq found
      /\ \A e \in scanned, d \in found : d <= e => d \in scanned
      /\ found # {} => scanned # {}
  BY <1>5, <1>4, FirstIsBeginning
<1> HIDE DEF scanned
<1>7. wanted \in SUBSET (0 .. MaxSeq) BY <1>5, <1>6
<1>8. /\ given \subseteq wanted
      /\ \A e \in given, d \in wanted : d <= e => d \in given
      /\ Cardinality(given) # MaxEvents => given = wanted
  BY <1>4, <1>7, FirstIsBeginning, FirstIsAll
<1>9. given = {} => Cardinality(given) # MaxEvents BY <1>4, FS_EmptySet
<1> HIDE DEF given
<1>10. ASSUME NEW e \in events \cap Mine, client.cursor < e, e <= cut, cut <= through,
              cut \in Nat
       PROVE  e \in found
  BY <1>2, <1>3, <1>10 DEF Seqs
<1>11. /\ cut \in 0 .. MaxSeq /\ cut <= through
       /\ \A e \in events \cap Mine : client.cursor < e /\ e <= cut => e \in given
  <2>1. CASE Cardinality(given) = MaxEvents
    <3>1. cut = Max(given) BY <2>1
    <3>2. given # {} /\ given \in SUBSET (0 .. MaxSeq) BY <1>7, <1>8, <1>9, <2>1
    <3>3. Max(given) \in given BY <3>2, GreatestElement
    <3>4. cut \in scanned /\ cut \in given BY <1>8, <3>1, <3>3
    <3> HIDE DEF cut
    <3>5. cut \in 0 .. MaxSeq /\ cut <= through BY <1>3, <1>5, <1>6, <3>4
    <3>6. ASSUME NEW e \in events \cap Mine, client.cursor < e, e <= cut PROVE e \in given
      <4>1. e \in found BY <1>10, <3>5, <3>6
      <4>2. e \in scanned BY <1>6, <3>4, <3>6, <4>1
      <4>3. e \in wanted BY <4>2
      <4> QED BY <1>8, <3>4, <3>6, <4>3
    <3> QED BY <3>5, <3>6
  <2>2. CASE Cardinality(given) # MaxEvents /\ scanned # found
    <3>1. cut = Max(scanned) /\ given = wanted BY <1>8, <2>2
    <3>2. scanned # {} /\ scanned \in SUBSET (0 .. MaxSeq) BY <1>5, <1>6, <2>2
    <3>3. Max(scanned) \in scanned BY <3>2, GreatestElement
    <3>4. cut \in scanned BY <3>1, <3>3
    <3> HIDE DEF cut
    <3>5. cut \in 0 .. MaxSeq /\ cut <= through BY <1>3, <1>5, <1>6, <3>4
    <3>6. ASSUME NEW e \in events \cap Mine, client.cursor < e, e <= cut PROVE e \in given
      <4>1. e \in found BY <1>10, <3>5, <3>6
      <4>2. e \in scanned BY <1>6, <3>4, <3>6, <4>1
      <4> QED BY <3>1, <4>2
    <3> QED BY <3>5, <3>6
  <2>3. CASE Cardinality(given) # MaxEvents /\ scanned = found
    <3>1. cut = through /\ given = wanted BY <1>8, <2>3
    <3> HIDE DEF cut
    <3>2. cut \in 0 .. MaxSeq /\ cut <= through BY <1>2, <3>1
    <3>3. ASSUME NEW e \in events \cap Mine, client.cursor < e, e <= cut PROVE e \in given
      <4>1. e \in found BY <1>10, <3>2, <3>3
      <4> QED BY <2>3, <3>1, <4>1
    <3> QED BY <3>2, <3>3
  <2> QED BY <2>1, <2>2, <2>3
<1>12. given \subseteq Mine BY <1>8
<1>13. Dropped \in SUBSET Seqs BY DEF Dropped
<1> HIDE DEF cut
<1>14. /\ client' \in Readers /\ client'.call = NoCall /\ client'.cursor = cut
       /\ client'.resumed = client.resumed /\ client'.known = client.known \cup given
       /\ client'.missed = client.missed \cup Dropped
  BY <1>1, <1>2, <1>11, <1>12, <1>13, IdleTypes DEF Readers
<1> QED BY <1>11, <1>14 DEF through

\* What a call of the client has read still bounds what it is given.
LEMMA ReadingNext == IInv /\ [Next]_vars => Reading'
<1> SUFFICES ASSUME IInv, [Next]_vars PROVE Reading' OBVIOUS
<1> TypeOK /\ Numbered /\ Writing /\ Projecting /\ Reading /\ ProjectionIsSound /\ StoreMoves
  BY StoreNext DEF IInv
<1> USE Bounds
<1>1. /\ high \in Nat /\ high' \in Nat /\ high <= high'
      /\ client \in Readers /\ client.cursor \in Nat /\ client.resumed \in Nat
      /\ client.call.through \in Nat /\ client.call.comp \in Nat
      /\ projection.mat \in Nat /\ projection.mat <= high
  BY DEF TypeOK, StoreMoves, Readers, Calls, Marks, ProjectionIsSound, ProjectionCanGoOn
<1>2. projection'.mat \in Nat /\ projection.mat <= projection'.mat
  <2>1. run.pc = "save" => NextSeq = projection.mat + 1 BY DEF Projecting, NextSeq
  <2> QED BY <1>1, <2>1, MarkMoves
<1>3. \A s \in Seqs : ledger'[s] = "prepared" /\ s <= high => ledger[s] = "prepared"
  BY <1>1 DEF StoreMoves, Moves, Terminal, Seqs
<1>4. ASSUME client'.cursor = client.cursor, client'.resumed = client.resumed,
             client'.missed = client.missed,
             \/ client'.call = client.call \/ client'.call.pc \in {"idle", "asked", "cut"}
             \/ /\ client'.call.pc = "list" /\ client'.call.through = projection.mat
                /\ client'.call.comp <= client.cursor
      PROVE  Reading'
  <2>1. client'.call.pc = "list" =>
          client'.call.through <= projection'.mat /\ client'.call.comp <= client'.cursor
    BY <1>1, <1>2, <1>4 DEF Reading
  <2>2. client'.cursor <= projection'.mat \/ client'.cursor <= client'.resumed
    BY <1>1, <1>2, <1>4 DEF Reading
  <2>3. client'.resumed <= high' BY <1>1, <1>4 DEF Reading
  <2>4. client'.call.pc = "facts" => client'.call = client.call BY <1>4
  <2>5. client'.call.pc = "facts" => client'.call.through <= high' BY <1>1, <2>4 DEF Reading
  <2>6. ASSUME NEW s \in Seqs, ledger'[s] = "prepared", s <= client'.resumed
        PROVE  s \in client'.missed
    <3>1. s <= high BY <1>1, <1>4, <2>6 DEF Reading, Seqs
    <3> QED BY <1>3, <1>4, <2>6, <3>1 DEF Reading
  <2> QED BY <2>1, <2>2, <2>3, <2>5, <2>6 DEF Reading
<1>5. ASSUME NEW ok \in BOOLEAN, NEW mat \in 0 .. MaxSeq, NEW hw \in 0 .. MaxSeq,
             Answer(ok, mat, hw),
             ok => mat = projection.mat
      PROVE  Reading'
  BY <1>4, <1>5, AnswerEffect
<1>6. ASSUME run.pc # "idle"
      PROVE  run.mat = projection.mat /\ run.mat \in 0 .. MaxSeq /\ run.high \in 0 .. MaxSeq
  BY <1>6 DEF Projecting, TypeOK, Runs
<1>7. CASE ReadHigh
  <2>1. \/ Answer(FALSE, 0, 0) \/ Answer(TRUE, run.mat, high) \/ client' = client
    BY <1>7 DEF ReadHigh
  <2>2. run.pc # "idle" /\ high \in 0 .. MaxSeq /\ 0 \in 0 .. MaxSeq
    BY <1>7 DEF ReadHigh, TypeOK
  <2> QED BY <1>4, <1>5, <1>6, <2>1, <2>2
<1>8. CASE Put
  <2>1. \/ Answer(FALSE, 0, 0) \/ Answer(TRUE, run.mat, run.high) \/ client' = client
    BY <1>8 DEF Put
  <2>2. run.pc # "idle" /\ 0 \in 0 .. MaxSeq BY <1>8 DEF Put
  <2> QED BY <1>4, <1>5, <1>6, <2>1, <2>2
<1>9. CASE Save
  <2>1. Answer(FALSE, 0, 0) \/ client' = client BY <1>9 DEF Save
  <2>2. 0 \in 0 .. MaxSeq OBVIOUS
  <2> QED BY <1>4, <1>5, <2>1, <2>2
<1>10. CASE Ask
  <2>1. /\ client'.cursor = client.cursor /\ client'.resumed = client.resumed
        /\ client'.missed = client.missed /\ client'.call.pc = "asked"
    BY <1>1, <1>10 DEF Ask, Readers, Calls
  <2> QED BY <1>4, <2>1
<1>11. CASE ListDelta
  <2>1. /\ client'.call = NoCall /\ client'.cursor <= client.call.through /\ client' \in Readers
        /\ client'.resumed = client.resumed /\ client.missed \subseteq client'.missed
    BY <1>11, ListEffect
  <2>2. client.call.through <= projection.mat BY <1>11 DEF ListDelta, Reading
  <2>3. UNCHANGED <<ledger, high, projection>> BY <1>11 DEF ListDelta
  <2>4. client'.cursor \in Nat BY <2>1 DEF Readers
  <2>5. client'.cursor <= projection'.mat BY <1>1, <2>1, <2>2, <2>3, <2>4
  <2> QED BY <2>1, <2>3, <2>5, IdleTypes DEF Reading
<1>12. CASE SnapshotCut
  <2>1. /\ client' = [client EXCEPT !.call = [NoCall EXCEPT !.pc = "facts", !.through = high]]
        /\ UNCHANGED <<ledger, high, projection>>
    BY <1>12 DEF SnapshotCut
  <2>2. /\ client'.cursor = client.cursor /\ client'.resumed = client.resumed
        /\ client'.missed = client.missed
        /\ client'.call.pc = "facts" /\ client'.call.through = high
    BY <1>1, <2>1, IdleTypes DEF Readers, NoCall
  <2> QED BY <1>1, <2>1, <2>2 DEF Reading
<1>13. CASE SnapshotFacts
  <2>1. /\ UNCHANGED <<ledger, high, projection>> /\ client.call.pc = "facts"
        /\ client'.cursor = client.call.through /\ client'.resumed = client.call.through
        /\ client'.call = NoCall
        /\ client'.missed = client.missed \cup {s \in 1 .. client.call.through : ledger[s] = "prepared"}
    BY <1>1, <1>13 DEF SnapshotFacts, Readers
  <2>2. \A s \in Seqs : s <= client.call.through => s \in 1 .. client.call.through
    BY <1>1 DEF Seqs
  <2> QED BY <1>1, <2>1, <2>2, IdleTypes DEF Reading
<1>14. CASE Restart \/ SnapshotFails
  <2>1. /\ client'.cursor = client.cursor /\ client'.resumed = client.resumed
        /\ client'.missed = client.missed /\ client'.call.pc = "idle"
    BY <1>1, <1>14, IdleTypes DEF Restart, SnapshotFails, Readers
  <2> QED BY <1>4, <2>1
<1>15. CASE \/ \E w \in Writers : Prepare(w) \/ Write(w) \/ Finish(w)
            \/ Loop \/ Retention \/ UNCHANGED vars
  <2>1. client' = client
    BY <1>15 DEF Prepare, Write, Finish, Loop, LoopRetries, LoopMaterializes, LoopWakes,
       Retention,
                 CompactEvents, CollectObligations, vars
  <2> QED BY <1>4, <2>1
<1> QED
  BY <1>7, <1>8, <1>9, <1>10, <1>11, <1>12, <1>13, <1>14, <1>15 DEF Next, Materialize, Inspect

\* ClientMissesNothing: what lies behind the cursor was listed, or dropped since the
\* mark was read, or is older than the snapshot; a change that is made behind the cut
\* of a snapshot was prepared when its facts were read.
LEMMA ClientNext == IInv /\ [Next]_vars => ClientMissesNothing'
<1> SUFFICES ASSUME IInv, [Next]_vars PROVE ClientMissesNothing' OBVIOUS
<1> TypeOK /\ Numbered /\ Projecting /\ Reading /\ ProjectionIsSound /\ ClientMissesNothing
    /\ StoreMoves
  BY StoreNext DEF IInv
<1> USE Bounds
<1>1. /\ client \in Readers /\ client.cursor \in Nat /\ client.resumed \in Nat
      /\ client.call.through \in Nat /\ client.call.comp \in Nat
      /\ projection.comp \in Nat /\ projection.mat \in Nat
      /\ \A s \in Seqs : s \in Nat
  BY DEF TypeOK, Readers, Calls, Marks, Seqs
<1>2. applied \subseteq Seqs BY DEF TypeOK
<1>3. ASSUME client'.cursor = client.cursor, client'.resumed = client.resumed,
             client'.known = client.known, client'.missed = client.missed
      PROVE  ClientMissesNothing'
  <2>1. ASSUME NEW s \in applied' \cap Mine, s \notin applied, s <= client.cursor
        PROVE  s \in client.missed
    <3>1. s \in Seqs /\ projection.mat < s /\ ledger[s] = "prepared" BY <2>1, ChangeIsPrepared
    <3>2. s <= client.resumed BY <1>1, <2>1, <3>1 DEF Reading
    <3> QED BY <3>1, <3>2 DEF Reading
  <2> QED BY <1>3, <2>1 DEF ClientMissesNothing
<1>4. ASSUME NEW ok \in BOOLEAN, NEW mat \in 0 .. MaxSeq, NEW hw \in 0 .. MaxSeq,
             Answer(ok, mat, hw)
      PROVE  ClientMissesNothing'
  BY <1>3, <1>4, AnswerEffect
<1>5. CASE Materialize
  <2>1. \/ Answer(FALSE, 0, 0) \/ Answer(TRUE, run.mat, high) \/ Answer(TRUE, run.mat, run.high)
        \/ client' = client
    BY <1>5 DEF Materialize, ReadHigh, Put, Save
  <2>2. {0, high, run.mat, run.high} \subseteq 0 .. MaxSeq BY DEF TypeOK, Runs
  <2> QED BY <1>3, <1>4, <2>1, <2>2
<1>6. CASE Ask \/ SnapshotCut \/ SnapshotFails \/ Restart
  <2>1. /\ client'.cursor = client.cursor /\ client'.resumed = client.resumed
        /\ client'.known = client.known /\ client'.missed = client.missed
    BY <1>1, <1>6 DEF Ask, SnapshotCut, SnapshotFails, Restart, Readers
  <2> QED BY <1>3, <2>1
<1>7. CASE ListDelta
  <2>1. /\ client'.cursor <= client.call.through /\ client' \in Readers
        /\ client'.resumed = client.resumed /\ client.known \subseteq client'.known
        /\ client'.missed = client.missed \cup Dropped
        /\ \A e \in events \cap Mine :
              client.cursor < e /\ e <= client'.cursor => e \in client'.known
    BY <1>7, ListEffect
  <2>2. client.call.through <= projection.mat /\ client.call.comp <= client.cursor
    BY <1>7 DEF ListDelta, Reading
  <2>3. applied' = applied BY <1>7 DEF ListDelta
  <2>4. client'.cursor \in Nat BY <2>1 DEF Readers
  <2>5. ASSUME NEW s \in applied \cap Mine, s <= client'.cursor
        PROVE  \/ s \in client'.known \/ s \in client'.missed
               \/ s <= client'.resumed /\ s \notin Shown
    <3>1. s \in Nat /\ s \in Seqs BY <1>1, <1>2
    <3>2. CASE s <= client.cursor BY <2>1, <3>2 DEF ClientMissesNothing
    <3>3. CASE client.cursor < s
      <4>1. s <= projection.mat BY <1>1, <2>1, <2>2, <2>4, <2>5, <3>1
      <4>2. s \in events \/ s <= projection.comp
        BY <4>1 DEF ProjectionIsSound, ProjectionIsComplete
      <4>3. s <= projection.comp => s \in Dropped BY <1>1, <2>2, <3>1, <3>3 DEF Dropped
      <4> QED BY <2>1, <2>5, <3>3, <4>2, <4>3
    <3> QED BY <1>1, <3>1, <3>2, <3>3
  <2> QED BY <2>3, <2>5 DEF ClientMissesNothing
<1>8. CASE SnapshotFacts
  <2>1. /\ client'.cursor = client'.resumed /\ applied \cap Shown \subseteq client'.known
        /\ applied' = applied
    BY <1>1, <1>8 DEF SnapshotFacts, Readers
  <2> QED BY <2>1 DEF ClientMissesNothing
<1>9. CASE \/ \E w \in Writers : Prepare(w) \/ Write(w) \/ Finish(w)
           \/ Loop \/ Retention \/ UNCHANGED vars
  <2>1. client' = client
    BY <1>9 DEF Prepare, Write, Finish, Loop, LoopRetries, LoopMaterializes, LoopWakes, Retention,
                 CompactEvents, CollectObligations, vars
  <2> QED BY <1>3, <2>1
<1> QED BY <1>5, <1>6, <1>7, <1>8, <1>9 DEF Next, Inspect

-----------------------------------------------------------------------------
(* The types, and the theorems.                                            *)

\* The invariant holds at first.
LEMMA InitIInv == Init => IInv
<1> SUFFICES ASSUME Init PROVE IInv OBVIOUS
<1> USE Bounds, IdleTypes
<1>1. TypeOK
  <2>1. projection \in Marks /\ projection.comp <= projection.mat BY DEF Init, Marks
  <2>2. client \in Readers BY DEF Init, Readers
  <2>3. /\ ledger \in [Seqs -> States] /\ subject \in [Seqs -> 0 .. MaxSeq]
        /\ high \in 0 .. MaxSeq
    BY DEF Init, States
  <2>4. /\ writer \in [Writers -> Sections] /\ retries \in [Seqs -> Terminal \cup {"none"}]
        /\ wake \in BOOLEAN
    BY DEF Init
  <2>5. faults \in 0 .. MaxFaults /\ crashes \in 0 .. MaxCrashes BY DEF Init
  <2> QED BY <2>1, <2>2, <2>3, <2>4, <2>5 DEF Init, TypeOK
<1>2. Numbered BY DEF Init, Numbered, Seqs
<1>3. Writing /\ Retrying BY DEF Init, Writing, Section, Retrying
<1>4. Projecting BY DEF Init, Projecting
<1>5. Reading BY DEF Init, Reading
<1>6. LedgerIsTrue /\ ClientMissesNothing
  BY DEF Init, LedgerIsTrue, ClientMissesNothing
<1>7. ProjectionIsSound
  BY DEF Init, ProjectionIsSound, ProjectionIsComplete, ProjectionCanGoOn, Seqs
<1> QED BY <1>1, <1>2, <1>3, <1>4, <1>5, <1>6, <1>7 DEF IInv

\* Every variable keeps its type.
LEMMA TypeNext == IInv /\ [Next]_vars => TypeOK'
<1> SUFFICES ASSUME IInv, [Next]_vars PROVE TypeOK' OBVIOUS
<1> TypeOK /\ Writing /\ Projecting /\ ProjectionIsSound /\ StoreMoves BY StoreNext DEF IInv
<1> USE Bounds
<1>1. ledger' \in [Seqs -> States] BY DEF StoreMoves
<1>2. high' \in 0 .. MaxSeq BY DEF StoreMoves, TypeOK, Seqs
<1>3. applied' \subseteq Seqs BY ChangeIsPrepared DEF TypeOK
<1>4. writer' \in [Writers -> Sections]
  <2>1. ASSUME NEW w \in Writers, Prepare(w) PROVE writer' \in [Writers -> Sections]
    <3>1. high + 1 \in 0 .. MaxSeq BY <2>1 DEF Prepare, TypeOK
    <3>2. [pc |-> "write", seq |-> high + 1, to |-> "none"] \in Sections BY <3>1 DEF Sections
    <3> QED BY <2>1, <3>2 DEF Prepare, TypeOK
  <2>2. ASSUME NEW w \in Writers, Write(w) PROVE writer' \in [Writers -> Sections]
    <3>1. \A to \in Terminal : [writer[w] EXCEPT !.pc = "finish", !.to = to] \in Sections
      BY DEF TypeOK, Sections
    <3>2. \A to : Finishing(w, to) =>
            writer' = [writer EXCEPT ![w] = [writer[w] EXCEPT !.pc = "finish", !.to = to]]
      BY DEF Finishing, TypeOK
    <3>3. \/ \E to \in Terminal : Finishing(w, to)
          \/ writer' = [writer EXCEPT ![w] = Idle]
      BY <2>2 DEF Write, Terminal
    <3>4. CASE writer' = [writer EXCEPT ![w] = Idle] BY <3>4, IdleTypes DEF TypeOK
    <3>5. ASSUME NEW to \in Terminal, Finishing(w, to) PROVE writer' \in [Writers -> Sections]
      <4> DEFINE r == [writer[w] EXCEPT !.pc = "finish", !.to = to]
      <4>1. r \in Sections /\ writer' = [writer EXCEPT ![w] = r] BY <3>1, <3>2, <3>5
      <4> HIDE DEF r
      <4> QED BY <4>1 DEF TypeOK
    <3> QED BY <3>3, <3>4, <3>5
  <2>3. ASSUME NEW w \in Writers, Finish(w) PROVE writer' \in [Writers -> Sections]
    BY <2>3, IdleTypes DEF Finish, TypeOK
  <2>4. CASE Restart BY <2>4, IdleTypes DEF Restart
  <2>5. CASE Materialize \/ Loop \/ Retention \/ Inspect \/ UNCHANGED vars
    BY <2>5 DEF vars, Materialize, ReadHigh, Put, Save, Loop, LoopRetries, LoopMaterializes,
       LoopWakes,
               Retention, CompactEvents, CollectObligations, Inspect, Ask, ListDelta,
               SnapshotCut,
               SnapshotFacts, SnapshotFails, TypeOK
  <2> QED BY <2>1, <2>2, <2>3, <2>4, <2>5 DEF Next
<1>5. retries' \in [Seqs -> Terminal \cup {"none"}] /\ wake' \in BOOLEAN
  <2>1. ASSUME NEW w \in Writers, Finish(w) PROVE <1>5!:
    <3>1. writer[w].to \in Terminal BY <2>1 DEF Finish, Writing, Section
    <3> QED BY <2>1, <3>1 DEF Finish, TypeOK
  <2>2. CASE LoopRetries BY <2>2 DEF LoopRetries, TypeOK
  <2>3. CASE Restart BY <2>3 DEF Restart
  <2>4. CASE \/ \E w \in Writers : Prepare(w) \/ Write(w)
             \/ Materialize \/ LoopMaterializes \/ LoopWakes \/ Retention \/ Inspect \/ UNCHANGED vars
    BY <2>4 DEF vars, Prepare, Write, Materialize, ReadHigh, Put, Save, LoopMaterializes,
       LoopWakes,
               Retention, CompactEvents, CollectObligations, Inspect, Ask, ListDelta,
               SnapshotCut,
               SnapshotFacts, SnapshotFails, TypeOK
  <2> QED BY <2>1, <2>2, <2>3, <2>4 DEF Next, Loop
<1>6. events' \subseteq Seqs
  <2>1. events' \subseteq events \/ (Put /\ events' \subseteq events \cup {NextSeq})
    BY DEF Next, vars, Prepare, Write, Finish, Materialize, ReadHigh, Put, Save, Loop,
       LoopRetries,
           LoopMaterializes, LoopWakes, Retention, CompactEvents, CollectObligations, Inspect,
           Ask,
           ListDelta, SnapshotCut, SnapshotFacts, SnapshotFails, Restart
  <2>2. CASE events' \subseteq events BY <2>2 DEF TypeOK
  <2>3. CASE Put /\ ~(events' \subseteq events)
    <3>1. NextSeq <= run.high BY <2>3 DEF Put
    <3>2. NextSeq \in Seqs BY <3>1 DEF NextSeq, TypeOK, Runs, Seqs
    <3> QED BY <2>1, <2>3, <3>2 DEF TypeOK
  <2> QED BY <2>1, <2>2, <2>3
<1>7. projection' \in Marks /\ projection'.comp <= projection'.mat
  <2>1. projection \in Marks /\ projection.comp <= projection.mat BY DEF TypeOK
  <2>2. CASE Save
    <3>1. NextSeq \in 0 .. MaxSeq /\ NextSeq = projection.mat + 1
      BY <2>2 DEF Save, Projecting, NextSeq, TypeOK, Runs
    <3>2. projection' = projection \/ projection' = [projection EXCEPT !.mat = NextSeq]
      BY <2>2 DEF Save
    <3> QED BY <2>1, <3>1, <3>2 DEF Marks
  <2>3. CASE CompactEvents
    <3>1. PICK last \in events : last <= projection.mat /\ projection' = [projection EXCEPT !.comp = last]
      BY <2>3 DEF CompactEvents
    <3>2. last \in 0 .. MaxSeq BY DEF TypeOK, Seqs
    <3> QED BY <2>1, <3>1, <3>2 DEF Marks
  <2>4. CASE ~Save /\ ~CompactEvents
    <3>1. projection' = projection
      BY <2>4 DEF Next, vars, Prepare, Write, Finish, Materialize, ReadHigh, Put, Loop,
         LoopRetries,
               LoopMaterializes, LoopWakes, Retention, CollectObligations, Inspect, Ask,
               ListDelta, SnapshotCut, SnapshotFacts, SnapshotFails, Restart
    <3> QED BY <2>1, <3>1
  <2> QED BY <2>2, <2>3, <2>4
<1>8. ASSUME NEW ok \in BOOLEAN, NEW mat \in 0 .. MaxSeq, NEW hw \in 0 .. MaxSeq,
             Answer(ok, mat, hw)
      PROVE  /\ run' \in Runs /\ client' \in Readers
             /\ loop' \in {"retry", "material", "again", "running", "repeating", "timer", "error", "waiting"}
  BY <1>8, AnswerEffect, IdleTypes DEF TypeOK
<1>9. {0, high, run.mat, run.high} \subseteq 0 .. MaxSeq /\ run \in Runs /\ client \in Readers
      /\ loop \in {"retry", "material", "again", "running", "repeating", "timer", "error", "waiting"}
  BY DEF TypeOK, Runs
<1>10. /\ run' \in Runs /\ client' \in Readers
       /\ loop' \in {"retry", "material", "again", "running", "repeating", "timer", "error", "waiting"}
  <2>1. CASE ReadHigh
    <3>1. CASE run' = [run EXCEPT !.pc = "put", !.high = high, !.batch =
                       [s \in Seqs |-> IF s > run.mat THEN ledger[s] ELSE "none"]]
               /\ UNCHANGED <<loop, client>>
      <4>1. [s \in Seqs |-> IF s > run.mat THEN ledger[s] ELSE "none"] \in [Seqs -> States]
        BY DEF TypeOK, States
      <4> HIDE DEF Seqs, States
      <4> QED BY <1>9, <3>1, <4>1 DEF Runs
    <3>2. CASE Answer(FALSE, 0, 0) \/ Answer(TRUE, run.mat, high) BY <1>8, <1>9, <3>2
    <3> QED BY <2>1, <3>1, <3>2 DEF ReadHigh
  <2>2. CASE Put
    <3>1. CASE run' \in {[run EXCEPT !.pc = "high"], [run EXCEPT !.pc = "save"]} /\ UNCHANGED <<loop, client>>
      BY <1>9, <3>1 DEF Runs
    <3>2. CASE Answer(FALSE, 0, 0) \/ Answer(TRUE, run.mat, run.high) BY <1>8, <1>9, <3>2
    <3> QED BY <2>2, <3>1, <3>2 DEF Put
  <2>3. CASE Save
    <3>1. CASE run' = [run EXCEPT !.mat = NextSeq, !.pc = "put"] /\ UNCHANGED <<loop, client>>
      <4>1. NextSeq \in 0 .. MaxSeq BY <2>3 DEF Save, Projecting, NextSeq, TypeOK, Runs
      <4> QED BY <1>9, <3>1, <4>1 DEF Runs
    <3>2. CASE Answer(FALSE, 0, 0) BY <1>8, <1>9, <3>2
    <3> QED BY <2>3, <3>1, <3>2 DEF Save
  <2>4. ASSUME NEW who \in {"loop", "client"}, Begin(who) PROVE run' \in Runs
    BY <2>4, IdleTypes DEF Begin, Runs, TypeOK, Marks
  <2>5. CASE LoopMaterializes BY <1>9, <2>4, <2>5 DEF LoopMaterializes
  <2>6. CASE Ask
    <3>1. client' \in Readers BY <1>9, <2>6 DEF Ask, Readers, Calls
    <3> QED BY <1>9, <2>4, <2>6, <3>1 DEF Ask
  <2>7. CASE ListDelta BY <1>9, <2>7, ListEffect DEF ListDelta
  <2>8. CASE SnapshotCut
    <3>1. [NoCall EXCEPT !.pc = "facts", !.through = high] \in Calls BY <1>9 DEF Calls, NoCall
    <3>2. client' \in Readers BY <1>9, <2>8, <3>1 DEF SnapshotCut, Readers
    <3> QED BY <1>9, <2>8, <3>2 DEF SnapshotCut
  <2>9. CASE SnapshotFacts
    <3>1. client.call.through \in 0 .. MaxSeq BY <1>9 DEF Readers, Calls
    <3>2. Shown \subseteq Mine BY LogAssumption
    <3>3. {s \in 1 .. client.call.through : ledger[s] = "prepared"} \subseteq Seqs BY <3>1 DEF Seqs
    <3>4. client' \in Readers BY <1>9, <2>9, <3>1, <3>2, <3>3, IdleTypes DEF SnapshotFacts, Readers
    <3> QED BY <1>9, <2>9, <3>4 DEF SnapshotFacts
  <2>10. CASE Restart
    <3>1. client' \in Readers BY <1>9, <2>10, IdleTypes DEF Restart, Readers
    <3> QED BY <2>10, <3>1, IdleTypes DEF Restart
  <2>11. CASE SnapshotFails
    <3>1. client' \in Readers BY <1>9, <2>11, IdleTypes DEF SnapshotFails, Readers
    <3> QED BY <1>9, <2>11, <3>1 DEF SnapshotFails
  <2>12. CASE LoopRetries \/ LoopWakes BY <1>9, <2>12 DEF LoopRetries, LoopWakes
  <2>13. CASE \/ \E w \in Writers : Prepare(w) \/ Write(w) \/ Finish(w)
              \/ Retention \/ UNCHANGED vars
    BY <1>9, <2>13 DEF Prepare, Write, Finish, Retention, CompactEvents, CollectObligations,
       vars
  <2> QED BY <2>1, <2>2, <2>3, <2>5, <2>6, <2>7, <2>8, <2>9, <2>10, <2>12, <2>13,
            <2>11
          DEF Next, Materialize, Loop, Inspect
<1>11. adopted' \subseteq Seqs
  BY DEF TypeOK, Next, vars, Prepare, Write, Finish, Materialize, ReadHigh, Put, Save, Loop,
         LoopRetries, LoopMaterializes, LoopWakes, Retention, CompactEvents, CollectObligations,
         Inspect, Ask, ListDelta, SnapshotCut, SnapshotFacts, SnapshotFails, Restart
<1>12. subject' \in [Seqs -> 0 .. MaxSeq]
  <2>1. ASSUME NEW w \in Writers, Prepare(w) PROVE <1>12!:
    <3>1. PICK x \in {high + 1} \cup {subject[t] : t \in 1 .. high} :
            subject' = [subject EXCEPT ![high + 1] = x]
      BY <2>1 DEF Prepare
    <3>2. x \in 0 .. MaxSeq BY <2>1 DEF Prepare, TypeOK, Seqs
    <3> QED BY <3>1, <3>2 DEF TypeOK
  <2>2. CASE ~\E w \in Writers : Prepare(w)
    <3>1. subject' = subject
      BY <2>2 DEF Next, vars, Write, Finish, Materialize, ReadHigh, Put, Save, Loop, LoopRetries,
             LoopMaterializes, LoopWakes, Retention, CompactEvents, CollectObligations, Inspect,
             Ask, ListDelta, SnapshotCut, SnapshotFacts, SnapshotFails, Restart
    <3> QED BY <3>1 DEF TypeOK
  <2> QED BY <2>1, <2>2
<1>13. faults' \in 0 .. MaxFaults
  <2>1. faults' = faults \/ Fault
    BY DEF Next, vars, Prepare, Write, Finish, Materialize, ReadHigh, Put, Save, Loop,
       LoopRetries,
           LoopMaterializes, LoopWakes, Retention, CompactEvents, CollectObligations, Inspect,
           Ask,
           ListDelta, SnapshotCut, SnapshotFacts, SnapshotFails, Restart
  <2> QED BY <2>1, FaultType DEF TypeOK
<1>14. crashes' \in 0 .. MaxCrashes
  <2>1. crashes' = crashes \/ (crashes < MaxCrashes /\ crashes' = crashes + 1)
    BY DEF Next, vars, Prepare, Write, Finish, Materialize, ReadHigh, Put, Save, Loop,
       LoopRetries,
           LoopMaterializes, LoopWakes, Retention, CompactEvents, CollectObligations, Inspect,
           Ask,
           ListDelta, SnapshotCut, SnapshotFacts, SnapshotFails, Restart
  <2> QED BY <2>1 DEF TypeOK
<1> QED BY <1>1, <1>2, <1>3, <1>4, <1>5, <1>6, <1>7, <1>10, <1>11, <1>13, <1>14, <1>12 DEF TypeOK

\* The invariant holds of every reachable state.
THEOREM Invariance == Spec => []IInv
<1>1. Init => IInv BY InitIInv
<1>2. IInv /\ [Next]_vars => IInv'
  BY TypeNext, NumberedNext, WritingNext, RetryingNext, ProjectingNext, ReadingNext, LedgerNext,
     SoundNext, ClientNext DEF IInv
<1> QED BY <1>1, <1>2, PTL DEF Spec

\* Every variable of the log keeps its type.
THEOREM TypeCorrect == Spec => []TypeOK
<1>1. IInv => TypeOK BY DEF IInv
<1> QED BY <1>1, Invariance, PTL

\* A committed obligation and an event stand for a change made under their number or,
\* when a startup had to decide, for a subject that is in the store, and an aborted
\* one for no change, for any number of writers, faults and crashes (Finish,
\* LoopRetries, Reconciled, Put).
THEOREM LedgerStaysTrue == Spec => []LedgerIsTrue
<1>1. IInv => LedgerIsTrue BY DEF IInv
<1> QED BY <1>1, Invariance, PTL

\* The projection has no hole and the materializer no dead end, whatever retention
\* has removed and wherever the daemon died (Put, Save, CompactEvents, Collectible,
\* Restart).
THEOREM ProjectionStaysSound == Spec => []ProjectionIsSound
<1>1. IInv => ProjectionIsSound BY DEF IInv
<1> QED BY <1>1, Invariance, PTL

\* Every change behind the client's cursor was given to it, but for what was compacted
\* while it listed, what was being written while it was sent a snapshot, and what no
\* snapshot tells (Answer, ListDelta, SnapshotCut, SnapshotFacts), for every scan
\* limit and every size of an answer.
THEOREM ClientIsToldAll == Spec => []ClientMissesNothing
<1>1. IInv => ClientMissesNothing BY DEF IInv
<1> QED BY <1>1, Invariance, PTL
=============================================================================
