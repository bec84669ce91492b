---------------------------- MODULE StateBudget ----------------------------
(***************************************************************************)
(* The byte half of internal/adapter/store/admission.go: StateBytes, the   *)
(* total that admission compares with MaxTotalState.  Writers change a     *)
(* file and report the difference in a separate critical section; a walk   *)
(* over the files, which holds no lock, re-derives the total, either in    *)
(* the background (refreshStateBytes, which adds the differences reported  *)
(* meanwhile) or inside admission when the total is near the budget.       *)
(***************************************************************************)
EXTENDS Integers, FiniteSetsExt

CONSTANTS
  Files,      \* files of the state store, each in a directory of its own
  Outputs,    \* those that are appended to; the others are written by atomicWriter
  MaxSize,    \* bound: size of a file
  MaxWrites,  \* bound: writes, removals and failed scans in one behaviour
  Reclaims,   \* TRUE when retention and compaction may delete files
  Near        \* bytes from which nearStateBudget asks for the exact total

ASSUME BudgetAssumption ==
  /\ MaxSize \in Nat \ {0} /\ {MaxWrites, Near} \subseteq Nat
  /\ Reclaims \in BOOLEAN /\ IsFiniteSet(Files) /\ Outputs \subseteq Files

VARIABLES
  size,       \* bytes of each file under its name; 0 when there is none
  temp,       \* bytes of the temporary file that is to replace it
  unreported, \* difference made to a file and not yet given to addStateBytes
  staged,     \* files withdrawn by a sweep that could not remove them
  tracked,    \* r.admission.StateBytes
  delta,      \* r.stateBytesDelta
  refresh,    \* the refreshStateBytes goroutine (stateBytesRefreshing)
  exact,      \* the scan inside admissionCounters
  behind,     \* history: what the last scan and failed removals may have lost
  writes      \* bound

vars == <<size, temp, unreported, staged, tracked, delta, refresh, exact, behind, writes>>

Sum(g) == MapThenSumSet(LAMBDA f : g[f], Files)

\* What the store holds, and the removals that are still to be reported.
Bytes == Sum([f \in Files |-> size[f] + temp[f]])
Removed == Sum([f \in Files |-> IF unreported[f] < 0 THEN -unreported[f] ELSE 0])

\* A walk: the directories it has not listed, the names it has listed and not
\* yet looked at, the bytes it has counted; lost is history: the bytes that
\* its total may lack because of what happened meanwhile.
Names == Files \X {"temp", "file"}
Scans == [on : BOOLEAN, todo : SUBSET Files, names : SUBSET Names, sum : Nat, lost : Nat]
NoScan == [on |-> FALSE, todo |-> {}, names |-> {}, sum |-> 0, lost |-> 0]
NewScan == [on |-> TRUE, todo |-> Files, names |-> {}, sum |-> 0, lost |-> Removed]
Over(scan) == scan.on /\ scan.todo = {} /\ scan.names = {}
Losing(scan, n) == IF scan.on THEN [scan EXCEPT !.lost = @ + n] ELSE scan
Without(scan, f) == [scan EXCEPT !.names = @ \ {<<f, "temp">>}]

TypeOK ==
  /\ size \in [Files -> 0 .. MaxSize] /\ temp \in [Files -> 0 .. MaxSize]
  /\ unreported \in [Files -> -MaxSize .. MaxSize]
  /\ staged \subseteq Files
  /\ tracked \in Int /\ delta \in Int
  /\ {refresh, exact} \subseteq Scans /\ {behind, writes} \subseteq Nat

\* ReconcileAdmission has just run.
Init ==
  /\ size \in [Files -> 0 .. 1]
  /\ temp = [f \in Files |-> 0]
  /\ unreported = [f \in Files |-> 0] /\ staged = {}
  /\ tracked = Bytes /\ delta = 0
  /\ refresh = NoScan /\ exact = NoScan
  /\ behind = 0 /\ writes = 0

-----------------------------------------------------------------------------
(* Writers.                                                                *)

Write(f) ==
  /\ writes < MaxWrites /\ writes' = writes + 1
  /\ unreported[f] = 0 /\ temp[f] = 0 /\ f \notin staged

\* AppendOutput, and the commit of a blob.
AppendOutput(f) ==
  /\ Write(f) /\ f \in Outputs /\ size[f] < MaxSize
  /\ size' = [size EXCEPT ![f] = @ + 1]
  /\ unreported' = [unreported EXCEPT ![f] = 1]
  /\ UNCHANGED <<temp, staged, tracked, delta, refresh, exact, behind>>

\* atomicWriter: the whole document goes to a temporary file of the same
\* directory, and its full size is reported before it gets its name.
WriteTemp(f, n) ==
  /\ Write(f) /\ f \notin Outputs
  /\ temp' = [temp EXCEPT ![f] = n]
  /\ unreported' = [unreported EXCEPT ![f] = n]
  /\ UNCHANGED <<size, staged, tracked, delta, refresh, exact, behind>>

\* The temporary file is dropped: the write failed before it was reported, or
\* the rename after that.  A walk that has it on its list will not find it.
DropTemp(f) ==
  /\ temp[f] > 0
  /\ temp' = [temp EXCEPT ![f] = 0]
  /\ unreported' = [unreported EXCEPT ![f] = 0]
  /\ refresh' = Without(refresh, f) /\ exact' = Without(exact, f)
  /\ UNCHANGED <<size, staged, tracked, delta, behind, writes>>

\* A walk has the temporary name on its list and not the name it is given: it
\* will find neither.
Slips(scan, f) == <<f, "temp">> \in scan.names /\ <<f, "file">> \notin scan.names

Slip(scan, f) == Without(IF Slips(scan, f) THEN Losing(scan, temp[f]) ELSE scan, f)

\* Replace renames; Create links and removes the temporary name, which is the
\* same to the store.  The bytes that were replaced are not reported.
Rename(f) ==
  /\ temp[f] > 0 /\ unreported[f] = 0
  /\ size' = [size EXCEPT ![f] = temp[f]]
  /\ temp' = [temp EXCEPT ![f] = 0]
  /\ refresh' = Slip(refresh, f) /\ exact' = Slip(exact, f)
  /\ UNCHANGED <<unreported, staged, tracked, delta, behind, writes>>

\* A walk that has not counted a file when it is removed lacks it once more
\* when the removal is reported.
Ahead(scan, f) == f \in scan.todo \/ <<f, "file">> \in scan.names

Shrink(scan, f) == IF Ahead(scan, f) THEN Losing(scan, size[f]) ELSE scan

\* Compact, CollectExpiredTerminals: the file is removed and its size reported.
Reclaim(f) ==
  /\ Reclaims /\ Write(f) /\ size[f] > 0
  /\ size' = [size EXCEPT ![f] = 0]
  /\ unreported' = [unreported EXCEPT ![f] = -size[f]]
  /\ refresh' = Shrink(refresh, f) /\ exact' = Shrink(exact, f)
  /\ UNCHANGED <<temp, staged, tracked, delta, behind>>

\* collectSession could not remove what it has staged: reported all the same.
ReclaimLeaves(f) ==
  /\ Reclaims /\ Write(f) /\ size[f] > 0
  /\ staged' = staged \cup {f}
  /\ unreported' = [unreported EXCEPT ![f] = -size[f]]
  /\ behind' = behind + size[f]
  /\ refresh' = Losing(refresh, size[f]) /\ exact' = Losing(exact, size[f])
  /\ UNCHANGED <<size, temp, tracked, delta>>

\* discardStaged, in a later sweep: nothing is reported.
Discard(f) ==
  /\ f \in staged /\ unreported[f] = 0
  /\ staged' = staged \ {f}
  /\ size' = [size EXCEPT ![f] = 0]
  /\ UNCHANGED <<temp, unreported, tracked, delta, refresh, exact, behind, writes>>

\* addStateBytes.  An exact scan in flight will overwrite it.
AddStateBytes(f) ==
  /\ unreported[f] # 0
  /\ tracked' = IF tracked + unreported[f] < 0 THEN 0 ELSE tracked + unreported[f]
  /\ delta' = delta + unreported[f]
  /\ unreported' = [unreported EXCEPT ![f] = 0]
  /\ exact' = IF unreported[f] > 0 THEN Losing(exact, unreported[f]) ELSE exact
  /\ UNCHANGED <<size, temp, staged, refresh, behind, writes>>

-----------------------------------------------------------------------------
(* Scans.                                                                  *)

\* filepath.Walk lists a directory and then looks at its names in order, the
\* temporary ones first; scanStateBytes passes over one that is gone.
Listed(scan, f) ==
  [scan EXCEPT !.todo = @ \ {f},
               !.names = @ \cup {<<f, k>> : k \in {k \in {"temp", "file"} :
                                  (IF k = "temp" THEN temp[f] ELSE size[f]) > 0}}]

Counted(scan, f, k) ==
  [scan EXCEPT !.names = @ \ {<<f, k>>},
               !.sum = @ + IF k = "temp" THEN temp[f] ELSE size[f]]

Walk(scan, f) ==
  {Listed(scan, f) : x \in scan.todo \cap {f}}
    \cup {Counted(scan, f, k) : k \in {k \in {"temp", "file"} :
            /\ <<f, k>> \in scan.names
            /\ k = "file" => <<f, "temp">> \notin scan.names}}

\* maybeRefreshStateBytes, called by an admission once the total is old enough.
BeginRefresh ==
  /\ ~refresh.on
  /\ refresh' = NewScan
  /\ delta' = 0
  /\ UNCHANGED <<size, temp, unreported, staged, tracked, exact, behind, writes>>

RefreshVisits(f) ==
  /\ refresh' \in Walk(refresh, f)
  /\ UNCHANGED <<size, temp, unreported, staged, tracked, delta, exact, behind, writes>>

\* Mutant of EndRefresh: what was reported during the scan is dropped.
EndRefreshNoDelta ==
  /\ Over(refresh)
  /\ tracked' = refresh.sum
  /\ delta' = 0 /\ behind' = refresh.lost
  /\ refresh' = NoScan
  /\ UNCHANGED <<size, temp, unreported, staged, exact, writes>>

\* Mutant of EndRefresh: the total is never lowered.
EndRefreshRaises ==
  /\ Over(refresh)
  /\ tracked' = IF tracked > refresh.sum THEN tracked ELSE refresh.sum + delta
  /\ delta' = 0 /\ behind' = refresh.lost
  /\ refresh' = NoScan
  /\ UNCHANGED <<size, temp, unreported, staged, exact, writes>>

EndRefresh ==
  /\ Over(refresh)
  /\ tracked' = refresh.sum + delta
  /\ delta' = 0 /\ behind' = refresh.lost
  /\ refresh' = NoScan
  /\ UNCHANGED <<size, temp, unreported, staged, exact, writes>>

\* The scan failed: the total is left as it was.
RefreshFails ==
  /\ writes < MaxWrites /\ writes' = writes + 1
  /\ refresh.on /\ ~Over(refresh)
  /\ refresh' = NoScan
  /\ UNCHANGED <<size, temp, unreported, staged, tracked, delta, exact, behind>>

\* admissionCounters near the budget.  Admissions are serialised by r.admit.
BeginExact ==
  /\ ~exact.on /\ tracked >= Near
  /\ exact' = NewScan
  /\ UNCHANGED <<size, temp, unreported, staged, tracked, delta, refresh, behind, writes>>

ExactVisits(f) ==
  /\ exact' \in Walk(exact, f)
  /\ UNCHANGED <<size, temp, unreported, staged, tracked, delta, refresh, behind, writes>>

\* The total is overwritten, and with the delta what a refresh in flight was told.
EndExact ==
  /\ Over(exact)
  /\ tracked' = exact.sum
  /\ delta' = 0 /\ behind' = exact.lost
  /\ refresh' = IF delta > 0 THEN Losing(refresh, delta) ELSE refresh
  /\ exact' = NoScan
  /\ UNCHANGED <<size, temp, unreported, staged, writes>>

\* The scan failed, and the admission with it.
ExactFails ==
  /\ writes < MaxWrites /\ writes' = writes + 1
  /\ exact.on /\ ~Over(exact)
  /\ exact' = NoScan
  /\ UNCHANGED <<size, temp, unreported, staged, tracked, delta, refresh, behind>>

Next ==
  \/ \E f \in Files : \/ AppendOutput(f) \/ \E n \in 1 .. MaxSize : WriteTemp(f, n)
                      \/ DropTemp(f) \/ Rename(f)
                      \/ Reclaim(f) \/ ReclaimLeaves(f) \/ Discard(f)
                      \/ AddStateBytes(f) \/ RefreshVisits(f) \/ ExactVisits(f)
  \/ BeginRefresh \/ EndRefresh \/ RefreshFails
  \/ BeginExact \/ EndExact \/ ExactFails

Spec == Init /\ [][Next]_vars

-----------------------------------------------------------------------------
\* "It can only ever run ahead of the store": with every difference reported,
\* the tracked total is not below the bytes in the store.
RunsAhead == (\A f \in Files : unreported[f] = 0) => tracked >= Bytes

\* The tracked total, with the differences on their way, is never below the store
\* by more than what the last scan lost to what overlapped it: growth reported
\* while an exact scan walked or taken from the delta of a refresh, removals made
\* ahead of the walk, files renamed between the listing and the look at them, and
\* removals that failed.  No other order of writes, reports and scans loses a
\* byte, so a scan that nothing overlapped keeps the store within its budget.
NeverBehind == tracked + Sum(unreported) + behind >= Bytes

\* Admissions keep coming, the goroutine of a refresh, the sweeps and the writers
\* run, and by the bound on failed scans, scans do not fail for ever.
Fairness ==
  /\ \A f \in Files : /\ WF_vars(AddStateBytes(f)) /\ WF_vars(DropTemp(f) \/ Rename(f))
                      /\ WF_vars(RefreshVisits(f)) /\ WF_vars(ExactVisits(f))
                      /\ WF_vars(Discard(f))
  /\ WF_vars(BeginRefresh) /\ WF_vars(EndRefresh) /\ WF_vars(EndExact)

FairSpec == Spec /\ Fairness

\* A total that went wrong is repaired by a later refresh, although an exact scan
\* may end at any moment of it: when the store stops changing, the tracked total
\* becomes and stays what the store holds.
TotalIsRepaired == <>[](tracked = Bytes)
=============================================================================
