--------------------------- MODULE AdmissionIndex ---------------------------
(***************************************************************************)
(* The occupancy half of internal/adapter/store/admission.go: which        *)
(* sessions hold one of the MaxSessions slots.  writeSessionMetadata       *)
(* replaces a session's metadata and only then, in a separate critical     *)
(* section, marks it in the index; ReconcileAdmission rebuilds the index   *)
(* from a walk over the files that holds no lock, so files change and      *)
(* marks arrive while it runs.  Marks that arrive are kept in an overlay   *)
(* and replayed onto what the walk found.                                  *)
(***************************************************************************)
EXTENDS Integers

CONSTANTS Sessions,  \* session ids
          Writers    \* goroutines that write session metadata

VARIABLES
  stored,     \* metadata.json: "absent", "active" (not terminal), "terminal" or
              \* "removed" (collected by retention; the id is not drawn again)
  writing,    \* what a writer has replaced and not yet marked
  index,      \* r.activeSessions
  reconciled, \* r.admission.Generation > 0
  scanning,   \* a ReconcileAdmission is between its two critical sections
  todo,       \* sessions its walk will still visit
  found,      \* non-terminal sessions its walk has read
  overlay     \* r.reconcileOverlay: "unset", "active" or "terminal"

indexVars == <<stored, writing, index, reconciled, scanning, todo, found, overlay>>

States == {"absent", "active", "terminal", "removed"}
Idle == [session |-> "none", mark |-> "none"]
Unset == [s \in Sessions |-> "unset"]

ASSUME IndexAssumption == "none" \notin Sessions

Writes == [session : Sessions, mark : {"active", "terminal"}]

IndexTypeOK ==
  /\ stored \in [Sessions -> States]
  /\ writing \in [Writers -> Writes \cup {Idle}]
  /\ index \subseteq Sessions /\ todo \subseteq Sessions /\ found \subseteq Sessions
  /\ reconciled \in BOOLEAN /\ scanning \in BOOLEAN
  /\ overlay \in [Sessions -> {"unset", "active", "terminal"}]

\* A store that was opened with no usable admission.json.
IndexInit ==
  /\ stored \in [Sessions -> {"absent", "active", "terminal"}]
  /\ writing = [w \in Writers |-> Idle]
  /\ index = {} /\ reconciled = FALSE
  /\ scanning = FALSE /\ todo = {} /\ found = {} /\ overlay = Unset

Marking(s) == {w \in Writers : writing[w].session = s}

\* writer.Replace of a snapshot that is not terminal.  The owner of a session
\* writes its snapshots one after the other.
ReplaceActive(w, s) ==
  /\ writing[w] = Idle /\ Marking(s) = {}
  /\ stored[s] \in {"absent", "active"}
  /\ stored' = [stored EXCEPT ![s] = "active"]
  /\ writing' = [writing EXCEPT ![w] = [session |-> s, mark |-> "active"]]
  /\ UNCHANGED <<index, reconciled, scanning, todo, found, overlay>>

\* writer.Replace of a terminal snapshot, which several callers may repeat.
ReplaceTerminal(w, s) ==
  /\ writing[w] = Idle
  /\ \A v \in Marking(s) : writing[v].mark = "terminal"
  /\ stored[s] \in {"active", "terminal"}
  /\ stored' = [stored EXCEPT ![s] = "terminal"]
  /\ writing' = [writing EXCEPT ![w] = [session |-> s, mark |-> "terminal"]]
  /\ UNCHANGED <<index, reconciled, scanning, todo, found, overlay>>

\* collectSession: a terminal session disappears, with no mark.
Collect(s) ==
  /\ stored[s] = "terminal"
  /\ stored' = [stored EXCEPT ![s] = "removed"]
  /\ UNCHANGED <<writing, index, reconciled, scanning, todo, found, overlay>>

\* Mutant of MarkSessionActive: the overlay is kept only for real changes.
MarkWhenChanged(w) ==
  LET s == writing[w].session  on == writing[w].mark = "active" IN
  /\ writing[w] # Idle
  /\ overlay' = IF scanning /\ (s \in index) # on
                THEN [overlay EXCEPT ![s] = writing[w].mark] ELSE overlay
  /\ index' = IF on THEN index \cup {s} ELSE index \ {s}
  /\ writing' = [writing EXCEPT ![w] = Idle]
  /\ UNCHANGED <<stored, reconciled, scanning, todo, found>>

\* markSessionActive.
MarkSessionActive(w) ==
  LET s == writing[w].session  on == writing[w].mark = "active" IN
  /\ writing[w] # Idle
  /\ overlay' = IF scanning THEN [overlay EXCEPT ![s] = writing[w].mark] ELSE overlay
  /\ index' = IF on THEN index \cup {s} ELSE index \ {s}
  /\ writing' = [writing EXCEPT ![w] = Idle]
  /\ UNCHANGED <<stored, reconciled, scanning, todo, found>>

\* ReconcileAdmission clears the overlay; the walk lists the directories that
\* exist, or lists them so late that it sees every session created meanwhile.
BeginReconcile ==
  /\ ~scanning
  /\ scanning' = TRUE /\ overlay' = Unset /\ found' = {}
  /\ todo' \in {{s \in Sessions : stored[s] # "absent"}, Sessions}
  /\ UNCHANGED <<stored, writing, index, reconciled>>

\* scanActiveSessions reads one metadata.json, if it is there.
VisitSession(s) ==
  /\ scanning /\ s \in todo
  /\ todo' = todo \ {s}
  /\ found' = IF stored[s] = "active" THEN found \cup {s} ELSE found
  /\ UNCHANGED <<stored, writing, index, reconciled, scanning, overlay>>

\* A file that cannot be read fails the scan and leaves the index alone.
ReconcileFails ==
  /\ scanning /\ todo # {}
  /\ scanning' = FALSE /\ todo' = {} /\ found' = {} /\ overlay' = Unset
  /\ UNCHANGED <<stored, writing, index, reconciled>>

\* The scanned set with the overlay replayed onto it.
Replayed == {s \in Sessions : \/ overlay[s] = "active"
                              \/ overlay[s] = "unset" /\ s \in found}

FinishReconcile ==
  /\ scanning /\ todo = {}
  /\ index' = Replayed
  /\ reconciled' = TRUE
  /\ scanning' = FALSE /\ found' = {} /\ overlay' = Unset
  /\ UNCHANGED <<stored, writing, todo>>

IndexNext ==
  \/ \E w \in Writers : \/ \E s \in Sessions : ReplaceActive(w, s) \/ ReplaceTerminal(w, s)
                        \/ MarkSessionActive(w)
  \/ \E s \in Sessions : Collect(s) \/ VisitSession(s)
  \/ BeginReconcile \/ ReconcileFails \/ FinishReconcile

IndexSpec == IndexInit /\ [][IndexNext]_indexVars

-----------------------------------------------------------------------------
\* Once reconciled, and whenever no mark is on its way, the index is exactly
\* the set of sessions that are not terminal: no slot leaks and none is given
\* out twice, whatever was written while the scan was running.
IndexMatchesStore ==
  reconciled => \A s \in Sessions :
    Marking(s) = {} => (s \in index <=> stored[s] = "active")

\* The part of the argument that concerns a scan in flight: what is replayed for
\* a session that was visited, or that the walk does not list, is its state.
ScanIsCurrent ==
  scanning => \A s \in Sessions :
    (Marking(s) = {} /\ (s \notin todo \/ overlay[s] # "unset"))
      => (s \in Replayed <=> stored[s] = "active")
=============================================================================
