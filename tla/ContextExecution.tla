-------------------------- MODULE ContextExecution --------------------------
(***************************************************************************)
(* Context execution: a command run by a short-lived helper inside the     *)
(* shell of a delegated session.  Execute reserves a record, takes the     *)
(* lease of the session's authority epoch and types the helper's command   *)
(* into the shell; the helper claims the record over a private socket,     *)
(* asks for the authority to spawn, spawns, and reports; the daemon's      *)
(* serveOne records each report.  The daemon and the helper may stop at    *)
(* any step; startup reconciles what they left.                            *)
(*                                                                         *)
(* One Execute call is one member of Calls and stands for the launch id    *)
(* it draws.  One store call is one step with a result: "ok", "none" (no   *)
(* durable change) or "ambiguous" (written, and reported as failed).  The  *)
(* identity, boundary and privacy checks on the pane are a refusal that    *)
(* may always happen.  Requests that are refused or answered from the      *)
(* record change nothing and are not steps.                                *)
(***************************************************************************)
EXTENDS Naturals, Sequences, FiniteSets

CONSTANTS
  Calls,      \* Execute calls, each made at most once
  Execs,      \* context_exec_ids, all of one delegated session
  None,
  Limit,      \* MaxOutputBytes of a request
  TimeoutSet, \* TRUE when requests carry a timeout
  MaxEpoch,   \* bound: no change of owner at this epoch or above
  MaxCrashes, \* bound: stops of the daemon
  MaxFaults   \* bound: failures of the store, the shell and the helper

ASSUME ContextAssumption ==
  /\ {Limit, MaxEpoch, MaxCrashes, MaxFaults} \subseteq Nat /\ TimeoutSet \in BOOLEAN
  /\ MaxEpoch >= 1 /\ None \notin Calls \cup Execs

VARIABLES
  rec,     \* context-exec/v2/<id>.json
  lease,   \* context-exec/leases: the holder, per epoch
  ses,     \* the child's operation and session in the store
  bind,    \* the delegated binding: epoch, owner, and the epochs a handoff was
           \* logged to leave and did not leave at once
  call,    \* where each Execute call stands
  serve,   \* serveOne of a launch: its step, the frames it read, the result
  helper,  \* the helper process of a launch
  child,   \* the child process of a launch
  wire,    \* frames from the helper the daemon has not read
  reply,   \* the execute frame the helper has not read
  boot,    \* "down", "abandon", "reconcile", "up"
  todo,    \* recovery candidates
  crashes, faults

disk   == <<rec, lease, ses, bind>>
procs  == <<helper, child>>
links  == <<wire, reply>>
daemon == <<boot, todo>>
counts == <<crashes, faults>>
vars == <<disk, call, serve, procs, links, daemon, counts>>

Lives == {"reserved", "helper_requested", "helper_authenticated", "child_reserved",
          "child_spawned", "child_terminal", "canonicalized", "helper_lost", "ambiguous"}
Ends == {"zero", "other", "killed"}
\* What a helper reports of its child; NoChild is a result without one.
Truths == [end : Ends \cup {"none"}, timedOut : BOOLEAN, out : Nat, complete : BOOLEAN]
NoChild == [end |-> "none", timedOut |-> FALSE, out |-> 0, complete |-> FALSE]
\* Frames of the helper; only a terminal frame carries a result.
Frames == [kind : {"prepared", "cannot", "spawned", "nospawn", "output", "terminal"},
           res : Truths \cup {None}]
Frame(kind) == [kind |-> kind, res |-> None]
Receipts == {"completed", "failed", "timed_out", "abandoned"}
Epochs == 1 .. MaxEpoch

Records == [life : Lives, epoch : Epochs, helper : Calls \cup {None}, auth : BOOLEAN,
            res : Truths \cup {None}]
Sessions == [mine : BOOLEAN, receipt : Receipts \cup {None}, log : Nat]
CallStates == [pc : {"idle", "reserve", "lease", "request", "give_up", "arm", "shell", "fail",
                     "done"}, x : Execs \cup {None}, epoch : Nat]
Serves == [pc : {"off", "listen", "authed", "child", "authorize", "ready", "receive", "output",
                 "terminal", "canonical", "publish", "release"},
           got : Nat, res : Truths \cup {None}]
Helpers == [pc : {"none", "typed", "authed", "prepared", "report", "wait", "gone"},
            sent : Nat, truncated : BOOLEAN, lost : BOOLEAN, timedOut : BOOLEAN]
Children == [st : {"none", "running"} \cup Ends, made : Nat]

ASSUME NoneAssumption == None \notin Records \cup Sessions \cup Truths \cup Receipts

NewRecord(e) == [life |-> "reserved", epoch |-> e, helper |-> None, auth |-> FALSE, res |-> None]
Off == [pc |-> "off", got |-> 0, res |-> None]
Asleep == [pc |-> "none", sent |-> 0, truncated |-> FALSE, lost |-> FALSE, timedOut |-> FALSE]
NotStarted == [st |-> "none", made |-> 0]

TypeOK ==
  /\ rec \in [Execs -> Records \cup {None}] /\ lease \in [Epochs -> Execs \cup {None}]
  /\ ses \in [Execs -> Sessions \cup {None}]
  /\ bind \in [epoch : Epochs, owner : {"agent", "human"}, logged : SUBSET Epochs]
  /\ call \in [Calls -> CallStates] /\ serve \in [Calls -> Serves]
  /\ helper \in [Calls -> Helpers] /\ child \in [Calls -> Children]
  /\ wire \in [Calls -> Seq(Frames)] /\ reply \in [Calls -> {"none", "execute"}]
  /\ boot \in {"down", "abandon", "reconcile", "up"} /\ todo \subseteq Execs
  /\ crashes \in 0 .. MaxCrashes /\ faults \in 0 .. MaxFaults

Init ==
  /\ rec = [x \in Execs |-> None] /\ ses = [x \in Execs |-> None]
  /\ lease = [e \in Epochs |-> None] /\ bind = [epoch |-> 1, owner |-> "agent", logged |-> {}]
  /\ call = [c \in Calls |-> [pc |-> "idle", x |-> None, epoch |-> 0]]
  /\ serve = [c \in Calls |-> Off] /\ helper = [c \in Calls |-> Asleep]
  /\ child = [c \in Calls |-> NotStarted]
  /\ wire = [c \in Calls |-> << >>] /\ reply = [c \in Calls |-> "none"]
  /\ boot = "up" /\ todo = {} /\ crashes = 0 /\ faults = 0

Spend(n) == faults + n <= MaxFaults /\ faults' = faults + n
\* A write: what it leaves on disk and whether the caller hears of success.
Written(r) == r # "none"
Write(r) == /\ r \in {"ok", "none", "ambiguous"}
            /\ Spend(IF r = "ok" THEN 0 ELSE 1)
X(c) == call[c].x
Life(x) == IF x = None THEN "none" ELSE IF rec[x] = None THEN "none" ELSE rec[x].life
Goto(c, pc) == call' = [call EXCEPT ![c].pc = pc]
\* serveOne returns: the connection closes and what was not read is lost.
Serving(c, pc) ==
  /\ serve' = [serve EXCEPT ![c].pc = pc]
  /\ wire' = IF pc = "off" THEN [wire EXCEPT ![c] = << >>] ELSE wire
Connected(c) == serve[c].pc \notin {"off", "listen"}

-----------------------------------------------------------------------------
(* The record: applyContextExecTransition. *)

Terminal(life) == life \in {"canonicalized", "helper_lost", "ambiguous"}
Successor == [v \in {"reserved", "helper_requested", "helper_authenticated", "child_reserved",
                     "child_spawned", "child_terminal"} |->
  CASE v = "reserved" -> "helper_requested" [] v = "helper_requested" -> "helper_authenticated"
    [] v = "helper_authenticated" -> "child_reserved" [] v = "child_reserved" -> "child_spawned"
    [] v = "child_spawned" -> "child_terminal" [] v = "child_terminal" -> "canonicalized"]

CanAdvanceTo(v, n) ==
  /\ ~Terminal(v)
  /\ IF n \in {"helper_lost", "ambiguous"} THEN v # "reserved" ELSE n = Successor[v]

\* contextExecNoChildCanonicalTransition
NoChildAllowed(r) ==
  \/ r.life = "helper_authenticated"
  \/ r.life = "child_reserved" /\ r.auth

\* The record after the transition, or None for a conflict.
Apply(r, life, auth, h, res) ==
  LET next == [r EXCEPT !.helper = IF h = None THEN @ ELSE h,
                        !.res = IF res = None THEN @ ELSE res]
  IN  IF r.life = life
      THEN IF life = "child_reserved" /\ auth THEN [next EXCEPT !.auth = TRUE]
           ELSE IF next = r /\ ~(life = "child_reserved" /\ r.auth) THEN r ELSE None
      ELSE IF \/ life = "canonicalized" /\ res = NoChild /\ NoChildAllowed(r)
              \/ CanAdvanceTo(r.life, life) /\ ~auth /\ (life = "child_spawned" => r.auth)
           THEN [next EXCEPT !.life = life] ELSE None

\* AdvanceContextExec: a conflict is refused and writes nothing.
Advance(x, next, r) ==
  /\ Write(r) /\ (next = None => r = "ok")
  /\ rec' = IF next # None /\ Written(r) THEN [rec EXCEPT ![x] = next] ELSE rec
Advanced(next, r) == next # None /\ r = "ok"

-----------------------------------------------------------------------------
(* Execute. *)

\* LookupContextExec, the first snapshot and FindContextExecLease.
Admitted(x) ==
  /\ bind.owner = "agent" /\ lease[bind.epoch] = None
  /\ rec[x] # None => rec[x].life = "reserved" /\ rec[x].epoch = bind.epoch

Execute(c, x) ==
  /\ boot = "up" /\ call[c].pc = "idle" /\ Admitted(x)
  /\ call' = [call EXCEPT ![c] = [x |-> x, epoch |-> bind.epoch,
                pc |-> IF rec[x] = None THEN "reserve" ELSE "lease"]]
  /\ UNCHANGED <<disk, serve, procs, links, daemon, counts>>

\* reserveExpectation: a record that appeared meanwhile is the answer.
Reserve(c, r) ==
  /\ call[c].pc = "reserve" /\ Write(r)
  /\ IF rec[X(c)] # None THEN r = "ok" /\ rec' = rec /\ Goto(c, "done")
     ELSE /\ rec' = IF Written(r) THEN [rec EXCEPT ![X(c)] = NewRecord(call[c].epoch)] ELSE rec
          /\ Goto(c, IF r = "ok" THEN "lease" ELSE "done")
  /\ UNCHANGED <<lease, ses, bind, serve, procs, links, daemon, crashes>>

\* The second snapshot may find the pane, the shell or the privacy changed.
Refuse(c) ==
  /\ call[c].pc = "lease" /\ Goto(c, "done")
  /\ UNCHANGED <<disk, serve, procs, links, daemon, counts>>

\* Mutant of LeaseFree: a lease of the same request counts as taken now.
LeaseFreeOrMine(c) ==
  /\ bind.owner = "agent" /\ bind.epoch = call[c].epoch
  /\ lease[call[c].epoch] \in {None, X(c)}

\* AcquireContextExecLease creates the file, or the call ends.
LeaseFree(c) ==
  /\ bind.owner = "agent" /\ bind.epoch = call[c].epoch
  /\ lease[call[c].epoch] = None

Acquire(c, r) ==
  /\ call[c].pc = "lease" /\ LeaseFree(c) /\ Write(r)
  /\ lease' = IF Written(r) THEN [lease EXCEPT ![call[c].epoch] = X(c)] ELSE lease
  /\ Goto(c, IF r = "ok" THEN "request" ELSE "done")
  /\ UNCHANGED <<rec, ses, bind, serve, procs, links, daemon, crashes>>

\* Only a write that changed nothing gives the lease back.
Request(c, r) ==
  LET next == Apply(rec[X(c)], "helper_requested", FALSE, c, None) IN
  /\ call[c].pc = "request" /\ Advance(X(c), next, r)
  /\ Goto(c, IF Advanced(next, r) THEN "arm" ELSE IF r = "none" THEN "give_up" ELSE "done")
  /\ UNCHANGED <<lease, ses, bind, serve, procs, links, daemon, crashes>>

\* ReleaseContextExecLease removes the lease of this record and no other.
Release(x, e, r) ==
  /\ Write(r)
  /\ lease' = IF lease[e] = x /\ Written(r) THEN [lease EXCEPT ![e] = None] ELSE lease

GiveUp(c, r) ==
  /\ call[c].pc = "give_up" /\ Release(X(c), call[c].epoch, r) /\ Goto(c, "done")
  /\ UNCHANGED <<rec, ses, bind, serve, procs, links, daemon, crashes>>

\* ArmContextHelper: the listener, then the command typed into the shell.
Arm(c) ==
  /\ call[c].pc = "arm" /\ Goto(c, "shell")
  /\ serve' = [serve EXCEPT ![c].pc = "listen"]
  /\ \E typed \in {"typed", "none"} :
       /\ helper' = [helper EXCEPT ![c].pc = typed]
       /\ Spend(IF typed = "none" THEN 1 ELSE 0)
  /\ UNCHANGED <<disk, child, links, daemon, crashes>>

Armed(c) ==
  /\ call[c].pc = "shell" /\ helper[c].pc # "none" /\ Goto(c, "done")
  /\ UNCHANGED <<disk, serve, procs, links, daemon, counts>>

\* The shell reports a failure, whether or not the command reached it.
ArmFails(c) ==
  /\ call[c].pc = "shell" /\ Goto(c, "fail")
  /\ Spend(IF helper[c].pc = "none" THEN 0 ELSE 1)
  /\ IF serve[c].pc = "listen" THEN Serving(c, "off") ELSE UNCHANGED <<serve, wire>>
  /\ UNCHANGED <<disk, procs, reply, daemon, crashes>>

DeclareAmbiguous(c, r) ==
  /\ call[c].pc = "fail" /\ Goto(c, "done")
  /\ Advance(X(c), Apply(rec[X(c)], "ambiguous", FALSE, None, None), r)
  /\ UNCHANGED <<lease, ses, bind, serve, procs, links, daemon, crashes>>

-----------------------------------------------------------------------------
(* The helper process and its child. *)

HelperGoes(c, pc) == helper' = [helper EXCEPT ![c].pc = pc]
Send(c, frame) == wire' = [wire EXCEPT ![c] = Append(@, frame)]

\* The helper cannot connect, or its peer has closed and left nothing to read.
HelperLeaves(c) ==
  /\ \/ helper[c].pc = "typed" /\ serve[c].pc # "listen"
     \/ helper[c].pc \in {"authed", "prepared"} /\ ~Connected(c) /\ reply[c] = "none"
  /\ HelperGoes(c, "gone")
  /\ UNCHANGED <<disk, call, serve, child, links, daemon, counts>>

\* The shell or the helper is killed; a child it has goes on by itself.
HelperDies(c) ==
  /\ helper[c].pc \notin {"none", "gone"} /\ Spend(1) /\ HelperGoes(c, "gone")
  /\ UNCHANGED <<disk, call, serve, child, links, daemon, crashes>>

\* prepareAuthorizedExecution
Prepare(c) ==
  /\ helper[c].pc = "authed" /\ Connected(c) /\ HelperGoes(c, "prepared")
  /\ \E kind \in {"prepared", "cannot"} : Send(c, Frame(kind))
  /\ UNCHANGED <<disk, call, serve, child, reply, daemon, counts>>

\* startAuthorizedExecution.  A frame read from a closed connection still counts.
Spawn(c) ==
  /\ helper[c].pc = "prepared" /\ reply[c] = "execute"
  /\ reply' = [reply EXCEPT ![c] = "none"] /\ HelperGoes(c, "report")
  /\ child' = [child EXCEPT ![c].st = "running"]
  /\ UNCHANGED <<disk, call, serve, wire, daemon, counts>>

SpawnFails(c) ==
  /\ helper[c].pc = "prepared" /\ reply[c] = "execute"
  /\ reply' = [reply EXCEPT ![c] = "none"] /\ HelperGoes(c, "gone")
  /\ wire' = IF Connected(c) THEN [wire EXCEPT ![c] = Append(@, Frame("nospawn"))] ELSE wire
  /\ UNCHANGED <<disk, call, serve, child, daemon, counts>>

\* A spawn that cannot be reported is undone: killAndReapChild.
Report(c) ==
  /\ helper[c].pc = "report"
  /\ IF Connected(c) THEN Send(c, Frame("spawned")) /\ HelperGoes(c, "wait") /\ child' = child
     ELSE /\ wire' = wire /\ HelperGoes(c, "gone")
          /\ child' = [child EXCEPT ![c].st = IF @ = "running" THEN "killed" ELSE @]
  /\ UNCHANGED <<disk, call, serve, reply, daemon, counts>>

\* CaptureOutput: a byte is sent, cut off at the limit, or lost with the daemon.
Output(c) ==
  /\ child[c].st = "running" /\ child[c].made <= Limit /\ helper[c].pc = "wait"
  /\ child' = [child EXCEPT ![c].made = @ + 1]
  /\ IF helper[c].sent = Limit
     THEN helper' = [helper EXCEPT ![c].truncated = TRUE] /\ wire' = wire
     ELSE IF Connected(c)
     THEN helper' = [helper EXCEPT ![c].sent = @ + 1] /\ Send(c, Frame("output"))
     ELSE helper' = [helper EXCEPT ![c].lost = TRUE, ![c].sent = @ + 1] /\ wire' = wire
  /\ UNCHANGED <<disk, call, serve, reply, daemon, counts>>

ChildExits(c) ==
  /\ child[c].st = "running"
  /\ \E end \in {"zero", "other"} : child' = [child EXCEPT ![c].st = end]
  /\ UNCHANGED <<disk, call, serve, helper, links, daemon, counts>>

\* waitForChild: the timer and the end of the helper's context kill the group.
\* The timer may be seen first when the child has just ended by itself.
KillGroup(c) ==
  /\ helper[c].pc = "wait" /\ child[c].st \in {"running", "zero", "other"}
  /\ child' = [child EXCEPT ![c].st = IF @ = "running" THEN "killed" ELSE @]
  /\ \/ TimeoutSet /\ ~helper[c].timedOut /\ faults' = faults
        /\ helper' = [helper EXCEPT ![c].timedOut = TRUE]
     \/ child[c].st = "running" /\ Spend(1) /\ helper' = helper
  /\ UNCHANGED <<disk, call, serve, links, daemon, crashes>>

Truth(c) ==
  [end |-> child[c].st, timedOut |-> helper[c].timedOut, out |-> helper[c].sent,
   complete |-> ~helper[c].truncated]

\* The end of collectChildTerminal: with output lost there is no report.
ReportTerminal(c) ==
  /\ helper[c].pc = "wait" /\ child[c].st \in Ends /\ HelperGoes(c, "gone")
  /\ wire' = IF Connected(c) /\ ~helper[c].lost
             THEN [wire EXCEPT ![c] = Append(@, [kind |-> "terminal", res |-> Truth(c)])] ELSE wire
  /\ UNCHANGED <<disk, call, serve, child, reply, daemon, counts>>

-----------------------------------------------------------------------------
(* serveOne: the daemon's side of the conversation. *)

\* Authenticate and BindClaim.
Claim(c, r) ==
  LET next == Apply(rec[X(c)], "helper_authenticated", FALSE, None, None)
      ok   == rec[X(c)].helper = c /\ bind.epoch = call[c].epoch /\ bind.owner = "agent"
      to   == IF ok THEN next ELSE None
  IN  /\ serve[c].pc = "listen" /\ helper[c].pc = "typed" /\ Advance(X(c), to, r)
      /\ Serving(c, IF Advanced(to, r) THEN "authed" ELSE "off")
      /\ HelperGoes(c, IF Advanced(to, r) THEN "authed" ELSE "gone")
      /\ UNCHANGED <<lease, ses, bind, call, child, reply, daemon, crashes>>

\* The connection ends, with nothing left to read.
Hangup(c) ==
  /\ serve[c].pc \in {"authed", "ready", "receive"} /\ wire[c] = << >>
  /\ helper[c].pc = "gone" /\ Serving(c, "off")
  /\ UNCHANGED <<disk, call, procs, reply, daemon, counts>>

Read(c, kind) == wire[c] # << >> /\ Head(wire[c]).kind = kind
\* A frame is read and the conversation goes on, or ends.
After(c, pc) ==
  /\ serve' = [serve EXCEPT ![c].pc = pc]
  /\ wire' = [wire EXCEPT ![c] = IF pc = "off" THEN << >> ELSE Tail(@)]

\* AuthorizePrepared, first write: the child's operation.  A write whose outcome
\* is in doubt leaves the abandoned receipt of the store.
ReserveChild(c, r) ==
  /\ serve[c].pc = "authed" /\ Read(c, "prepared") /\ Write(r)
  /\ ses' = IF ses[X(c)] = None /\ Written(r)
            THEN [ses EXCEPT ![X(c)] = [mine |-> TRUE, log |-> 0,
                    receipt |-> IF r = "ok" THEN None ELSE "abandoned"]]
            ELSE ses
  /\ After(c, IF r = "ok" /\ ses'[X(c)].mine THEN "child" ELSE "off")
  /\ UNCHANGED <<rec, lease, bind, call, procs, reply, daemon, crashes>>

\* Second write.
ChildReserved(c, r) ==
  LET next == Apply(rec[X(c)], "child_reserved", FALSE, None, None) IN
  /\ serve[c].pc = "child" /\ Advance(X(c), next, r)
  /\ Serving(c, IF Advanced(next, r) THEN "authorize" ELSE "off")
  /\ UNCHANGED <<lease, ses, bind, call, procs, reply, daemon, crashes>>

\* Mutant of Authorize: the execute frame does not wait for the record.
AuthorizeEarly(c, r) ==
  LET next == Apply(rec[X(c)], "child_reserved", TRUE, None, None) IN
  /\ serve[c].pc = "authorize" /\ Advance(X(c), next, r)
  /\ Serving(c, IF Advanced(next, r) THEN "ready" ELSE "off")
  /\ reply' = [reply EXCEPT ![c] = "execute"]
  /\ UNCHANGED <<lease, ses, bind, call, procs, daemon, crashes>>

\* Third write, and the execute frame.
Authorize(c, r) ==
  LET next == Apply(rec[X(c)], "child_reserved", TRUE, None, None) IN
  /\ serve[c].pc = "authorize" /\ Advance(X(c), next, r)
  /\ Serving(c, IF Advanced(next, r) THEN "ready" ELSE "off")
  /\ reply' = IF Advanced(next, r) THEN [reply EXCEPT ![c] = "execute"] ELSE reply
  /\ UNCHANGED <<lease, ses, bind, call, procs, daemon, crashes>>

\* CanonicalizeNoChildFailure, when preparing or spawning failed.
NoChildFailure(c, r) ==
  LET next == Apply(rec[X(c)], "canonicalized", FALSE, None, NoChild) IN
  /\ \/ serve[c].pc = "authed" /\ Read(c, "cannot")
     \/ serve[c].pc = "ready" /\ Read(c, "nospawn")
  /\ Advance(X(c), next, r)
  /\ After(c, IF Advanced(next, r) THEN "release" ELSE "off")
  /\ UNCHANGED <<lease, ses, bind, call, procs, reply, daemon, crashes>>

RecordSpawn(c, r) ==
  LET next == Apply(rec[X(c)], "child_spawned", FALSE, None, None) IN
  /\ serve[c].pc = "ready" /\ Read(c, "spawned") /\ Advance(X(c), next, r)
  /\ After(c, IF Advanced(next, r) THEN "receive" ELSE "off")
  /\ UNCHANGED <<lease, ses, bind, call, procs, reply, daemon, crashes>>

\* receiveResult
Receive(c) ==
  /\ serve[c].pc = "receive" /\ wire[c] # << >>
  /\ IF Head(wire[c]).kind = "output"
     THEN /\ serve' = [serve EXCEPT ![c].got = @ + 1]
          /\ wire' = [wire EXCEPT ![c] = Tail(@)]
     ELSE IF Head(wire[c]).res.out # serve[c].got THEN Serving(c, "off")
     ELSE /\ serve' = [serve EXCEPT ![c].pc = "output", ![c].res = Head(wire[c]).res]
          /\ wire' = [wire EXCEPT ![c] = Tail(@)]
  /\ UNCHANGED <<disk, call, procs, reply, daemon, counts>>

\* RecordTerminal, first write: the output.
Matches(x) == ses[x] # None /\ ses[x].mine

PersistOutput(c, r) ==
  LET x == X(c) IN
  /\ serve[c].pc = "output" /\ Write(r)
  /\ IF ~Matches(x) \/ ses[x].log \notin {0, serve[c].res.out}
     THEN r = "ok" /\ ses' = ses /\ Serving(c, "off")
     ELSE /\ ses' = IF Written(r) THEN [ses EXCEPT ![x].log = serve[c].res.out] ELSE ses
          /\ Serving(c, IF r = "ok" THEN "terminal" ELSE "off")
  /\ UNCHANGED <<rec, lease, bind, call, procs, reply, daemon, crashes>>

\* Second write: child_terminal; third: canonicalized.
RecordTerminal(c, r) ==
  LET life == IF serve[c].pc = "terminal" THEN "child_terminal" ELSE "canonicalized"
      next == Apply(rec[X(c)], life, FALSE, None, serve[c].res)
      then == IF serve[c].pc = "terminal" THEN "canonical" ELSE "publish"
  IN  /\ serve[c].pc \in {"terminal", "canonical"} /\ Advance(X(c), next, r)
      /\ Serving(c, IF Advanced(next, r) THEN then ELSE "off")
      /\ UNCHANGED <<lease, ses, bind, call, procs, reply, daemon, crashes>>

\* Mutant of Outcome: an exit of zero is success, whatever became of the output.
OutcomeOfExit(t) ==
  IF t.timedOut THEN "timed_out" ELSE IF t.end = "zero" THEN "completed" ELSE "failed"

\* contextTerminalOutcome
Outcome(t) ==
  IF t.timedOut THEN "timed_out"
  ELSE IF t.complete /\ t.end = "zero" THEN "completed" ELSE "failed"

\* publishCanonicalTerminal: another receipt is a conflict.
Publish(c, r) ==
  LET x == X(c)
      o == Outcome(rec[x].res)
      ok == ses[x].receipt \in {None, o}
  IN  /\ serve[c].pc = "publish" /\ Write(r) /\ (~ok => r = "ok")
      /\ ses' = IF ok /\ Written(r) THEN [ses EXCEPT ![x].receipt = o] ELSE ses
      /\ Serving(c, IF ok /\ r = "ok" THEN "release" ELSE "off")
      /\ UNCHANGED <<rec, lease, bind, call, procs, reply, daemon, crashes>>

\* releaseExecutionLease ends the conversation; a helper that could not prepare
\* is told so.
ReleaseLease(c, r) ==
  /\ serve[c].pc = "release" /\ Release(X(c), call[c].epoch, r) /\ Serving(c, "off")
  /\ UNCHANGED <<rec, ses, bind, call, procs, reply, daemon, crashes>>

-----------------------------------------------------------------------------
(* Owner changes, stops and the startup. *)

\* ReserveHandoff logs a transaction, then moves the binding; module Handoff has
\* its steps.  The lease is looked at before the log, and only then.
CanHandOver ==
  bind.owner = "agent" /\ bind.epoch < MaxEpoch /\ lease[bind.epoch] = None
Logged == [bind EXCEPT !.logged = @ \cup {bind.epoch}]
Moved == [bind EXCEPT !.epoch = @ + 1, !.owner = "human"]

HandOver ==
  /\ boot = "up" /\ CanHandOver
  /\ \/ bind' = Moved /\ faults' = faults
     \/ bind' = Logged /\ Spend(1)
  /\ UNCHANGED <<rec, lease, ses, call, serve, procs, links, daemon, crashes>>

\* finishHandoffTransactionLocked for a transaction that was logged before, by
\* the same request made again or by AdvanceHandoff.
Pending == bind.owner = "agent" /\ bind.epoch \in bind.logged
FinishHandOver ==
  /\ boot = "up" /\ Pending /\ bind' = Moved
  /\ UNCHANGED <<rec, lease, ses, call, serve, procs, links, daemon, counts>>

HandBack ==
  /\ boot = "up" /\ bind.owner = "human" /\ bind.epoch < MaxEpoch
  /\ bind' = [bind EXCEPT !.epoch = @ + 1, !.owner = "agent"]
  /\ UNCHANGED <<rec, lease, ses, call, serve, procs, links, daemon, counts>>

\* A stop may fall between the log of a handoff and its binding.
Crash ==
  /\ boot # "down" /\ crashes < MaxCrashes /\ crashes' = crashes + 1
  /\ boot' = "down" /\ todo' = {}
  /\ bind' = bind \/ (boot = "up" /\ CanHandOver /\ bind' = Logged)
  /\ call' = [c \in Calls |-> [call[c] EXCEPT !.pc = IF @ = "idle" THEN @ ELSE "done"]]
  /\ serve' = [c \in Calls |-> Off] /\ wire' = [c \in Calls |-> << >>]
  /\ UNCHANGED <<rec, lease, ses, procs, reply, faults>>

\* A new incarnation: no reservation on disk is its own.
Restart ==
  /\ boot = "down" /\ boot' = "abandon"
  /\ ses' = [x \in Execs |-> IF ses[x] = None THEN None ELSE [ses[x] EXCEPT !.mine = FALSE]]
  /\ UNCHANGED <<rec, lease, bind, call, serve, procs, links, todo, counts>>

\* AbandonUnresolved, the transaction of a handoff that was only logged, then
\* ListContextExecRecoveryCandidates.
Candidates ==
  {x \in Execs : /\ rec[x] # None
                 /\ \/ ~Terminal(rec[x].life)
                    \/ rec[x].life = "canonicalized" /\ lease[rec[x].epoch] = x}
Abandon ==
  /\ boot = "abandon" /\ boot' = "reconcile" /\ todo' = Candidates
  /\ ses' = [x \in Execs |->
       IF ses[x] # None /\ ses[x].receipt = None
       THEN [ses[x] EXCEPT !.receipt = "abandoned"] ELSE ses[x]]
  /\ bind' = IF Pending THEN Moved ELSE bind
  /\ UNCHANGED <<rec, lease, call, serve, procs, links, counts>>

\* reconcileCandidate: what recovery writes.  Lives it does not name are kept.
Reconciled(r) ==
  CASE r.life = "helper_requested" -> "ambiguous"
    [] r.life = "child_reserved" /\ r.auth -> "ambiguous"
    [] r.life = "child_spawned" -> "helper_lost"
    [] OTHER -> r.life

Reconcile(x, r) ==
  LET life == Reconciled(rec[x]) IN
  /\ boot = "reconcile" /\ x \in todo /\ Write(r)
  /\ rec[x].life \notin {"child_terminal", "canonicalized"}
  /\ rec' = IF Written(r) THEN [rec EXCEPT ![x].life = life] ELSE rec
  /\ IF r = "ok" \/ life = rec[x].life
     THEN todo' = todo \ {x} /\ boot' = boot ELSE todo' = {} /\ boot' = "down"
  /\ UNCHANGED <<lease, ses, bind, call, serve, procs, links, crashes>>

\* recoverChildTerminal and recoverCanonicalized: the child's reservation must be
\* of this incarnation, and its receipt not another one.
Recover(x) ==
  LET proven == rec[x].res # NoChild
      ok == proven => /\ Matches(x) /\ ses[x].log = rec[x].res.out
                      /\ ses[x].receipt \in {None, Outcome(rec[x].res)}
  IN  /\ boot = "reconcile" /\ x \in todo
      /\ rec[x].life \in {"child_terminal", "canonicalized"}
      /\ IF ok
         THEN /\ rec' = [rec EXCEPT ![x].life = "canonicalized"]
              /\ ses' = IF proven THEN [ses EXCEPT ![x].receipt = Outcome(rec[x].res)] ELSE ses
              /\ lease' = [lease EXCEPT ![rec[x].epoch] = IF @ = x THEN None ELSE @]
              /\ todo' = todo \ {x} /\ boot' = boot
         ELSE todo' = {} /\ boot' = "down" /\ UNCHANGED <<rec, ses, lease>>
      /\ UNCHANGED <<bind, call, serve, procs, links, counts>>

MarkReady ==
  /\ boot = "reconcile" /\ todo = {} /\ boot' = "up"
  /\ UNCHANGED <<disk, call, serve, procs, links, todo, counts>>

-----------------------------------------------------------------------------
Rs == {"ok", "none", "ambiguous"}
CallStep(c) ==
  \/ \E r \in Rs : \/ Reserve(c, r) \/ Acquire(c, r) \/ Request(c, r)
                   \/ GiveUp(c, r) \/ DeclareAmbiguous(c, r)
  \/ Refuse(c) \/ Arm(c) \/ Armed(c) \/ ArmFails(c)
HelperStep(c) ==
  \/ HelperLeaves(c) \/ Prepare(c) \/ Spawn(c) \/ SpawnFails(c) \/ Report(c)
  \/ ReportTerminal(c)
ServeStep(c) ==
  \/ \E r \in Rs : \/ Claim(c, r) \/ ReserveChild(c, r) \/ ChildReserved(c, r)
                   \/ Authorize(c, r) \/ NoChildFailure(c, r) \/ RecordSpawn(c, r)
                   \/ PersistOutput(c, r) \/ RecordTerminal(c, r) \/ Publish(c, r)
                   \/ ReleaseLease(c, r)
  \/ Hangup(c) \/ Receive(c)
BootStep ==
  \/ Restart \/ Abandon \/ MarkReady
  \/ \E x \in Execs : (\E r \in Rs : Reconcile(x, r)) \/ Recover(x)
Next ==
  \/ \E c \in Calls : \/ CallStep(c) \/ HelperStep(c) \/ ServeStep(c)
                      \/ HelperDies(c) \/ Output(c) \/ ChildExits(c) \/ KillGroup(c)
                      \/ \E x \in Execs : Execute(c, x)
  \/ HandOver \/ FinishHandOver \/ HandBack \/ Crash \/ BootStep

Spec == Init /\ [][Next]_vars

\* Goroutines and the helper are scheduled, timers fire, a daemon that stopped is
\* started again; clients, children and owners promise nothing.
Fairness ==
  /\ \A c \in Calls : /\ WF_vars(CallStep(c)) /\ WF_vars(ServeStep(c))
                       /\ WF_vars(HelperStep(c)) /\ WF_vars(TimeoutSet /\ KillGroup(c))
  /\ WF_vars(BootStep)
FairSpec == Spec /\ Fairness

-----------------------------------------------------------------------------
Spawned(c) == child[c].st # "none"

(* A context_exec_id runs at most one child, and only under a record that    *)
(* names the launch and was authorized before (design 2026-08-18 context     *)
(* exec, section 7 and the counterexample matrix), however Execute calls,    *)
(* lost answers, stops of the daemon and late frames fall.                   *)
ChildRunsOnce ==
  \A c \in Calls : Spawned(c) =>
    /\ rec[X(c)].helper = c /\ rec[X(c)].auth /\ ses[X(c)] # None
    /\ \A d \in Calls : Spawned(d) /\ X(d) = X(c) => d = c

(* While a context child runs, the session belongs to the agent in the epoch *)
(* of the request, through stops of daemon and helper: the lease refuses a   *)
(* handoff (design section 13).  The exception is an epoch that a handoff    *)
(* was logged to leave before the request took the lease: its replay does    *)
(* not look at the lease.                                                    *)
TransferWaitsForChild ==
  \A c \in Calls : child[c].st = "running" =>
    \/ bind.epoch = call[c].epoch /\ bind.owner = "agent"
    \/ call[c].epoch \in bind.logged

(* The same without the exception, as the design's section 13 says it.       *)
ChildKeepsOwner ==
  \A c \in Calls : child[c].st = "running" =>
    bind.epoch = call[c].epoch /\ bind.owner = "agent"

(* A receipt that is not the abandoned one tells what the child did: it is   *)
(* over, its record is canonicalized, the log holds the bytes it counts, and *)
(* success means exit zero with everything the child wrote in the log.       *)
ReceiptIsTrue ==
  \A c \in Calls :
    Spawned(c) /\ ses[X(c)].receipt \in Receipts \ {"abandoned"} =>
      LET x == X(c) IN
      /\ child[c].st \in Ends /\ rec[x].life = "canonicalized"
      /\ rec[x].res.end = child[c].st /\ ses[x].log = rec[x].res.out
      /\ ses[x].receipt = "completed" => child[c].st = "zero" /\ ses[x].log = child[c].made

(* A daemon that stopped comes back up: "repairs canonical receipt then      *)
(* releases lease" (reconcile_publication_test.go).                          *)
DaemonComesBack == (boot = "down") ~> (boot = "up")

(* A request that was canonicalized without a child leaves no session that   *)
(* holds an admission slot: finishing a spawn failure closes what it opened. *)
FailedSpawnIsClosed ==
  \A c \in Calls :
    /\ boot = "up" /\ ~Connected(c) /\ call[c].pc = "done"
    /\ Life(X(c)) = "canonicalized" /\ ses[X(c)] # None
    => ses[X(c)].receipt # None

(* The lease is that of a request still under way, or left in doubt.         *)
LeaseIsNeeded ==
  \A e \in Epochs :
    lease[e] # None /\ (\A c \in Calls : X(c) = lease[e] => call[c].pc = "done" /\ serve[c].pc = "off")
      => Life(lease[e]) # "canonicalized" \/ boot # "up" \/ faults > 0

(* A child whose daemon is gone ends (design 14.6).                          *)
UnobservedChildEnds ==
  \A c \in Calls : (child[c].st = "running" /\ ~Connected(c)) ~> (child[c].st # "running")
=============================================================================
