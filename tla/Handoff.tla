------------------------------ MODULE Handoff ------------------------------
(***************************************************************************)
(* The hand-over of a delegated (tmux) session between agent and human:    *)
(* the handoff service, its records and transactions in the store, the     *)
(* agent's mutation lane, the human's tmux clients, expiry, the end of the *)
(* session, and the reconciliation after a crash of the daemon.            *)
(*                                                                         *)
(* A handler holds the mutex of its handoff from its first step to its     *)
(* last; the store's delegatedSessionMu makes one store call one step,     *)
(* which may stop after any of its writes.  Privacy, automatic readiness   *)
(* and the presentation of a terminal are left out.                        *)
(***************************************************************************)
EXTENDS Naturals, Sequences, SequencesExt, FiniteSets

CONSTANTS
  Handoffs,   \* handoff identifiers
  Clients,    \* tmux clients the human may attach
  Controls,   \* control identifiers of the human
  None,       \* no client, no control, no record
  MaxEpoch,   \* bound: no request or resume at this epoch or above
  MaxCrashes, \* bound: stops of the daemon
  MaxFaults,  \* bound: writes and provider calls that fail
  SessionMayEnd \* TRUE when the command of the session may exit

ASSUME HandoffAssumption ==
  /\ {MaxEpoch, MaxCrashes, MaxFaults} \subseteq Nat /\ SessionMayEnd \in BOOLEAN
  /\ None \notin Handoffs \cup Clients \cup Controls

VARIABLES
  binding,    \* the delegated binding: epoch, desired owner, lifecycle
  rec,        \* the record of each handoff
  tx,         \* its transaction file
  granted,    \* input authority provenance: human_write_granted
  ledger,     \* the human control ledger
  client,     \* each tmux client: "none", "ro", "rw", "gone"
  lane,       \* delegatedMutationMu: "free", or "agent" while it writes
  unresolved, \* a mutation record without a proven outcome
  pane,       \* the command: "running", "dead"; "closed" with the tmux session
  fin,        \* the binding delegatedWaitLoop has loaded, or None
  op,         \* the handler that runs for each handoff
  boot,       \* the daemon: "down", "reconcile", "up"
  todo,       \* handoffs the startup still has to reconcile
  crashes, faults

store    == <<binding, rec, tx, granted, ledger>>
provider == <<client, pane>>
session  == <<lane, unresolved, fin>>
counts   == <<crashes, faults>>
vars == <<store, provider, session, op, boot, todo, counts>>

Owners  == {"agent", "human", "none"}
Ingress == {"unknown", "fenced", "writable"}
\* by stands for the time stamp: the handoff whose transaction wrote the binding.
Bindings == [epoch : Nat, owner : Owners, life : {"live", "terminal"},
             by : Handoffs \cup {None}]
\* State.Validate
Valid(r) ==
  /\ ~(r.agent = "writable" /\ r.human = "writable")
  /\ r.human = "writable" => r.client # None
States ==
  {r \in [phase : {"AGENT_FENCING", "HUMAN_CONNECTING", "HUMAN_OWNED", "HUMAN_FENCING",
                   "RECLAIM_PENDING", "ABORTED", "AGENT_OWNED"},
          epoch : Nat, owner : Owners, agent : Ingress, human : Ingress,
          client : Clients \cup {None}, expired : BOOLEAN] : Valid(r)}
Txs == [rec : States, prior : Bindings, target : Bindings]
Kinds == {"ready", "abort", "resume"}
Signals == [handoff : Handoffs, kind : Kinds, epoch : Nat, done : BOOLEAN]
Steps == {"idle", "fence", "abort_fence", "abort", "bind", "grant", "toggle", "own",
          "regrant", "rearm", "fencing", "reclaim", "expire", "resume", "done"}
Ops == [pc : Steps, ctl : Controls \cup {None}, cli : Clients \cup {None}]
Idle == [pc |-> "idle", ctl |-> None, cli |-> None]

\* None is no record, no transaction, no control and no binding.
ASSUME NoneAssumption == None \notin States \cup Txs \cup Signals \cup Bindings

TypeOK ==
  /\ binding \in Bindings
  /\ rec \in [Handoffs -> States \cup {None}]
  /\ tx \in [Handoffs -> Txs \cup {None}]
  /\ granted \in BOOLEAN /\ unresolved \in BOOLEAN
  /\ ledger \in [Controls -> Signals \cup {None}]
  /\ client \in [Clients -> {"none", "ro", "rw", "gone"}]
  /\ lane \in {"free", "agent"} /\ pane \in {"running", "dead", "closed"}
  /\ fin \in Bindings \cup {None}
  /\ op \in [Handoffs -> Ops]
  /\ boot \in {"down", "reconcile", "up"} /\ todo \subseteq Handoffs
  /\ crashes \in 0 .. MaxCrashes /\ faults \in 0 .. MaxFaults

Init ==
  /\ binding = [epoch |-> 1, owner |-> "agent", life |-> "live", by |-> None]
  /\ rec = [h \in Handoffs |-> None] /\ tx = [h \in Handoffs |-> None]
  /\ granted = FALSE /\ ledger = [k \in Controls |-> None]
  /\ client = [c \in Clients |-> "none"] /\ lane = "free" /\ unresolved = FALSE
  /\ pane = "running" /\ fin = None /\ op = [h \in Handoffs |-> Idle]
  /\ boot = "up" /\ todo = {} /\ crashes = 0 /\ faults = 0

Spend(n) == faults + n <= MaxFaults /\ faults' = faults + n
Phase(h) == IF rec[h] = None THEN "none" ELSE rec[h].phase

-----------------------------------------------------------------------------
(* The store: a change of owner or epoch goes through a transaction file.  *)

Disk(h) == [rec |-> rec[h], tx |-> tx[h], binding |-> binding]

\* The writes of finishHandoff(Advance)TransactionLocked: the transaction, the
\* binding, the record, and the removal of the transaction.
Logged(h, d, want) ==
  LET target == [d.binding EXCEPT !.epoch = want.epoch, !.owner = want.owner, !.by = h]
      logged == [d EXCEPT !.tx = [rec |-> want, prior |-> d.binding, target |-> target]]
      bound  == [logged EXCEPT !.binding = target]
      stored == [bound EXCEPT !.rec = want]
  IN  <<d, logged, bound, stored, [stored EXCEPT !.tx = None]>>

\* reconcileHandoffTransactionLocked: rolled forward, unless the binding is
\* neither what the transaction found nor what it wants.
CanRecover(d) == d.tx # None => d.binding \in {d.tx.prior, d.tx.target}
\* Mutant of Recovered: the record is rolled forward only when there is none.
RecoveredOnCreate(d) ==
  IF d.tx = None THEN d
  ELSE [d EXCEPT !.tx = None, !.binding = d.tx.target,
                 !.rec = IF @ = None THEN d.tx.rec ELSE @]

Recovered(d) ==
  IF d.tx = None THEN d
  ELSE [d EXCEPT !.tx = None, !.rec = d.tx.rec, !.binding = d.tx.target]

Results(writes) ==
  {[d |-> Last(writes), ok |-> TRUE, bad |-> 0]}
    \cup {[d |-> writes[i], ok |-> FALSE, bad |-> 1] : i \in DOMAIN writes}
Refused(d) == {[d |-> d, ok |-> FALSE, bad |-> 0]}

\* AdvanceHandoff
Advance(h, want) ==
  LET d == Recovered(Disk(h))
      changes == <<want.epoch, want.owner>> # <<d.binding.epoch, d.binding.owner>>
  IN  IF ~CanRecover(Disk(h)) THEN Refused(Disk(h))
      ELSE IF want.epoch < d.rec.epoch \/ (changes /\ want.epoch <= d.binding.epoch)
             THEN Refused(d)
      ELSE IF d.rec = want THEN {[d |-> d, ok |-> TRUE, bad |-> 0]}
      ELSE Results(IF changes THEN Logged(h, d, want) ELSE <<d, [d EXCEPT !.rec = want]>>)

Write(h, d) ==
  /\ rec' = [rec EXCEPT ![h] = d.rec] /\ tx' = [tx EXCEPT ![h] = d.tx]
  /\ binding' = d.binding

-----------------------------------------------------------------------------
(* Handlers.                                                               *)

\* A handler that fails while the daemon starts ends the daemon.
Fails(h) ==
  IF boot = "reconcile" THEN boot' = "down" /\ op' = [g \in Handoffs |-> Idle]
  ELSE op' = [op EXCEPT ![h] = Idle] /\ UNCHANGED boot
Goes(h, pc) == op' = [op EXCEPT ![h].pc = pc] /\ UNCHANGED boot
Ends(h) == op' = [op EXCEPT ![h] = IF op[h].ctl = None THEN Idle ELSE [@ EXCEPT !.pc = "done"]]
             /\ UNCHANGED boot
Runs(h, pc) == op[h].pc = pc

\* s.advance, and what the handler does next; cost is what failed before it.
Advances(h, want, pc, cost) ==
  \E o \in Advance(h, want) :
    /\ Write(h, o.d) /\ Spend(cost + o.bad)
    /\ IF ~o.ok THEN Fails(h) ELSE IF pc = "end" THEN Ends(h) ELSE Goes(h, pc)

Starts(h, pc, k, c) ==
  /\ boot = "up" /\ Runs(h, "idle")
  /\ op' = [op EXCEPT ![h] = [pc |-> pc, ctl |-> k, cli |-> c]] /\ UNCHANGED boot

ProviderUp == pane # "closed"

\* FenceHumanIngress: what becomes of the client and what the caller is told.
\* A call that fails may have made the client read-only.
Fence(c) ==
  IF ~ProviderUp THEN {[cli |-> client[c], says |-> "error", bad |-> 0]}
  ELSE IF client[c] = "gone" THEN {[cli |-> "gone", says |-> "missing", bad |-> 0]}
  ELSE {[cli |-> "ro", says |-> "fenced", bad |-> 0]}
         \cup {[cli |-> s, says |-> "error", bad |-> 1] : s \in {"ro", client[c]}}

\* PrepareReadOnlyLocalControl
Prepared(c) == ProviderUp /\ client[c] = "ro"

\* FenceAgentIngress, whose caller has waited for the mutation lane.
AgentFenced(h) ==
  /\ binding.life = "live" /\ binding.epoch = rec[h].epoch
  /\ binding.owner = "human" /\ pane = "running"

-----------------------------------------------------------------------------
(* The request.                                                            *)

\* preflightAgentOwned and ReserveHandoff; a transaction that is there already
\* is finished.  A record that is there answers a repeated request.
Request(h) ==
  /\ rec[h] = None /\ boot = "up" /\ Runs(h, "idle") /\ binding.epoch < MaxEpoch
  /\ binding.life = "live" /\ binding.owner = "agent" /\ pane = "running"
  /\ LET want == [phase |-> "AGENT_FENCING", epoch |-> binding.epoch + 1, owner |-> "human",
                  agent |-> "unknown", human |-> "fenced", client |-> None,
                  expired |-> FALSE]
         results == IF tx[h] = None THEN Results(Logged(h, Disk(h), want))
                    ELSE IF CanRecover(Disk(h))
                           THEN {[d |-> Recovered(Disk(h)), ok |-> TRUE, bad |-> 0]}
                    ELSE Refused(Disk(h))
     IN  \E o \in results :
           /\ Write(h, o.d) /\ Spend(o.bad)
           /\ op' = [op EXCEPT ![h].pc = IF o.ok THEN "fence" ELSE "idle"]
  /\ UNCHANGED <<granted, ledger, provider, session, boot, todo, crashes>>

RequestAgain(h) ==
  /\ Phase(h) = "AGENT_FENCING" /\ Starts(h, "fence", None, None)
  /\ UNCHANGED <<store, provider, session, todo, counts>>

\* Mutant of AgentFence: the lane is not taken.
AgentFenceUnlocked(h) ==
  /\ op[h].pc \in {"fence", "abort_fence"} /\ AgentFenced(h)
  /\ Advances(h, [rec[h] EXCEPT !.phase = "HUMAN_CONNECTING", !.agent = "fenced"],
              IF Runs(h, "fence") THEN "end" ELSE "abort", 0)
  /\ UNCHANGED <<granted, ledger, provider, session, todo, crashes>>

\* finishAgentFence, which waits for the lane.
AgentFence(h) ==
  /\ op[h].pc \in {"fence", "abort_fence"} /\ lane = "free"
  /\ \/ /\ AgentFenced(h)
        /\ Advances(h, [rec[h] EXCEPT !.phase = "HUMAN_CONNECTING", !.agent = "fenced"],
                    IF Runs(h, "fence") THEN "end" ELSE "abort", 0)
     \/ /\ IF AgentFenced(h) THEN Spend(1) ELSE UNCHANGED faults
        /\ Fails(h) /\ UNCHANGED <<rec, tx, binding>>
  /\ UNCHANGED <<granted, ledger, provider, session, todo, crashes>>

-----------------------------------------------------------------------------
(* The human's client.                                                     *)

\* The attach command starts a read-only client, in its own terminal.
Attach(c) ==
  /\ client[c] = "none" /\ ProviderUp /\ client' = [client EXCEPT ![c] = "ro"]
  /\ UNCHANGED <<store, pane, session, op, boot, todo, counts>>

Detach(c) ==
  /\ client[c] \in {"ro", "rw"} /\ client' = [client EXCEPT ![c] = "gone"]
  /\ UNCHANGED <<store, pane, session, op, boot, todo, counts>>

\* BindLocalHuman, or the reconciliation, for a client.
Bind(h, c) ==
  /\ Phase(h) = "HUMAN_CONNECTING" /\ rec[h].agent = "fenced" /\ rec[h].human = "fenced"
  /\ rec[h].client \in {None, c} /\ Starts(h, "bind", None, c)
  /\ UNCHANGED <<store, provider, session, todo, counts>>

\* The client is bound while it is read-only, or taken as it is when it was
\* bound and granted before.
BindClient(h) ==
  LET c == op[h].cli
      ok == ProviderUp /\ IF rec[h].client = None THEN client[c] = "ro"
                          ELSE client[c] = "ro" \/ (client[c] = "rw" /\ granted)
  IN
  /\ Runs(h, "bind")
  /\ IF ok THEN Advances(h, [rec[h] EXCEPT !.client = c,
                               !.expired = @ /\ rec[h].client # None], "grant", 0)
     ELSE Fails(h) /\ UNCHANGED <<rec, tx, binding, faults>>
  /\ UNCHANGED <<granted, ledger, provider, session, todo, crashes>>

\* MarkHumanWriteAuthorityGranted, of a client yet to be made writable or of one
\* that a reconciliation found writable.
Grant(h) ==
  /\ op[h].pc \in {"grant", "regrant"}
  /\ \/ /\ granted' = TRUE /\ UNCHANGED faults
        /\ Goes(h, IF Runs(h, "grant") THEN "toggle" ELSE "rearm")
     \/ Spend(1) /\ granted' \in {granted, TRUE} /\ Fails(h)
  /\ UNCHANGED <<binding, rec, tx, ledger, provider, session, todo, crashes>>

\* makeHumanWritable.  A check that fails after the toggle leaves the client
\* writable; only a failed key binding makes it read-only again.
MakeHumanWritable(h) ==
  LET c == op[h].cli IN
  /\ Runs(h, "toggle")
  /\ \/ /\ ProviderUp /\ client[c] \in {"ro", "rw"}
        /\ \/ client' = [client EXCEPT ![c] = "rw"] /\ Goes(h, "own") /\ UNCHANGED faults
           \/ /\ Spend(1) /\ Fails(h)
              /\ client' \in {[client EXCEPT ![c] = s] : s \in {"ro", "rw"}}
     \/ /\ ~ProviderUp \/ client[c] \notin {"ro", "rw"}
        /\ Fails(h) /\ UNCHANGED <<client, faults>>
  /\ UNCHANGED <<store, pane, session, todo, crashes>>

Owned(h) == [rec[h] EXCEPT !.phase = "HUMAN_OWNED", !.agent = "fenced",
                           !.human = "writable", !.expired = FALSE]

\* The record says HUMAN_OWNED, or the client is fenced again.
Own(h) ==
  LET c == op[h].cli IN
  /\ Runs(h, "own")
  /\ \E o \in Advance(h, Owned(h)) :
       /\ Write(h, o.d)
       /\ IF o.ok THEN Ends(h) /\ Spend(o.bad) /\ UNCHANGED client
          ELSE \E f \in Fence(c) : /\ Fails(h) /\ Spend(o.bad + f.bad)
                                   /\ client' = [client EXCEPT ![c] = f.cli]
  /\ UNCHANGED <<granted, ledger, pane, session, todo, crashes>>

\* A reconciliation arms the controls of a client that can write and records it;
\* when it fails the client is left as it is.
Rearm(h) ==
  LET c == op[h].cli
      armed == ProviderUp /\ client[c] = "rw"
  IN
  /\ Runs(h, "rearm")
  /\ \/ armed /\ Advances(h, Owned(h), "end", 0)
     \/ /\ Fails(h) /\ UNCHANGED <<rec, tx, binding>>
        /\ IF armed THEN Spend(1) ELSE UNCHANGED faults
  /\ UNCHANGED <<granted, ledger, provider, session, todo, crashes>>

-----------------------------------------------------------------------------
(* The controls of the human and the agent's abort.                        *)

\* ReserveControlSignal: a new control must carry the epoch of the record.
ControlAllowed(kind, phase) ==
  IF kind = "resume" THEN phase \in {"ABORTED", "HUMAN_FENCING", "RECLAIM_PENDING"}
  ELSE phase = "HUMAN_OWNED"

HandlerOf(kind) ==
  CASE kind = "ready" -> "fencing" [] kind = "abort" -> "abort" [] OTHER -> "resume"

Control(h, k, kind) ==
  /\ ledger[k] = None /\ rec[h] # None /\ ControlAllowed(kind, Phase(h))
  /\ kind = "resume" => binding.epoch < MaxEpoch
  /\ ledger' = [ledger EXCEPT ![k] = [handoff |-> h, kind |-> kind,
                                      epoch |-> rec[h].epoch, done |-> FALSE]]
  /\ Starts(h, HandlerOf(kind), k, None)
  /\ UNCHANGED <<binding, rec, tx, granted, provider, session, todo, counts>>

\* The answer was lost: the same control again.  It runs unless it is completed.
ControlAgain(k) ==
  /\ ledger[k] # None /\ ~ledger[k].done
  /\ ledger[k].kind = "resume" => binding.epoch < MaxEpoch
  /\ Starts(ledger[k].handoff, HandlerOf(ledger[k].kind), k, None)
  /\ UNCHANGED <<store, provider, session, todo, counts>>

\* CompleteControlSignal
Complete(h) ==
  /\ Runs(h, "done") /\ op' = [op EXCEPT ![h] = Idle]
  /\ \/ ledger' = [ledger EXCEPT ![op[h].ctl].done = TRUE] /\ UNCHANGED faults
     \/ Spend(1) /\ UNCHANGED ledger
  /\ UNCHANGED <<binding, rec, tx, granted, provider, session, boot, todo, crashes>>

\* persistClientProofBlocked, which fails even when the record is written.
Blocked(h) ==
  [rec[h] EXCEPT !.phase = "RECLAIM_PENDING", !.agent = "fenced", !.human = "unknown",
                 !.expired = FALSE]

Blocks(h, cost) ==
  \E o \in Advance(h, Blocked(h)) : Write(h, o.d) /\ Spend(cost + o.bad) /\ Fails(h)

\* ready: the intent is recorded, the human is fenced, the fence is recorded; the
\* reconciliation of HUMAN_FENCING does the same, also for a client that is gone,
\* and may give up a client it cannot prove.
Ready(h) ==
  /\ Runs(h, "fencing")
  /\ \/ /\ Phase(h) = "AGENT_OWNED" /\ Ends(h)
        /\ UNCHANGED <<rec, tx, binding, client, faults>>
     \/ /\ Phase(h) = "HUMAN_OWNED" /\ UNCHANGED client
        /\ Advances(h, [rec[h] EXCEPT !.phase = "HUMAN_FENCING"], "fencing", 0)
     \/ /\ Phase(h) \notin {"AGENT_OWNED", "HUMAN_OWNED"}
        /\ Phase(h) # "HUMAN_FENCING" \/ rec[h].client = None
        /\ Fails(h) /\ UNCHANGED <<rec, tx, binding, client, faults>>
     \/ /\ Phase(h) = "HUMAN_FENCING" /\ rec[h].human = "fenced" /\ rec[h].client # None
        /\ Goes(h, "reclaim")
        /\ UNCHANGED <<rec, tx, binding, client, faults>>
     \/ /\ Phase(h) = "HUMAN_FENCING" /\ rec[h].human # "fenced" /\ rec[h].client # None
        /\ \E f \in Fence(rec[h].client) :
             /\ client' = [client EXCEPT ![rec[h].client] = f.cli]
             /\ IF f.says = "fenced" \/ (f.says = "missing" /\ boot = "reconcile")
                  THEN Advances(h, [rec[h] EXCEPT !.human = "fenced",
                         !.client = IF f.says = "missing" THEN None ELSE @], "reclaim", f.bad)
                  ELSE \/ Spend(f.bad) /\ Fails(h) /\ UNCHANGED <<rec, tx, binding>>
                       \/ boot = "reconcile" /\ Blocks(h, f.bad)
  /\ UNCHANGED <<granted, ledger, pane, session, todo, crashes>>

\* The rest of ready: authority goes back to the agent.
Reclaim(h) ==
  LET c == rec[h].client
      proven == /\ c # None => Prepared(c) \/ (boot = "reconcile" /\ client[c] = "gone")
                /\ ProviderUp
                /\ binding.epoch = rec[h].epoch /\ binding.owner = "human"
  IN
  /\ Runs(h, "reclaim")
  /\ \/ /\ proven
        /\ Advances(h, [rec[h] EXCEPT !.phase = "AGENT_OWNED", !.epoch = @ + 1,
              !.owner = "agent", !.agent = "writable", !.human = "fenced",
              !.client = IF c # None /\ client[c] = "gone" THEN None ELSE @], "end", 0)
     \/ /\ Fails(h) /\ UNCHANGED <<rec, tx, binding>>
        /\ IF proven THEN Spend(1) ELSE UNCHANGED faults
  /\ UNCHANGED <<granted, ledger, provider, session, todo, crashes>>

\* Abort, by the agent or as a control.
AbortRequested(h) ==
  /\ Phase(h) \in {"AGENT_FENCING", "HUMAN_CONNECTING", "HUMAN_OWNED", "HUMAN_FENCING"}
  /\ Starts(h, IF Phase(h) = "AGENT_FENCING" THEN "abort_fence" ELSE "abort", None, None)
  /\ UNCHANGED <<store, provider, session, todo, counts>>

\* abortLoaded: every client it knows of is fenced and proven read-only first.
Abort(h) ==
  LET c == rec[h].client
      want == [rec[h] EXCEPT !.phase = "ABORTED", !.epoch = @ + 1, !.owner = "none",
                             !.agent = "fenced", !.human = "fenced"]
  IN
  /\ Runs(h, "abort")
  /\ \/ /\ Phase(h) = "ABORTED" /\ Ends(h) /\ UNCHANGED <<rec, tx, binding, client, faults>>
     \/ /\ Phase(h) \in {"RECLAIM_PENDING", "AGENT_OWNED"} /\ Fails(h)
        /\ UNCHANGED <<rec, tx, binding, client, faults>>
     \/ /\ Phase(h) \in {"HUMAN_CONNECTING", "HUMAN_OWNED", "HUMAN_FENCING"}
        /\ IF c = None THEN Advances(h, want, "end", 0) /\ UNCHANGED client
           ELSE IF rec[h].human = "fenced"
             THEN /\ UNCHANGED client
                  /\ IF Prepared(c) THEN Advances(h, want, "end", 0)
                     ELSE Fails(h) /\ UNCHANGED <<rec, tx, binding, faults>>
           ELSE \E f \in Fence(c) :
                  /\ client' = [client EXCEPT ![c] = f.cli]
                  /\ IF f.says = "fenced" THEN Advances(h, want, "end", f.bad)
                     ELSE Spend(f.bad) /\ Fails(h) /\ UNCHANGED <<rec, tx, binding>>
  /\ UNCHANGED <<granted, ledger, pane, session, todo, crashes>>

\* resume: back to HUMAN_CONNECTING, for a client that is yet to come.
Resume(h) ==
  /\ Runs(h, "resume")
  /\ IF Phase(h) = "ABORTED" /\ ~rec[h].expired
       THEN Advances(h, [rec[h] EXCEPT !.phase = "HUMAN_CONNECTING", !.epoch = @ + 1,
              !.owner = "human", !.agent = "fenced", !.human = "fenced", !.client = None],
              "end", 0)
       ELSE /\ IF Phase(h) = "HUMAN_CONNECTING" /\ ~rec[h].expired THEN Ends(h) ELSE Fails(h)
            /\ UNCHANGED <<rec, tx, binding, faults>>
  /\ UNCHANGED <<granted, ledger, provider, session, todo, crashes>>

-----------------------------------------------------------------------------
(* Expiry.                                                                 *)

\* Mutant of Expire: a human who is connected is not interrupted.
ExpireUnattended(h) ==
  /\ boot = "up" /\ Runs(h, "idle") /\ tx[h] = None
  /\ Phase(h) \in {"AGENT_FENCING", "HUMAN_CONNECTING"}
  /\ Advances(h, [rec[h] EXCEPT !.phase = "RECLAIM_PENDING", !.epoch = @ + 1,
            !.owner = "none", !.expired = TRUE], "expire", 0)
  /\ UNCHANGED <<granted, ledger, provider, session, todo, crashes>>

\* Expire revokes the authority durably before it touches the provider.
Expire(h) ==
  LET d == Recovered(Disk(h))
      again == d.rec.expired /\ d.rec.phase = "RECLAIM_PENDING" /\ d.rec.owner = "none"
  IN
  /\ boot = "up" /\ Runs(h, "idle")
  /\ Phase(h) \notin {"none", "AGENT_OWNED", "ABORTED"} /\ CanRecover(Disk(h))
  /\ IF d.rec.phase \in {"AGENT_OWNED", "ABORTED"}
       THEN Write(h, d) /\ Ends(h) /\ UNCHANGED faults
     ELSE IF again THEN Write(h, d) /\ Goes(h, "expire") /\ UNCHANGED faults
     ELSE Advances(h, [d.rec EXCEPT !.phase = "RECLAIM_PENDING", !.epoch = @ + 1,
            !.owner = "none", !.expired = TRUE,
            !.agent = IF @ = "writable" THEN "unknown" ELSE @], "expire", 0)
  /\ UNCHANGED <<granted, ledger, provider, session, todo, crashes>>

\* finishExpiryLocked: fence whom it can; both fenced makes the handoff ABORTED,
\* anything else is an error, to be tried again.
FinishExpiry(h) ==
  LET c == rec[h].client
      agent == IF rec[h].agent = "fenced" \/ AgentFenced(h) THEN "fenced" ELSE "unknown"
      Finish(human, left, cost) ==
        LET over == agent = "fenced" /\ human = "fenced"
            want == [rec[h] EXCEPT !.agent = agent, !.human = human, !.client = left,
                       !.phase = IF over THEN "ABORTED" ELSE "RECLAIM_PENDING"]
        IN  \E o \in IF want # rec[h] THEN Advance(h, want) ELSE Refused(Disk(h)) :
              /\ Write(h, o.d) /\ Spend(cost + o.bad)
              /\ IF o.ok /\ over THEN Ends(h) ELSE Fails(h)
  IN
  /\ Runs(h, "expire") /\ (rec[h].agent # "fenced" => lane = "free")
  /\ IF c = None
       THEN Finish(IF rec[h].human = "fenced" THEN "fenced" ELSE "unknown", None, 0)
              /\ UNCHANGED client
     ELSE IF rec[h].human = "fenced"
       THEN Finish("fenced", IF ProviderUp /\ client[c] = "gone" THEN None ELSE c, 0)
              /\ UNCHANGED client
     ELSE \E f \in Fence(c) :
            /\ client' = [client EXCEPT ![c] = f.cli]
            /\ Finish(IF f.says = "error" THEN "unknown" ELSE "fenced",
                      IF f.says = "missing" THEN None ELSE c, f.bad)
  /\ UNCHANGED <<granted, ledger, pane, session, todo, crashes>>

-----------------------------------------------------------------------------
(* The agent and the session.                                              *)

\* admitDelegatedMutation: the record is reserved under the current epoch.
AgentAdmits ==
  /\ boot = "up" /\ lane = "free" /\ pane = "running" /\ fin = None
  /\ binding.life = "live" /\ binding.owner = "agent" /\ lane' = "agent"
  /\ UNCHANGED <<store, provider, unresolved, fin, op, boot, todo, counts>>

\* The provider has taken the input, and the record is completed.
AgentDelivers ==
  /\ lane = "agent" /\ lane' = "free"
  /\ \/ UNCHANGED <<unresolved, faults>>
     \/ Spend(1) /\ unresolved' = TRUE
  /\ UNCHANGED <<store, provider, fin, op, boot, todo, crashes>>

SessionEnds ==
  /\ SessionMayEnd /\ pane = "running" /\ pane' = "dead"
  /\ UNCHANGED <<store, client, session, op, boot, todo, counts>>

\* delegatedWaitLoop loads the binding, publishes the receipt, and closes the
\* binding it loaded.
TerminalLoads ==
  /\ boot = "up" /\ pane = "dead" /\ fin = None /\ fin' = binding
  /\ UNCHANGED <<store, provider, lane, unresolved, op, boot, todo, counts>>

Closes(b) ==
  /\ binding' = [b EXCEPT !.life = "terminal"]
  /\ pane' = "closed" /\ client' = [c \in Clients |-> IF client[c] = "none" THEN "none" ELSE "gone"]

\* AdvanceDelegatedBinding refuses a binding of an older epoch, and is tried
\* again with the same binding.
TerminalCloses ==
  /\ fin # None /\ fin.epoch >= binding.epoch /\ Closes(fin) /\ fin' = None
  /\ UNCHANGED <<rec, tx, granted, ledger, lane, unresolved, op, boot, todo, counts>>

-----------------------------------------------------------------------------
(* Crash and startup.                                                      *)

\* The tmux server and its clients live on.
Crash ==
  /\ boot # "down" /\ crashes < MaxCrashes /\ crashes' = crashes + 1
  /\ boot' = "down" /\ op' = [h \in Handoffs |-> Idle] /\ lane' = "free" /\ fin' = None
  /\ unresolved' = (unresolved \/ lane = "agent") /\ todo' = {}
  /\ UNCHANGED <<store, provider, faults>>

\* The store rolls the transactions forward; one that does not fit keeps the
\* daemon down.
Pending == {h \in Handoffs : tx[h] # None}

BootRecovers(h) ==
  /\ boot = "down" /\ h \in Pending /\ CanRecover(Disk(h))
  /\ \E d \in {Recovered(Disk(h))} : Write(h, d)
  /\ UNCHANGED <<granted, ledger, provider, session, op, boot, todo, counts>>

\* ReconcileDelegatedStartup: a live session is attached again, unless one of
\* its mutations is unresolved; one that ended is closed.
BootAttaches ==
  /\ boot = "down" /\ Pending = {} /\ (binding.life = "live" => ~unresolved)
  /\ boot' = "reconcile" /\ todo' = {h \in Handoffs : Phase(h) \notin {"none", "AGENT_OWNED"}}
  /\ IF binding.life = "live" /\ pane = "dead" THEN Closes(binding)
     ELSE UNCHANGED <<binding, client, pane>>
  /\ UNCHANGED <<rec, tx, granted, ledger, session, op, counts>>

\* persistConnectingWithoutClient
WithoutClient(h) ==
  [rec[h] EXCEPT !.phase = "HUMAN_CONNECTING", !.agent = "fenced", !.human = "fenced",
                 !.client = None, !.expired = FALSE]
\* Reconcile, by phase.  Those that act on the provider check first that the
\* session is live and the binding agrees with the record.
Reconcile(h) ==
  LET c == rec[h].client
      Agrees == binding.life = "live" /\ binding.epoch = rec[h].epoch
                  /\ binding.owner = rec[h].owner
      Goto(pc, x) == /\ op' = [op EXCEPT ![h] = [Idle EXCEPT !.pc = pc, !.cli = x]]
                     /\ UNCHANGED <<rec, tx, binding, client, faults, boot>>
      Stays(cost) == Spend(cost) /\ UNCHANGED <<rec, tx, binding, op, boot>>
      Error(cost) == Spend(cost) /\ Fails(h) /\ UNCHANGED <<rec, tx, binding>>
      Persist(want, cost) == Advances(h, want, "end", cost)
      Untouched == UNCHANGED client
      Fenced(f) == client' = [client EXCEPT ![c] = f.cli]
  IN
  /\ boot = "reconcile" /\ h \in todo /\ Runs(h, "idle") /\ todo' = todo \ {h}
  /\ CASE Phase(h) = "AGENT_FENCING" -> Goto("fence", None)
       [] Phase(h) \in {"HUMAN_FENCING", "HUMAN_OWNED"} /\ c = None -> Blocks(h, 0) /\ Untouched
       [] Phase(h) = "HUMAN_FENCING" /\ c # None ->
            IF Agrees THEN Goto("fencing", None) ELSE Error(0) /\ Untouched
       [] Phase(h) = "HUMAN_CONNECTING" ->
            \/ ~Agrees /\ Error(0) /\ Untouched
            \/ Agrees /\ Error(1) /\ Untouched
            \/ Agrees /\ c = None /\ Stays(0) /\ Untouched
            \/ Agrees /\ c # None /\ Blocks(h, 1) /\ Untouched
            \/ /\ Agrees /\ c # None
               /\ IF client[c] = "gone" THEN Persist(WithoutClient(h), 0) /\ Untouched
                  ELSE Goto(IF client[c] = "ro" THEN "bind" ELSE "regrant", c)
       [] Phase(h) = "HUMAN_OWNED" /\ c # None ->
            \/ ~Agrees /\ Error(0) /\ Untouched
            \/ Agrees /\ (Error(1) \/ Blocks(h, 1)) /\ Untouched
            \/ /\ Agrees /\ Untouched
               /\ IF client[c] = "rw" THEN Stays(0) ELSE Persist(WithoutClient(h), 0)
            \* the controls of the client cannot be armed: it is fenced
            \/ /\ Agrees /\ client[c] = "rw"
               /\ \E f \in Fence(c) :
                    /\ Fenced(f)
                    /\ IF f.says = "fenced" THEN Persist(WithoutClient(h), 1)
                       ELSE Blocks(h, 1 + f.bad)
       [] Phase(h) = "RECLAIM_PENDING" ->
            IF rec[h].expired /\ rec[h].owner = "none" THEN Goto("expire", None)
            ELSE IF rec[h].owner # "human" \/ c = None THEN Stays(0) /\ Untouched
            ELSE IF ~Agrees THEN Error(0) /\ Untouched
            ELSE \/ Stays(1) /\ Untouched
                 \/ IF client[c] = "rw" THEN Goto("regrant", c)
                    ELSE Persist(WithoutClient(h), 0) /\ Untouched
       [] Phase(h) = "ABORTED" ->
            IF c = None THEN Stays(0) /\ Untouched
            ELSE IF ~Agrees THEN Error(0) /\ Untouched
            ELSE IF client[c] = "gone" THEN Persist([rec[h] EXCEPT !.client = None], 0) /\ Untouched
            ELSE \/ Blocks(h, 1) /\ Untouched
                 \/ \E f \in Fence(c) :
                      /\ Fenced(f)
                      /\ IF f.says = "fenced" THEN Stays(0) \/ Error(1) ELSE Blocks(h, f.bad)
  /\ UNCHANGED <<granted, ledger, pane, session, crashes>>

BootReady ==
  /\ boot = "reconcile" /\ todo = {} /\ \A h \in Handoffs : Runs(h, "idle")
  /\ boot' = "up"
  /\ UNCHANGED <<store, provider, session, op, todo, counts>>

-----------------------------------------------------------------------------
Handler(h) ==
  \/ AgentFence(h) \/ BindClient(h) \/ Grant(h) \/ MakeHumanWritable(h) \/ Own(h)
  \/ Rearm(h)
  \/ Ready(h) \/ Reclaim(h) \/ Abort(h) \/ Resume(h) \/ FinishExpiry(h) \/ Complete(h)

Startup ==
  \/ BootAttaches \/ BootReady
  \/ \E h \in Handoffs : BootRecovers(h) \/ Reconcile(h)

Next ==
  \/ \E h \in Handoffs :
       \/ Request(h) \/ RequestAgain(h) \/ AbortRequested(h) \/ Expire(h) \/ Handler(h)
       \/ \E c \in Clients : Bind(h, c)
       \/ \E k \in Controls, kind \in Kinds : Control(h, k, kind)
  \/ \E k \in Controls : ControlAgain(k)
  \/ \E c \in Clients : Attach(c) \/ Detach(c)
  \/ AgentAdmits \/ AgentDelivers \/ SessionEnds \/ TerminalLoads \/ TerminalCloses
  \/ Crash \/ Startup

Spec == Init /\ [][Next]_vars

\* Handlers run, a mutation comes back from the provider, the expiry loop looks
\* at every handoff again and again, and a daemon that stopped is started.
Fairness ==
  /\ \A h \in Handoffs : WF_vars(Handler(h)) /\ SF_vars(Expire(h))
  /\ WF_vars(AgentDelivers) /\ WF_vars(TerminalLoads) /\ WF_vars(TerminalCloses)
  /\ WF_vars(Startup)

FairSpec == Spec /\ Fairness

-----------------------------------------------------------------------------
(* Properties.                                                             *)

Writable == {c \in Clients : client[c] = "rw"}

\* "At most one ... actor class has admitted writable interactive input authority
\* at a time": while the agent's input is on its way to the terminal, or the
\* agent is the owner, no client of the human can write, whatever failed or
\* crashed on the way (FenceAgentIngress, makeHumanWritable, Reclaim).
OneWriter == lane = "agent" \/ binding.owner = "agent" => Writable = {}

\* At most one handoff without a pending transaction holds the session, and its
\* record names the owner and the epoch that the binding names.
Holding == {h \in Handoffs : tx[h] = None /\ Phase(h) \notin {"none", "AGENT_OWNED"}}
OwnersAgree ==
  /\ Cardinality(Holding) <= 1
  /\ \A h \in Holding : rec[h].epoch = binding.epoch /\ rec[h].owner = binding.owner

Settled(h) == Phase(h) \in {"none", "AGENT_OWNED", "ABORTED"}

\* An expired handoff whose fence can never be proven: the agent's, because only
\* the owner "human" of AGENT_FENCING is fenced, or that of a human whose client is
\* not known any more.
Stranded(h) ==
  /\ Phase(h) = "RECLAIM_PENDING" /\ rec[h].expired /\ rec[h].owner = "none"
  /\ rec[h].agent # "fenced" \/ (rec[h].human # "fenced" /\ rec[h].client = None)

\* A transaction that a failed write left and that another handoff has overtaken:
\* its own handoff cannot go on, and no daemon starts over it.
Overtaken(h) == ~CanRecover(Disk(h))
Barred(h) == Overtaken(h) \/ (boot = "down" /\ \E g \in Handoffs : Overtaken(g))

\* While the session lives and no input of the agent is in doubt, every handoff
\* ends, through failed calls and crashes: the agent has the session back, or the
\* handoff is aborted; nothing stops it but an overtaken transaction and the two
\* fences that expiry can never prove.
HandoffSettles ==
  [](~unresolved /\ pane = "running")
    => \A h \in Handoffs : []<>(Settled(h) \/ Stranded(h) \/ Barred(h))

-----------------------------------------------------------------------------
(* What the design says and the code does not do.                          *)

\* "Pending handoffs have a bounded TTL" and "at most one ... actor class": an
\* aborted handoff leaves nobody with a writable client.
AbortedIsFenced ==
  \A h \in Handoffs : Phase(h) = "ABORTED" /\ Runs(h, "idle") /\ boot = "up"
                        => Writable = {}

\* "A stale ready/resume from an older handoff cannot complete a later
\* generation".
StaleControlIsRefused ==
  [][\A h \in Handoffs :
       op[h].ctl # None /\ Phase(h) = "HUMAN_OWNED" /\ Phase(h)' = "HUMAN_FENCING"
         => ledger[op[h].ctl].epoch = rec[h].epoch]_vars

\* A daemon that stopped can be started again.
DaemonComesBack == (boot = "down" /\ ~unresolved) ~> (boot = "up")

\* The binding of a session that ended is closed.
TerminalConverges == (pane = "dead") ~> (binding.life = "terminal")
=============================================================================
