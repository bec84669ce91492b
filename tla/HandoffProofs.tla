--------------------------- MODULE HandoffProofs ---------------------------
(* Theorems about Handoff.  The hard part is a store call that stops between   *)
(* its writes while other handoffs, the agent's input and the end of the       *)
(* session go on.  IInv has these parts:                                       *)
(*   Storing   a record without a transaction is the one the binding names; a  *)
(*             transaction is at one of its writes, or it is lost: the binding *)
(*             has moved past it and it can never be rolled forward;           *)
(*   Laning    while input of the agent is under way no record in force, and   *)
(*             no transaction that can still win, says the agent is fenced;    *)
(*   Watching  a client that can write is the one that the handoff in charge   *)
(*             knows of, which no transaction under way forgets;               *)
(*   Handling  what the handler of a handoff knows of its record;              *)
(*   Booting   what holds while the daemon is down or starting, and of the     *)
(*             binding that the end of the session has loaded.                 *)
(* A call of AdvanceHandoff that is Safe keeps Storing, Laning and Watching    *)
(* wherever it stops (AdvanceStep), so an action is checked by showing that    *)
(* what it asks for is safe.  The theorems hold for any number of handoffs,    *)
(* clients, controls, crashes and faults.                                      *)
EXTENDS Handoff, FiniteSetTheorems, TLAPS

\* What the phase of a record says of its owner and of the two sides.
Shape(r) ==
  /\ r.phase = "AGENT_FENCING" => r.owner = "human" /\ r.agent = "unknown" /\ r.human = "fenced"
                                    /\ r.client = None
  /\ r.phase \in {"HUMAN_CONNECTING", "HUMAN_OWNED", "HUMAN_FENCING"}
       => r.owner = "human" /\ r.agent = "fenced"
  /\ r.phase = "HUMAN_CONNECTING" => r.human = "fenced"
  /\ r.phase = "HUMAN_OWNED" => r.client # None
  /\ r.phase = "RECLAIM_PENDING" => /\ r.owner # "agent"
                                    /\ r.owner = "human" => r.agent = "fenced"
  /\ r.phase = "ABORTED" => r.owner = "none" /\ r.agent = "fenced" /\ r.human = "fenced"
  /\ r.phase = "AGENT_OWNED" => r.owner = "agent" /\ r.agent = "writable"

\* The record of the handoff is the one the binding names.
Matches(h, r, b) ==
  r.phase # "AGENT_OWNED" /\ b.by = h /\ b.epoch = r.epoch /\ b.owner = r.owner

\* The binding is neither what the transaction found nor what it wants, and will
\* not be again.
Lost(t, b) ==
  \/ b.life = "terminal" /\ t.prior.life = "live"
  \/ b.epoch > t.prior.epoch /\ (b.epoch > t.target.epoch \/ b.by # t.target.by)

\* A transaction: what it wants, and where its writes have come to.
Logs(h, r, t, b) ==
  /\ t.target = [t.prior EXCEPT !.epoch = t.rec.epoch, !.owner = t.rec.owner, !.by = h]
  /\ t.rec.epoch = t.prior.epoch + 1 /\ t.prior.epoch <= b.epoch
  /\ b \in {t.prior, t.target} \/ Lost(t, b)
  /\ \/ r = t.rec /\ b.epoch > t.prior.epoch
     \/ r = None /\ t.rec.phase = "AGENT_FENCING" /\ t.prior.owner = "agent"
     \/ /\ r # None /\ Matches(h, r, t.prior) /\ t.rec.phase # "AGENT_FENCING"
        /\ r.agent = "fenced" => t.rec.agent = "fenced" \/ t.rec.phase = "AGENT_OWNED"

\* What the store holds of a handoff: its record, its transaction, the binding.
Stored(h, r, t, b) ==
  /\ r # None => Shape(r)
  /\ t # None => Shape(t.rec) /\ Logs(h, r, t, b)
  /\ t = None /\ r # None => r.phase = "AGENT_OWNED" \/ Matches(h, r, b)
\* What the store holds of every handoff.
Storing == \A h \in Handoffs : Stored(h, rec[h], tx[h], binding)

\* While input of the agent is on its way no record says that the agent is fenced.
Unfenced(h, r, t, b) ==
  /\ r # None /\ Matches(h, r, b) => r.agent # "fenced"
  /\ t # None /\ ~Lost(t, b) => t.rec.agent # "fenced"
\* Input is under way only in a daemon that is up.
Laning ==
  /\ lane = "agent" => boot = "up" /\ \A h \in Handoffs : Unfenced(h, rec[h], tx[h], binding)

\* A client that can write is the one that the handoff in charge knows of.
Carries(r, c) ==
  r.client = c /\ r.phase # "AGENT_OWNED" /\ (r.phase = "ABORTED" => r.expired)
\* The handoff in charge knows of the client, and its transaction does too.
Known(c) ==
  /\ lane = "free" /\ binding.owner # "agent" /\ binding.by \in Handoffs /\ pane # "closed"
  /\ rec[binding.by] # None /\ Carries(rec[binding.by], c)
  /\ tx[binding.by] # None => tx[binding.by].rec.phase = "RECLAIM_PENDING"
                                /\ Carries(tx[binding.by].rec, c)
\* Every client that can write is known.
Watching == \A c \in Clients : client[c] = "rw" => Known(c)

\* What a handler knows of its record, which nobody else changes.
Handles(h) ==
  /\ op[h].pc \in {"fence", "abort_fence"} => Phase(h) = "AGENT_FENCING"
  /\ op[h].pc = "bind" => /\ Phase(h) = "HUMAN_CONNECTING" /\ op[h].cli \in Clients
                          /\ rec[h].client \in {None, op[h].cli}
  /\ op[h].pc \in {"grant", "toggle", "own", "regrant", "rearm"} =>
       /\ tx[h] = None /\ op[h].cli \in Clients
       /\ \/ Phase(h) = "HUMAN_CONNECTING"
          \/ Phase(h) = "RECLAIM_PENDING" /\ rec[h].owner = "human"
       /\ rec[h].client = op[h].cli
  /\ op[h].pc = "reclaim" => Phase(h) = "HUMAN_FENCING"
  /\ op[h].pc = "expire" => /\ tx[h] = None /\ Phase(h) = "RECLAIM_PENDING"
                            /\ rec[h].owner = "none" /\ rec[h].expired
  /\ op[h].ctl # None => ledger[op[h].ctl] # None
  /\ op[h].pc = "done" => op[h].ctl # None
\* What every handler knows.
Handling == \A h \in Handoffs : Handles(h)

\* Nothing runs in a daemon that is down; one that starts has no transaction left.
Booting ==
  /\ boot = "down" => \A h \in Handoffs : op[h].pc = "idle"
  /\ boot = "reconcile" =>
       /\ \A h \in Handoffs : tx[h] = None
       /\ \A h \in todo : op[h].pc = "idle" /\ Phase(h) \notin {"none", "AGENT_OWNED"}
  /\ fin # None => /\ boot = "up" /\ pane = "dead" /\ fin.epoch <= binding.epoch
                   /\ fin.epoch = binding.epoch => fin = binding
  /\ pane = "closed" <=> binding.life = "terminal"

\* The inductive invariant.
IInv ==
  /\ TypeOK /\ Storing /\ Laning /\ Watching /\ Handling /\ Booting

\* A handler may run.
Awake(h) == boot # "down" /\ (boot = "reconcile" => h \notin todo)

USE DEF store, provider, session, counts, Awake

\* What the store holds of one handoff.
Disks == [rec : States \cup {None}, tx : Txs \cup {None}, binding : Bindings]

\* What the writes of a handoff may do to the binding: it is left alone, or taken
\* further by the handoff that has it or that takes it from the agent.
Taken(h, b, n) ==
  n = b \/ (n.epoch > b.epoch /\ n.by = h /\ n.life = b.life /\ (b.by = h \/ b.owner = "agent"))

\* None is not a value.
LEMMA NoneIsNothing ==
  /\ None \notin States /\ None \notin Txs /\ None \notin Signals /\ None \notin Bindings
  /\ None \notin Handoffs /\ None \notin Clients /\ None \notin Controls
BY NoneAssumption, HandoffAssumption

\* The fields of records, transactions and bindings.
LEMMA Fields ==
  /\ \A r \in States : /\ r.epoch \in Nat /\ r.owner \in Owners /\ r.agent \in Ingress
        /\ r.human \in Ingress
                       /\ r.client \in Clients \cup {None} /\ r.expired \in BOOLEAN /\ Valid(r)
  /\ \A b \in Bindings : /\ b.epoch \in Nat /\ b.owner \in Owners
        /\ b.life \in {"live", "terminal"}
                         /\ b.by \in Handoffs \cup {None}
  /\ \A t \in Txs : t.rec \in States /\ t.prior \in Bindings /\ t.target \in Bindings
<1>1. \A r \in States : /\ r.epoch \in Nat /\ r.owner \in Owners /\ r.agent \in Ingress
                        /\ r.human \in Ingress
                        /\ r.client \in Clients \cup {None} /\ r.expired \in BOOLEAN /\ Valid(r)
  BY DEF States
<1>2. \A b \in Bindings : /\ b.epoch \in Nat /\ b.owner \in Owners
         /\ b.life \in {"live", "terminal"}
                          /\ b.by \in Handoffs \cup {None}
  BY DEF Bindings
<1>3. \A t \in Txs : t.rec \in States /\ t.prior \in Bindings /\ t.target \in Bindings
  BY DEF Txs
<1> QED BY <1>1, <1>2, <1>3

\* A binding is taken step by step.
LEMMA TakenTwice ==
  ASSUME NEW h, NEW a \in Bindings, NEW b \in Bindings, NEW n \in Bindings, Taken(h, a, b),
         Taken(h, b, n)
  PROVE  Taken(h, a, n)
<1>1. a.epoch \in Nat /\ b.epoch \in Nat /\ n.epoch \in Nat BY Fields
<1> QED BY <1>1 DEF Taken

\* The disk of a handoff is what the invariant says of it.
LEMMA DiskType ==
  ASSUME TypeOK, NEW h \in Handoffs
  PROVE  /\ Disk(h) \in Disks /\ Disk(h).rec = rec[h] /\ Disk(h).tx = tx[h]
               /\ Disk(h).binding = binding
BY DEF TypeOK, Disk, Disks

\* A lost transaction is one that cannot be recovered, and stays lost.
LEMMA LostStays ==
  ASSUME NEW h \in Handoffs, NEW g, NEW r, NEW t \in Txs, NEW b \in Bindings,
         NEW n \in Bindings,
         Logs(h, r, t, b), Lost(t, b),
         \/ Taken(g, b, n)
         \/ n = [b EXCEPT !.life = "terminal"],
         g # h \/ n.by = b.by
  PROVE  Lost(t, n)
<1>1. /\ t.prior.epoch \in Nat /\ t.target.epoch \in Nat /\ b.epoch \in Nat /\ n.epoch \in Nat
      /\ b.life \in {"live", "terminal"}
  BY Fields
<1>2. t.target.by = h BY Fields DEF Logs, Bindings
<1>3. CASE Taken(g, b, n) BY <1>1, <1>2, <1>3 DEF Lost, Taken
<1>4. CASE n = [b EXCEPT !.life = "terminal"]
  <2>1. n.epoch = b.epoch /\ n.by = b.by /\ n.life = "terminal" BY <1>4 DEF Bindings
  <2> QED BY <1>1, <2>1 DEF Lost
<1> QED BY <1>3, <1>4

\* A transaction that can be recovered is not lost.
LEMMA RecoverableIsNotLost ==
  ASSUME NEW h \in Handoffs, NEW r, NEW t \in Txs, NEW b \in Bindings, Logs(h, r, t, b)
  PROVE  /\ Lost(t, b) <=> b \notin {t.prior, t.target}
         /\ t.target.by = h /\ t.target.epoch = t.rec.epoch /\ t.target.owner = t.rec.owner
         /\ t.target.life = t.prior.life /\ t.target.epoch = t.prior.epoch + 1
<1>1. t.target.by = h /\ t.target.epoch = t.rec.epoch /\ t.target.owner = t.rec.owner
         /\ t.target.life = t.prior.life
  BY Fields DEF Logs, Bindings
<1>2. t.rec.epoch = t.prior.epoch + 1 /\ t.prior.epoch \in Nat BY Fields DEF Logs
<1>3. Lost(t, b) => b # t.prior /\ b # t.target BY <1>1, <1>2 DEF Lost
<1>4. Lost(t, b) \/ b \in {t.prior, t.target} BY DEF Logs
<1> QED BY <1>1, <1>2, <1>3, <1>4

\* Recovery leaves a record that matches the binding.
LEMMA RecoveredDisk ==
  ASSUME NEW h \in Handoffs, NEW d \in Disks, Stored(h, d.rec, d.tx, d.binding), CanRecover(d),
         NEW e, e = Recovered(d)
  PROVE  /\ e \in Disks /\ e.tx = None /\ Stored(h, e.rec, e.tx, e.binding)
         /\ Taken(h, d.binding, e.binding)
         /\ d.tx = None => e = d
         /\ d.tx # None => e.rec = d.tx.rec /\ e.binding = d.tx.target
         /\ Unfenced(h, d.rec, d.tx, d.binding) => Unfenced(h, e.rec, e.tx, e.binding)
<1> USE NoneIsNothing
<1>1. CASE d.tx = None
  <2>1. e = d BY <1>1 DEF Recovered
  <2>2. d.binding \in Bindings BY DEF Disks
  <2> QED BY <1>1, <2>1 DEF Taken
<1>2. CASE d.tx # None
  <2> DEFINE t == d.tx
  <2>1. t \in Txs /\ d.binding \in Bindings BY <1>2 DEF Disks
  <2>2. e = [d EXCEPT !.tx = None, !.rec = t.rec, !.binding = t.target] BY <1>2 DEF Recovered
  <2>3. t.rec \in States /\ t.prior \in Bindings /\ t.target \in Bindings BY <2>1, Fields
  <2>4. e.tx = None /\ e.rec = t.rec /\ e.binding = t.target /\ e \in Disks
    BY <2>2, <2>3 DEF Disks
  <2>5. Shape(t.rec) /\ Logs(h, d.rec, t, d.binding) BY <1>2 DEF Stored
  <2>6. d.binding \in {t.prior, t.target} BY <1>2 DEF CanRecover
  <2>7. /\ t.target.by = h /\ t.target.epoch = t.rec.epoch /\ t.target.owner = t.rec.owner
        /\ t.target.life = t.prior.life /\ t.target.epoch = t.prior.epoch + 1
        /\ ~Lost(t, d.binding)
    BY <2>1, <2>5, <2>6, RecoverableIsNotLost
  <2>8. Stored(h, e.rec, e.tx, e.binding) BY <2>4, <2>5, <2>7 DEF Stored, Matches
  <2>9. t.prior.epoch \in Nat BY <2>3, Fields
  <2>10. Taken(h, d.binding, e.binding)
    <3>1. t.prior.by = h \/ t.prior.owner = "agent" \/ d.binding = t.target
      BY <2>5, <2>6, <2>9 DEF Logs, Matches
    <3> QED BY <2>4, <2>6, <2>7, <2>9, <3>1 DEF Taken
  <2>11. Unfenced(h, d.rec, d.tx, d.binding) => Unfenced(h, e.rec, e.tx, e.binding)
    BY <1>2, <2>4, <2>7 DEF Unfenced
  <2> QED BY <1>2, <2>4, <2>8, <2>10, <2>11
<1> QED BY <1>1, <1>2

\* A handoff may log a record: it has the binding, or takes it from the agent.
MayLog(h, d, want) ==
  /\ want.epoch = d.binding.epoch + 1
  /\ \/ d.rec = None /\ want.phase = "AGENT_FENCING" /\ d.binding.owner = "agent"
     \/ /\ d.rec # None /\ Matches(h, d.rec, d.binding) /\ want.phase # "AGENT_FENCING"
        /\ d.rec.agent = "fenced" => want.agent = "fenced" \/ want.phase = "AGENT_OWNED"

\* What a call of the store leaves behind, wherever it stops.
Leaves(h, d, want, o) ==
  /\ o.d \in Disks /\ Stored(h, o.d.rec, o.d.tx, o.d.binding)
  /\ Taken(h, d.binding, o.d.binding)
  /\ o.ok \in BOOLEAN /\ o.bad \in {0, 1} /\ (o.ok => o.d.rec = want /\ o.d.tx = None)
  /\ o.d.rec \in {d.rec, want} /\ (o.d.tx # None => o.d.tx.rec = want)
  /\ o.d.binding = d.binding \/ o.d.binding.owner = want.owner
  /\ Unfenced(h, d.rec, d.tx, d.binding) /\ want.agent # "fenced"
       => Unfenced(h, o.d.rec, o.d.tx, o.d.binding)

\* The stages of a logged change.
LEMMA LoggedDisk ==
  ASSUME NEW h \in Handoffs, NEW d \in Disks, d.tx = None, Stored(h, d.rec, d.tx, d.binding),
         NEW want \in States, Shape(want), MayLog(h, d, want),
         NEW o \in Results(Logged(h, d, want))
  PROVE  Leaves(h, d, want, o)
<1> USE NoneIsNothing
<1> DEFINE target == [d.binding EXCEPT !.epoch = want.epoch, !.owner = want.owner, !.by = h]
           t      == [rec |-> want, prior |-> d.binding, target |-> target]
           logged == [d EXCEPT !.tx = t]
           bound  == [logged EXCEPT !.binding = target]
           stored == [bound EXCEPT !.rec = want]
           final  == [stored EXCEPT !.tx = None]
           writes == <<d, logged, bound, stored, final>>
<1>1. Logged(h, d, want) = writes BY DEF Logged
<1>2. \/ o = [d |-> final, ok |-> TRUE, bad |-> 0]
      \/ \E x \in {d, logged, bound, stored, final} : o = [d |-> x, ok |-> FALSE, bad |-> 1]
  <2>1. Last(writes) = final BY DEF Last
  <2>2. \A i \in DOMAIN writes : writes[i] \in {d, logged, bound, stored, final} OBVIOUS
  <2> HIDE DEF writes, final, stored, bound, logged
  <2> QED BY <1>1, <2>1, <2>2 DEF Results
<1>3. d.binding \in Bindings /\ d.binding.epoch \in Nat /\ want.epoch \in Nat
         /\ want.owner \in Owners
  BY Fields DEF Disks
<1>4. /\ target \in Bindings /\ target.epoch = want.epoch /\ target.owner = want.owner
      /\ target.by = h /\ target.life = d.binding.life
  BY <1>3 DEF Bindings
<1> HIDE DEF target
<1>5. t \in Txs /\ t.rec = want /\ t.prior = d.binding /\ t.target = target
  BY <1>3, <1>4 DEF Txs
<1>6. t.target = [t.prior EXCEPT !.epoch = t.rec.epoch, !.owner = t.rec.owner, !.by = h]
  BY <1>5 DEF target
<1> HIDE DEF t
<1>7. want.epoch = d.binding.epoch + 1 BY DEF MayLog
<1>8. d.rec \in States \cup {None} BY DEF Disks
<1>9. Logs(h, d.rec, t, d.binding) /\ Logs(h, d.rec, t, target) /\ Logs(h, want, t, target)
  BY <1>3, <1>4, <1>5, <1>6, <1>7 DEF Logs, MayLog
<1>10. /\ logged \in Disks /\ logged.rec = d.rec /\ logged.tx = t /\ logged.binding = d.binding
       /\ bound \in Disks /\ bound.rec = d.rec /\ bound.tx = t /\ bound.binding = target
       /\ stored \in Disks /\ stored.rec = want /\ stored.tx = t /\ stored.binding = target
       /\ final \in Disks /\ final.rec = want /\ final.tx = None /\ final.binding = target
  BY <1>4, <1>5, <1>8 DEF Disks
<1> HIDE DEF logged, bound, stored, final
<1>11. t # None /\ want # None BY <1>5
<1>12. /\ Stored(h, d.rec, t, d.binding) /\ Stored(h, d.rec, t, target)
       /\ Stored(h, want, t, target)
       /\ Stored(h, want, None, target)
  BY <1>4, <1>5, <1>9, <1>11 DEF Stored, Matches
<1>13. Taken(h, d.binding, d.binding) /\ Taken(h, d.binding, target)
  BY <1>3, <1>4, <1>7 DEF Taken, MayLog, Matches
<1>14. ASSUME want.agent # "fenced", Unfenced(h, d.rec, d.tx, d.binding)
       PROVE  /\ Unfenced(h, d.rec, t, d.binding) /\ Unfenced(h, d.rec, t, target)
              /\ Unfenced(h, want, t, target) /\ Unfenced(h, want, None, target)
  <2>1. ~Matches(h, d.rec, target) \/ d.rec = None
    BY <1>3, <1>4, <1>7 DEF Matches, MayLog
  <2> QED BY <1>5, <1>14, <2>1 DEF Unfenced
<1>15. ASSUME NEW x \in {d, logged, bound, stored, final}
       PROVE  /\ x \in Disks /\ Stored(h, x.rec, x.tx, x.binding)
                    /\ Taken(h, d.binding, x.binding)
              /\ x.rec \in {d.rec, want} /\ (x.tx # None => x.tx.rec = want)
              /\ x.binding = d.binding \/ x.binding.owner = want.owner
              /\ Unfenced(h, d.rec, d.tx, d.binding) /\ want.agent # "fenced"
                   => Unfenced(h, x.rec, x.tx, x.binding)
  BY <1>4, <1>5, <1>10, <1>12, <1>13, <1>14
<1>16. CASE o = [d |-> final, ok |-> TRUE, bad |-> 0]
  BY <1>10, <1>15, <1>16 DEF Leaves
<1>17. ASSUME NEW x \in {d, logged, bound, stored, final},
              o = [d |-> x, ok |-> FALSE, bad |-> 1]
       PROVE  Leaves(h, d, want, o)
  BY <1>15, <1>17 DEF Leaves
<1> QED BY <1>2, <1>16, <1>17

\* A record may be written in place: it names the owner and the epoch of the binding.
MayPut(h, d, want) ==
  /\ want.epoch = d.binding.epoch /\ want.owner = d.binding.owner
  /\ want.phase = "AGENT_OWNED" \/ d.binding.by = h

\* The stages of a record written in place.
LEMMA PutDisk ==
  ASSUME NEW h \in Handoffs, NEW d \in Disks, d.tx = None, Stored(h, d.rec, d.tx, d.binding),
         NEW want \in States, Shape(want), MayPut(h, d, want),
         NEW o \in Results(<<d, [d EXCEPT !.rec = want]>>)
            \cup {[d |-> d, ok |-> d.rec = want, bad |-> 0]}
  PROVE  Leaves(h, d, want, o) /\ o.d.tx = None
<1> USE NoneIsNothing
<1> DEFINE put == [d EXCEPT !.rec = want]
           writes == <<d, put>>
<1>1. \/ o = [d |-> put, ok |-> TRUE, bad |-> 0]
      \/ \E x \in {d, put} : o = [d |-> x, ok |-> FALSE, bad |-> 1]
      \/ o = [d |-> d, ok |-> d.rec = want, bad |-> 0]
  <2>1. Last(writes) = put BY DEF Last
  <2>2. \A i \in DOMAIN writes : writes[i] \in {d, put} OBVIOUS
  <2>3. o \in Results(writes) \/ o = [d |-> d, ok |-> d.rec = want, bad |-> 0] OBVIOUS
  <2> HIDE DEF writes, put
  <2> QED BY <2>1, <2>2, <2>3 DEF Results
<1>2. put \in Disks /\ put.rec = want /\ put.tx = None /\ put.binding = d.binding BY DEF Disks
<1> HIDE DEF put
<1>3. Stored(h, want, None, d.binding) BY DEF MayPut, Stored, Matches
<1>4. want.agent # "fenced" => Unfenced(h, want, None, d.binding) BY DEF Unfenced
<1>5. Taken(h, d.binding, d.binding) BY DEF Taken
<1>6. ASSUME NEW x \in {d, put}
      PROVE  /\ x \in Disks /\ Stored(h, x.rec, x.tx, x.binding)
                   /\ Taken(h, d.binding, x.binding)
             /\ x.rec \in {d.rec, want} /\ x.tx = None /\ x.binding = d.binding
             /\ Unfenced(h, d.rec, d.tx, d.binding) /\ want.agent # "fenced"
                  => Unfenced(h, x.rec, x.tx, x.binding)
  BY <1>2, <1>3, <1>4, <1>5
<1>7. CASE o = [d |-> put, ok |-> TRUE, bad |-> 0] BY <1>2, <1>6, <1>7 DEF Leaves
<1>8. ASSUME NEW x \in {d, put}, o = [d |-> x, ok |-> FALSE, bad |-> 1]
      PROVE  Leaves(h, d, want, o) /\ o.d.tx = None
  BY <1>6, <1>8 DEF Leaves
<1>9. CASE o = [d |-> d, ok |-> d.rec = want, bad |-> 0] BY <1>6, <1>9 DEF Leaves
<1> QED BY <1>1, <1>7, <1>8, <1>9

\* What AdvanceHandoff may be asked: the call is refused, or the record fits what
\* recovery leaves.
Fits(h, d, want) ==
  \/ want.epoch < d.rec.epoch
  \/ want.epoch <= d.binding.epoch
       /\ <<want.epoch, want.owner>> # <<d.binding.epoch, d.binding.owner>>
  \/ MayPut(h, d, want)
  \/ MayLog(h, d, want)

\* AdvanceHandoff answers that it could not, with what recovery left, or goes on.
LEMMA AdvanceDisk ==
  ASSUME TypeOK, Storing, NEW h \in Handoffs, rec[h] # None, NEW want \in States, Shape(want),
         CanRecover(Disk(h)) => Fits(h, Recovered(Disk(h)), want),
         NEW o \in Advance(h, want)
  PROVE  LET d == IF CanRecover(Disk(h)) THEN Recovered(Disk(h)) ELSE Disk(h)
         IN  \/ o = [d |-> d, ok |-> FALSE, bad |-> 0]
             \/ /\ CanRecover(Disk(h)) /\ Leaves(h, d, want, o)
                /\ (MayPut(h, d, want) /\ o.d.tx = None) \/ MayLog(h, d, want)
<1> USE NoneIsNothing
<1>1. /\ Disk(h) \in Disks /\ Disk(h).rec = rec[h] /\ Disk(h).tx = tx[h]
      /\ Disk(h).binding = binding
      /\ Stored(h, rec[h], tx[h], binding)
  BY DiskType DEF Storing
<1>2. CASE ~CanRecover(Disk(h))
  <2>1. o \in Refused(Disk(h)) BY <1>2 DEF Advance
  <2> QED BY <1>2, <2>1 DEF Refused
<1>3. CASE CanRecover(Disk(h))
  <2> DEFINE d == Recovered(Disk(h))
             changes == <<want.epoch, want.owner>> # <<d.binding.epoch, d.binding.owner>>
  <2>1. /\ d \in Disks /\ d.tx = None /\ Stored(h, d.rec, d.tx, d.binding)
        /\ Disk(h).tx # None => d.rec = Disk(h).tx.rec
        /\ Disk(h).tx = None => d = Disk(h)
    BY <1>1, <1>3, RecoveredDisk
  <2>2. Fits(h, d, want) BY <1>3
  <2>3. o \in IF want.epoch < d.rec.epoch \/ (changes /\ want.epoch <= d.binding.epoch)
           THEN Refused(d)
              ELSE IF d.rec = want THEN {[d |-> d, ok |-> TRUE, bad |-> 0]}
              ELSE Results(IF changes THEN Logged(h, d, want) ELSE <<d,
                 [d EXCEPT !.rec = want]>>)
    BY <1>3 DEF Advance
  <2> HIDE DEF d
  <2>4. CASE want.epoch < d.rec.epoch \/ (changes /\ want.epoch <= d.binding.epoch)
    <3>1. o = [d |-> d, ok |-> FALSE, bad |-> 0] BY <2>3, <2>4 DEF Refused
    <3> QED BY <1>3, <3>1 DEF d
  <2>5. CASE ~(want.epoch < d.rec.epoch \/ (changes /\ want.epoch <= d.binding.epoch))
    <3>1. MayPut(h, d, want) \/ MayLog(h, d, want) BY <2>2, <2>5 DEF Fits
    <3>2. d.binding.epoch \in Nat /\ want.epoch \in Nat BY <2>1, Fields DEF Disks
    <3>3. CASE MayPut(h, d, want)
      <4>1. ~changes BY <3>3 DEF MayPut
      <4>2. o \in Results(<<d, [d EXCEPT !.rec = want]>>)
               \cup {[d |-> d, ok |-> d.rec = want, bad |-> 0]}
        BY <2>3, <2>5, <4>1
      <4>3. Leaves(h, d, want, o) /\ o.d.tx = None BY <2>1, <3>3, <4>2, PutDisk
      <4> QED BY <1>3, <3>3, <4>3 DEF d
    <3>4. CASE MayLog(h, d, want)
      <4>1. changes BY <3>2, <3>4 DEF MayLog
      <4>2. d.rec # want
        <5>1. d.rec # None /\ Matches(h, d.rec, d.binding) => d.rec.epoch # want.epoch
          BY <3>2, <3>4 DEF MayLog, Matches
        <5> QED BY <3>4, <5>1 DEF MayLog
      <4>3. o \in Results(Logged(h, d, want)) BY <2>3, <2>5, <4>1, <4>2
      <4>4. Leaves(h, d, want, o) BY <2>1, <3>4, <4>3, LoggedDisk
      <4> QED BY <1>3, <3>4, <4>4 DEF d
    <3> QED BY <3>1, <3>3, <3>4
  <2> QED BY <2>4, <2>5
<1> QED BY <1>2, <1>3

\* The phase of a record whose owner is the agent.
LEMMA AgentOwned ==
  ASSUME NEW r \in States, Shape(r) PROVE r.owner = "agent" <=> r.phase = "AGENT_OWNED"
<1>1. r.phase \in {"AGENT_FENCING", "HUMAN_CONNECTING", "HUMAN_OWNED", "HUMAN_FENCING",
                   "RECLAIM_PENDING", "ABORTED", "AGENT_OWNED"}
  BY DEF States
<1> QED BY <1>1 DEF Shape

\* What a handoff does to the binding leaves the other handoffs alone: the one that
\* has it cannot lose it, and a transaction that it overtakes is lost.
LEMMA OthersStored ==
  ASSUME TypeOK, Storing, NEW h \in Handoffs, NEW g \in Handoffs, g # h,
         NEW n \in Bindings, Taken(h, binding, n)
  PROVE  /\ Stored(g, rec[g], tx[g], n)
         /\ Unfenced(g, rec[g], tx[g], binding) => Unfenced(g, rec[g], tx[g], n)
<1> USE NoneIsNothing
<1>1. Stored(g, rec[g], tx[g], binding) BY DEF Storing
<1>2. CASE n = binding BY <1>1, <1>2
<1>3. CASE n # binding
  <2>1. /\ n.epoch > binding.epoch /\ n.by = h /\ n.life = binding.life
        /\ binding.by = h \/ binding.owner = "agent"
    BY <1>3 DEF Taken
  <2>2. binding \in Bindings /\ binding.epoch \in Nat /\ n.epoch \in Nat BY Fields DEF TypeOK
  <2>3. ~Matches(g, rec[g], n) BY <2>1 DEF Matches
  <2>4. ASSUME rec[g] # None, tx[g] = None PROVE rec[g].phase = "AGENT_OWNED"
    <3>1. rec[g] \in States BY <2>4 DEF TypeOK
    <3> QED BY <1>1, <2>1, <2>4, <3>1, AgentOwned DEF Stored, Matches
  <2>5. ASSUME tx[g] # None PROVE Lost(tx[g], n) /\ Logs(g, rec[g], tx[g], n)
    <3>1. tx[g] \in Txs BY <2>5 DEF TypeOK
    <3>2. Logs(g, rec[g], tx[g], binding) BY <1>1, <2>5 DEF Stored
    <3>3. tx[g].prior.epoch \in Nat /\ tx[g].prior.epoch <= binding.epoch
      BY <3>1, <3>2, Fields DEF Logs
    <3>4. tx[g].target.by = g BY <2>2, <3>1, <3>2, RecoverableIsNotLost
    <3>5. Lost(tx[g], n) BY <2>1, <2>2, <3>3, <3>4 DEF Lost
    <3>6. n.epoch > tx[g].prior.epoch BY <2>1, <2>2, <3>3
    <3> QED BY <2>2, <3>2, <3>3, <3>5, <3>6 DEF Logs
  <2> QED BY <1>1, <2>3, <2>4, <2>5 DEF Stored, Unfenced
<1> QED BY <1>2, <1>3

\* Closing the binding changes neither its owner nor its epoch, and loses the
\* transactions that are pending.
LEMMA ClosedStored ==
  ASSUME TypeOK, Storing, NEW g \in Handoffs, NEW n, n = [binding EXCEPT !.life = "terminal"]
  PROVE  /\ Stored(g, rec[g], tx[g], n) /\ n \in Bindings
         /\ Unfenced(g, rec[g], tx[g], binding) => Unfenced(g, rec[g], tx[g], n)
<1> USE NoneIsNothing
<1>1. Stored(g, rec[g], tx[g], binding) BY DEF Storing
<1>2. /\ n \in Bindings /\ n.epoch = binding.epoch /\ n.owner = binding.owner
      /\ n.by = binding.by
      /\ n.life = "terminal" /\ binding \in Bindings
  BY DEF TypeOK, Bindings
<1>3. \A r : Matches(g, r, n) <=> Matches(g, r, binding) BY <1>2 DEF Matches
<1>4. ASSUME tx[g] # None
      PROVE  Logs(g, rec[g], tx[g], n) /\ (Lost(tx[g], binding) => Lost(tx[g], n))
  <2>1. tx[g] \in Txs BY <1>4 DEF TypeOK
  <2>2. Logs(g, rec[g], tx[g], binding) BY <1>1, <1>4 DEF Stored
  <2>3. Lost(tx[g], binding) => Lost(tx[g], n) BY <1>2, <2>1, <2>2, LostStays
  <2>4. n \in {tx[g].prior, tx[g].target} \/ Lost(tx[g], n)
    <3>1. CASE Lost(tx[g], binding) BY <2>3, <3>1
    <3>2. CASE ~Lost(tx[g], binding)
      <4>1. binding \in {tx[g].prior, tx[g].target} /\ tx[g].target.life = tx[g].prior.life
        BY <1>2, <2>1, <2>2, <3>2, RecoverableIsNotLost
      <4>2. CASE binding.life = "live" BY <1>2, <4>1, <4>2 DEF Lost
      <4>3. CASE binding.life = "terminal"
        <5>1. n = binding BY <1>2, <4>3 DEF Bindings
        <5> QED BY <4>1, <5>1
      <4> QED BY <1>2, <4>2, <4>3, Fields
    <3> QED BY <3>1, <3>2
  <2> QED BY <1>2, <2>2, <2>3, <2>4 DEF Logs
<1> QED BY <1>1, <1>2, <1>3, <1>4 DEF Stored, Unfenced

\* A write of one handoff keeps what the store, the lane and the clients say.
LEMMA WriteKeeps ==
  ASSUME TypeOK, Storing, Laning, Watching, NEW h \in Handoffs, NEW d \in Disks, Write(h, d),
         Stored(h, d.rec, d.tx, d.binding), Taken(h, binding, d.binding),
         lane' = lane, pane' = pane,
         lane = "agent" => boot' = "up" /\ Unfenced(h, d.rec, d.tx, d.binding),
         \A c \in Clients : client'[c] = "rw" => client[c] = "rw",
         \A c \in Clients : client'[c] = "rw" /\ Known(c) /\ binding.by = h =>
           /\ d.rec # None /\ Carries(d.rec, c) /\ d.binding.owner # "agent"
           /\ d.tx # None => d.tx.rec.phase = "RECLAIM_PENDING" /\ Carries(d.tx.rec, c)
  PROVE  /\ Storing' /\ Laning' /\ Watching' /\ binding' = d.binding
         /\ rec'[h] = d.rec /\ tx'[h] = d.tx
         /\ \A g \in Handoffs : g # h => rec'[g] = rec[g] /\ tx'[g] = tx[g]
         /\ rec' \in [Handoffs -> States \cup {None}] /\ tx' \in [Handoffs -> Txs \cup {None}]
         /\ binding' \in Bindings
<1> USE NoneIsNothing
<1>1. d.rec \in States \cup {None} /\ d.tx \in Txs \cup {None} /\ d.binding \in Bindings
  BY DEF Disks
<1>2. /\ binding' = d.binding /\ rec'[h] = d.rec /\ tx'[h] = d.tx
      /\ \A g \in Handoffs : g # h => rec'[g] = rec[g] /\ tx'[g] = tx[g]
      /\ rec' \in [Handoffs -> States \cup {None}] /\ tx' \in [Handoffs -> Txs \cup {None}]
  BY <1>1 DEF Write, TypeOK
<1>3. \A g \in Handoffs : g # h => /\ Stored(g, rec[g], tx[g], d.binding)
                                   /\ Unfenced(g, rec[g], tx[g], binding)
                                        => Unfenced(g, rec[g], tx[g], d.binding)
  BY <1>1, OthersStored
<1>4. Storing' BY <1>2, <1>3 DEF Storing
<1>5. Laning' BY <1>2, <1>3 DEF Laning
<1>6. ASSUME NEW c \in Clients, client'[c] = "rw" PROVE Known(c)'
  <2>1. Known(c) BY <1>6 DEF Watching
  <2>2. CASE binding.by = h
    <3>1. d.binding.by = h BY <2>2 DEF Taken
    <3> QED BY <1>2, <1>6, <2>1, <2>2, <3>1 DEF Known
  <2>3. CASE binding.by # h
    <3>1. d.binding = binding BY <2>1, <2>3 DEF Taken, Known
    <3> QED BY <1>2, <2>1, <2>3, <3>1 DEF Known
  <2> QED BY <2>2, <2>3
<1>7. Watching' BY <1>6 DEF Watching
<1> QED BY <1>1, <1>2, <1>4, <1>5, <1>7

\* The parts of the invariant that the store, the lane and the clients share.
Core == TypeOK /\ Storing /\ Laning /\ Watching

\* What recovery leaves of a handoff in this state.
Rolled(h) == Recovered(Disk(h))

\* A call of AdvanceHandoff that fits keeps them, wherever it stops.
LEMMA AdvanceKeeps ==
  ASSUME Core, NEW h \in Handoffs, rec[h] # None, NEW want \in States, Shape(want),
         CanRecover(Disk(h)) => Fits(h, Rolled(h), want),
         NEW o \in Advance(h, want), Write(h, o.d), lane' = lane, pane' = pane,
         lane = "agent" => boot' = "up",
         \A c \in Clients : client'[c] = "rw" => client[c] = "rw",
         CanRecover(Disk(h)) /\ (MayPut(h, Rolled(h), want) \/ MayLog(h, Rolled(h), want)) =>
           /\ lane = "agent" => want.agent # "fenced"
           /\ \A c \in Clients : client'[c] = "rw" /\ Known(c) /\ binding.by = h =>
                Carries(want, c)
                   /\ (MayLog(h, Rolled(h), want) => want.phase = "RECLAIM_PENDING")
  PROVE  /\ Storing' /\ Laning' /\ Watching' /\ Taken(h, binding, binding')
         /\ \A g \in Handoffs : g # h => rec'[g] = rec[g] /\ tx'[g] = tx[g]
         /\ rec' \in [Handoffs -> States \cup {None}] /\ tx' \in [Handoffs -> Txs \cup {None}]
         /\ binding' \in Bindings /\ o.ok \in BOOLEAN /\ o.bad \in {0, 1}
         /\ o.ok => rec'[h] = want /\ tx'[h] = None
<1> USE NoneIsNothing
<1> TypeOK /\ Storing /\ Laning /\ Watching BY DEF Core
<1> DEFINE e == IF CanRecover(Disk(h)) THEN Rolled(h) ELSE Disk(h)
<1>1. /\ Disk(h) \in Disks /\ Disk(h).rec = rec[h] /\ Disk(h).tx = tx[h]
      /\ Disk(h).binding = binding
      /\ Stored(h, rec[h], tx[h], binding)
  BY DiskType DEF Storing
<1>2. /\ e \in Disks /\ Stored(h, e.rec, e.tx, e.binding) /\ Taken(h, binding, e.binding)
      /\ Unfenced(h, rec[h], tx[h], binding) => Unfenced(h, e.rec, e.tx, e.binding)
      /\ \/ e.rec = rec[h] /\ e.tx = tx[h] /\ e.binding = binding
         \/ tx[h] # None /\ e.tx = None /\ e.rec = tx[h].rec /\ e.binding = tx[h].target
  <2>1. CASE CanRecover(Disk(h))
    <3>1. e = Recovered(Disk(h)) BY <2>1 DEF Rolled
    <3> HIDE DEF e
    <3> QED BY <1>1, <2>1, <3>1, RecoveredDisk
  <2>2. CASE ~CanRecover(Disk(h))
    <3>1. e = Disk(h) BY <2>2
    <3> HIDE DEF e
    <3> QED BY <1>1, <3>1 DEF Taken
  <2> QED BY <2>1, <2>2
<1>3. \/ o = [d |-> e, ok |-> FALSE, bad |-> 0]
      \/ /\ CanRecover(Disk(h)) /\ Leaves(h, e, want, o)
         /\ (MayPut(h, e, want) /\ o.d.tx = None) \/ MayLog(h, e, want)
  BY AdvanceDisk DEF Rolled
<1>4. CanRecover(Disk(h)) => e = Rolled(h) OBVIOUS
<1> HIDE DEF e
<1>5. e.binding \in Bindings /\ binding \in Bindings BY <1>2 DEF Disks, TypeOK
<1>6. lane = "agent" => Unfenced(h, e.rec, e.tx, e.binding) BY <1>2 DEF Laning
<1>7. ASSUME NEW c \in Clients, Known(c), binding.by = h
      PROVE  /\ e.rec # None /\ Carries(e.rec, c) /\ e.binding.owner # "agent"
             /\ e.tx # None => e.tx.rec.phase = "RECLAIM_PENDING" /\ Carries(e.tx.rec, c)
  <2>1. CASE e.rec = rec[h] /\ e.tx = tx[h] /\ e.binding = binding BY <1>7, <2>1 DEF Known
  <2>2. CASE tx[h] # None /\ e.tx = None /\ e.rec = tx[h].rec /\ e.binding = tx[h].target
    <3>1. tx[h].rec.phase = "RECLAIM_PENDING" /\ Carries(tx[h].rec, c) BY <1>7, <2>2 DEF Known
    <3>2. tx[h] \in Txs /\ Shape(tx[h].rec) /\ tx[h].rec \in States
      BY <1>1, <2>2, Fields DEF TypeOK, Stored
    <3>3. tx[h].target.owner = tx[h].rec.owner
      BY <1>1, <1>5, <2>2, <3>2, RecoverableIsNotLost DEF Stored
    <3> QED BY <2>2, <3>1, <3>2, <3>3 DEF Shape
  <2> QED BY <1>2, <2>1, <2>2
<1>8. CASE o = [d |-> e, ok |-> FALSE, bad |-> 0]
  <2>1. o.d = e /\ o.ok = FALSE /\ o.bad = 0 BY <1>8
  <2> QED BY <1>2, <1>6, <1>7, <2>1, WriteKeeps
<1>9. CASE /\ CanRecover(Disk(h)) /\ Leaves(h, e, want, o)
           /\ (MayPut(h, e, want) /\ o.d.tx = None) \/ MayLog(h, e, want)
  <2>1. /\ lane = "agent" => want.agent # "fenced"
        /\ \A c \in Clients : client'[c] = "rw" /\ Known(c) /\ binding.by = h =>
             Carries(want, c) /\ (MayLog(h, e, want) => want.phase = "RECLAIM_PENDING")
    BY <1>4, <1>9
  <2>2. /\ o.d \in Disks /\ Stored(h, o.d.rec, o.d.tx, o.d.binding)
        /\ Taken(h, e.binding, o.d.binding)
        /\ o.ok \in BOOLEAN /\ o.bad \in {0, 1} /\ (o.ok => o.d.rec = want /\ o.d.tx = None)
        /\ o.d.rec \in {e.rec, want} /\ (o.d.tx # None => o.d.tx.rec = want)
        /\ o.d.binding = e.binding \/ o.d.binding.owner = want.owner
    BY <1>9 DEF Leaves
  <2>3. o.d.binding \in Bindings BY <2>2 DEF Disks
  <2>4. Taken(h, binding, o.d.binding) BY <1>2, <1>5, <2>2, <2>3, TakenTwice
  <2>5. lane = "agent" => Unfenced(h, o.d.rec, o.d.tx, o.d.binding)
    BY <1>6, <1>9, <2>1 DEF Leaves
  <2>6. ASSUME NEW c \in Clients, client'[c] = "rw", Known(c), binding.by = h
        PROVE  /\ o.d.rec # None /\ Carries(o.d.rec, c) /\ o.d.binding.owner # "agent"
               /\ o.d.tx # None => o.d.tx.rec.phase = "RECLAIM_PENDING"
                     /\ Carries(o.d.tx.rec, c)
    <3>1. Carries(want, c) /\ (MayLog(h, e, want) => want.phase = "RECLAIM_PENDING")
      BY <2>1, <2>6
    <3>2. want.owner # "agent" BY <3>1, AgentOwned DEF Carries
    <3>3. e.rec # None /\ Carries(e.rec, c) /\ e.binding.owner # "agent" BY <1>7, <2>6
    <3> QED BY <1>9, <2>2, <3>1, <3>2, <3>3
  <2> QED BY <2>2, <2>4, <2>5, <2>6, WriteKeeps
<1> QED BY <1>3, <1>8, <1>9

\* What a handler has loaded is what recovery leaves, or one epoch behind it.
LEMMA LoadedRecord ==
  ASSUME Core, NEW h \in Handoffs, rec[h] # None, rec[h].phase # "AGENT_OWNED",
         CanRecover(Disk(h))
  PROVE  /\ Rolled(h) \in Disks
         /\ \/ Rolled(h).rec = rec[h] /\ Matches(h, rec[h], Rolled(h).binding)
                 /\ (lane = "agent" => rec[h].agent # "fenced")
            \/ /\ tx[h] # None /\ Rolled(h).rec = tx[h].rec /\ Rolled(h).binding = tx[h].target
               /\ Rolled(h).rec.epoch = rec[h].epoch + 1
               /\ Rolled(h).binding.epoch = rec[h].epoch + 1
               /\ Rolled(h).binding.owner = tx[h].rec.owner /\ Rolled(h).binding.by = h
               /\ binding.by = h
               /\ rec[h].agent = "fenced" /\ lane = "agent" => tx[h].rec.owner = "agent"
<1> USE NoneIsNothing
<1> TypeOK /\ Storing /\ Laning /\ Watching BY DEF Core
<1>1. /\ Disk(h) \in Disks /\ Disk(h).rec = rec[h] /\ Disk(h).tx = tx[h]
      /\ Disk(h).binding = binding
      /\ Stored(h, rec[h], tx[h], binding)
  BY DiskType DEF Storing
<1>2. /\ Rolled(h) \in Disks
      /\ tx[h] = None => Rolled(h) = Disk(h)
      /\ tx[h] # None => Rolled(h).rec = tx[h].rec /\ Rolled(h).binding = tx[h].target
      /\ Unfenced(h, rec[h], tx[h], binding) =>
           Unfenced(h, Rolled(h).rec, Rolled(h).tx, Rolled(h).binding)
      /\ Stored(h, Rolled(h).rec, Rolled(h).tx, Rolled(h).binding) /\ Rolled(h).tx = None
  BY <1>1, RecoveredDisk DEF Rolled
<1>3. CASE Rolled(h).rec = rec[h]
  <2>1. Matches(h, rec[h], Rolled(h).binding) BY <1>2, <1>3 DEF Stored
  <2>2. lane = "agent" => rec[h].agent # "fenced" BY <1>2, <1>3, <2>1 DEF Laning, Unfenced
  <2> QED BY <1>2, <1>3, <2>1, <2>2
<1>4. CASE Rolled(h).rec # rec[h]
  <2>1. tx[h] # None /\ tx[h] \in Txs /\ tx[h].rec # rec[h] BY <1>1, <1>2, <1>4 DEF TypeOK
  <2>2. Logs(h, rec[h], tx[h], binding) /\ Shape(tx[h].rec) /\ tx[h].rec \in States
    BY <1>1, <2>1, Fields DEF Stored
  <2>3. /\ Matches(h, rec[h], tx[h].prior)
        /\ rec[h].agent = "fenced" => tx[h].rec.agent = "fenced"
              \/ tx[h].rec.phase = "AGENT_OWNED"
    BY <2>1, <2>2 DEF Logs
  <2>4. /\ tx[h].target.by = h /\ tx[h].target.epoch = tx[h].rec.epoch
        /\ tx[h].target.owner = tx[h].rec.owner /\ tx[h].target.epoch = tx[h].prior.epoch + 1
        /\ ~Lost(tx[h], binding) /\ binding \in {tx[h].prior, tx[h].target}
    BY <1>1, <2>1, <2>2, RecoverableIsNotLost DEF CanRecover, TypeOK
  <2>5. binding.by = h BY <2>3, <2>4 DEF Matches
  <2>6. rec[h].agent = "fenced" /\ lane = "agent" => tx[h].rec.owner = "agent"
    BY <2>1, <2>2, <2>3, <2>4, AgentOwned DEF Laning, Unfenced
  <2> QED BY <1>2, <2>1, <2>3, <2>4, <2>5, <2>6 DEF Matches
<1> QED BY <1>3, <1>4

\* A call of AdvanceHandoff that is safe: what it is asked fits, it does not fence
\* the agent while input is on its way, and it keeps the clients that can write.
Safe(h, want) ==
  CanRecover(Disk(h)) =>
    /\ Fits(h, Rolled(h), want)
    /\ MayPut(h, Rolled(h), want) \/ MayLog(h, Rolled(h), want) =>
         /\ lane = "agent" => want.agent # "fenced"
         /\ \A c \in Clients : client'[c] = "rw" /\ Known(c) /\ binding.by = h =>
              Carries(want, c) /\ (MayLog(h, Rolled(h), want) => want.phase = "RECLAIM_PENDING")

\* A change that keeps the owner and the epoch is safe, or comes too late.
LEMMA PlainIsSafe ==
  ASSUME Core, NEW h \in Handoffs, rec[h] # None, rec[h].phase # "AGENT_OWNED",
         NEW want \in States, want.epoch = rec[h].epoch, want.owner = rec[h].owner,
         want.phase # "AGENT_OWNED",
         lane = "agent" /\ want.agent = "fenced" => rec[h].agent = "fenced",
         \A c \in Clients : client'[c] = "rw" /\ Carries(rec[h], c) => Carries(want, c)
  PROVE  Safe(h, want)
<1> SUFFICES ASSUME CanRecover(Disk(h))
             PROVE  /\ Fits(h, Rolled(h), want)
                    /\ MayPut(h, Rolled(h), want) \/ MayLog(h, Rolled(h), want) =>
                         /\ lane = "agent" => want.agent # "fenced"
                         /\ \A c \in Clients : client'[c] = "rw" /\ Known(c)
                               /\ binding.by = h =>
                              Carries(want, c)
                                 /\ (MayLog(h, Rolled(h),
                                       want) => want.phase = "RECLAIM_PENDING")
  BY DEF Safe
<1>1. \A c \in Clients : client'[c] = "rw" /\ Known(c) /\ binding.by = h => Carries(want, c)
  BY DEF Known
<1>2. rec[h] \in States /\ rec[h].epoch \in Nat /\ want.epoch \in Nat BY Fields DEF Core, TypeOK
<1>3. CASE Rolled(h).rec = rec[h] /\ Matches(h, rec[h], Rolled(h).binding)
             /\ (lane = "agent" => rec[h].agent # "fenced")
  <2>1. MayPut(h, Rolled(h), want) /\ ~MayLog(h, Rolled(h), want)
    BY <1>2, <1>3 DEF MayPut, MayLog, Matches
  <2> QED BY <1>1, <1>3, <2>1 DEF Fits
<1>4. CASE Rolled(h).rec.epoch = rec[h].epoch + 1 /\ Rolled(h).binding.epoch = rec[h].epoch + 1
  <2>1. ~MayPut(h, Rolled(h), want) /\ ~MayLog(h, Rolled(h), want)
    BY <1>2, <1>4 DEF MayPut, MayLog
  <2>2. want.epoch < Rolled(h).rec.epoch BY <1>2, <1>4
  <2> QED BY <2>1, <2>2 DEF Fits
<1> QED BY <1>3, <1>4, LoadedRecord

\* So is one that takes the next epoch, once the clients it drops cannot write.
LEMMA RaisedIsSafe ==
  ASSUME Core, NEW h \in Handoffs, rec[h] # None, rec[h].phase # "AGENT_OWNED",
         NEW want \in States, Shape(want), want.epoch = rec[h].epoch + 1,
         want.phase # "AGENT_FENCING", rec[h].agent = "fenced",
         want.agent = "fenced" \/ want.phase = "AGENT_OWNED",
         \A c \in Clients : ~(client'[c] = "rw" /\ Carries(rec[h], c))
  PROVE  Safe(h, want)
<1> SUFFICES ASSUME CanRecover(Disk(h))
             PROVE  /\ Fits(h, Rolled(h), want)
                    /\ MayPut(h, Rolled(h), want) \/ MayLog(h, Rolled(h), want) =>
                         /\ lane = "agent" => want.agent # "fenced"
                         /\ \A c \in Clients : client'[c] = "rw" /\ Known(c)
                               /\ binding.by = h =>
                              Carries(want, c)
                                 /\ (MayLog(h, Rolled(h),
                                       want) => want.phase = "RECLAIM_PENDING")
  BY DEF Safe
<1>1. \A c \in Clients : ~(client'[c] = "rw" /\ Known(c) /\ binding.by = h) BY DEF Known
<1>2. rec[h] \in States /\ rec[h].epoch \in Nat /\ want.epoch \in Nat BY Fields DEF Core, TypeOK
<1>3. CASE Rolled(h).rec = rec[h] /\ Matches(h, rec[h], Rolled(h).binding)
             /\ (lane = "agent" => rec[h].agent # "fenced")
  <2>1. MayLog(h, Rolled(h), want) BY <1>2, <1>3 DEF MayLog, Matches
  <2> QED BY <1>1, <1>3, <2>1 DEF Fits
<1>4. CASE /\ Rolled(h).binding.epoch = rec[h].epoch + 1 /\ Rolled(h).binding.by = h
           /\ Rolled(h).binding.owner = tx[h].rec.owner
           /\ rec[h].agent = "fenced" /\ lane = "agent" => tx[h].rec.owner = "agent"
  <2>1. ~MayLog(h, Rolled(h), want) BY <1>2, <1>4 DEF MayLog
  <2>2. CASE want.owner # Rolled(h).binding.owner
    <3>1. ~MayPut(h, Rolled(h), want) BY <2>2 DEF MayPut
    <3> QED BY <1>2, <1>4, <2>1, <2>2, <3>1 DEF Fits
  <2>3. CASE want.owner = Rolled(h).binding.owner
    <3>1. MayPut(h, Rolled(h), want) BY <1>2, <1>4, <2>3 DEF MayPut
    <3>2. lane = "agent" => want.phase = "AGENT_OWNED" BY <1>4, <2>3, AgentOwned
    <3>3. lane = "agent" => want.agent # "fenced" BY <3>2 DEF Shape
    <3> QED BY <1>1, <2>1, <3>1, <3>3 DEF Fits
  <2> QED BY <2>2, <2>3
<1> QED BY <1>3, <1>4, LoadedRecord

\* How a step of a handler leaves the handlers and the daemon.
Turns(h) ==
  \/ boot = "reconcile" /\ boot' = "down" /\ op' = [g \in Handoffs |-> Idle]
  \/ /\ boot' = boot /\ boot # "down" /\ (boot = "reconcile" => tx'[h] = None)
     /\ \E x \in Ops : op' = [op EXCEPT ![h] = x]

\* What the steps of a handler leave alone.
Steady(h) ==
  /\ ledger' = ledger /\ pane' = pane /\ lane' = lane /\ unresolved' = unresolved /\ fin' = fin
  /\ crashes' = crashes /\ granted' \in BOOLEAN /\ faults' \in 0 .. MaxFaults
  /\ client' \in [Clients -> {"none", "ro", "rw", "gone"}]
  /\ todo' \subseteq todo /\ (boot = "reconcile" => h \notin todo')

\* What a step of a handler may do to the store.
Stores(h) ==
  /\ rec' \in [Handoffs -> States \cup {None}] /\ tx' \in [Handoffs -> Txs \cup {None}]
  /\ binding' \in Bindings /\ Taken(h, binding, binding')
  /\ \A g \in Handoffs : g # h => rec'[g] = rec[g] /\ tx'[g] = tx[g]

\* A handler that is idle knows nothing.
LEMMA IdleHandles ==
  ASSUME NEW h, op'[h] = Idle PROVE Handles(h)'
BY NoneIsNothing DEF Handles, Idle

\* Idle is a state of a handler.
LEMMA IdleIsOp == Idle \in Ops
BY DEF Idle, Ops, Steps

\* The other handlers go on as they are.
LEMMA HandlerKeeps ==
  ASSUME IInv, NEW h \in Handoffs, Turns(h), Steady(h), Stores(h), Handles(h)',
         Storing', Laning', Watching'
  PROVE  IInv'
<1> USE NoneIsNothing
<1>1. TypeOK /\ Storing /\ Laning /\ Watching /\ Handling /\ Booting BY DEF IInv
<1>2. \A g \in Handoffs : g # h => op'[g] \in {op[g], Idle}
  BY <1>1 DEF Turns, TypeOK
<1>3. op' \in [Handoffs -> Ops] /\ boot' \in {"down", "reconcile", "up"}
  BY <1>1, IdleIsOp DEF Turns, TypeOK
<1>4. TypeOK' BY <1>1, <1>3 DEF TypeOK, Steady, Stores
<1>5. Handling'
  <2> SUFFICES ASSUME NEW g \in Handoffs, g # h PROVE Handles(g)' BY DEF Handling
  <2>1. CASE op'[g] = Idle BY <2>1, IdleHandles
  <2>2. CASE op'[g] = op[g]
    <3>1. rec'[g] = rec[g] /\ tx'[g] = tx[g] /\ ledger' = ledger BY DEF Stores, Steady
    <3>2. Phase(g)' = Phase(g) BY <3>1 DEF Phase
    <3>3. Handles(g) BY <1>1 DEF Handling
    <3> QED BY <2>2, <3>1, <3>2, <3>3 DEF Handles
  <2> QED BY <1>2, <2>1, <2>2
<1>6. binding \in Bindings /\ binding' \in Bindings /\ binding.epoch \in Nat
         /\ binding'.epoch \in Nat
      /\ binding'.life = binding.life
  BY <1>1, Fields DEF TypeOK, Stores, Taken
<1>7. boot' = "down" => \A g \in Handoffs : op'[g].pc = "idle"
  BY <1>1 DEF Turns, Booting, Idle
<1>8. boot' = "reconcile" =>
        /\ \A g \in Handoffs : tx'[g] = None
        /\ \A g \in todo' : op'[g].pc = "idle" /\ Phase(g)' \notin {"none", "AGENT_OWNED"}
  <2> HAVE boot' = "reconcile"
  <2>1. /\ boot = "reconcile" /\ tx'[h] = None /\ h \notin todo'
        /\ \A g \in Handoffs : g # h => op'[g] = op[g]
    BY <1>1 DEF Turns, Steady, TypeOK
  <2>2. \A g \in Handoffs : g # h => rec'[g] = rec[g] /\ tx'[g] = tx[g] /\ Phase(g)' = Phase(g)
    BY DEF Stores, Phase
  <2>3. \A g \in todo' : g \in todo /\ g \in Handoffs /\ g # h BY <1>1, <2>1 DEF TypeOK, Steady
  <2> QED BY <1>1, <2>1, <2>2, <2>3 DEF Booting
<1>9. fin' # None => /\ boot' = "up" /\ pane' = "dead" /\ fin'.epoch <= binding'.epoch
                     /\ fin'.epoch = binding'.epoch => fin' = binding'
  <2> HAVE fin' # None
  <2>1. /\ boot = "up" /\ pane = "dead" /\ fin.epoch <= binding.epoch
        /\ fin.epoch = binding.epoch => fin = binding
    BY <1>1 DEF Steady, Booting
  <2>2. boot' = "up" BY <2>1 DEF Turns
  <2>3. fin \in Bindings /\ fin.epoch \in Nat BY <1>1, Fields DEF TypeOK, Steady
  <2> QED BY <1>6, <2>1, <2>2, <2>3 DEF Stores, Taken, Steady
<1>10. Booting' BY <1>1, <1>6, <1>7, <1>8, <1>9 DEF Booting, Steady
<1> QED BY <1>4, <1>5, <1>10 DEF IInv

\* A handler that ends is idle, or completes its control.
LEMMA Ending ==
  ASSUME TypeOK, Handling, NEW h \in Handoffs, Ends(h), ledger' = ledger
  PROVE  Handles(h)' /\ boot' = boot /\ \E x \in Ops : op' = [op EXCEPT ![h] = x]
<1> USE NoneIsNothing
<1>1. op[h] \in Ops /\ Handles(h) BY DEF TypeOK, Handling
<1>2. CASE op[h].ctl = None
  <2>1. op' = [op EXCEPT ![h] = Idle] /\ boot' = boot BY <1>2 DEF Ends
  <2>2. op'[h] = Idle BY <2>1 DEF TypeOK
  <2> QED BY <2>1, <2>2, IdleHandles, IdleIsOp
<1>3. CASE op[h].ctl # None
  <2> DEFINE x == [op[h] EXCEPT !.pc = "done"]
  <2>1. op' = [op EXCEPT ![h] = x] /\ boot' = boot BY <1>3 DEF Ends
  <2>2. x \in Ops /\ x.pc = "done" /\ x.ctl = op[h].ctl BY <1>1 DEF Ops, Steps
  <2> HIDE DEF x
  <2>3. op'[h] = x BY <2>1 DEF TypeOK
  <2>4. Handles(h)' BY <1>1, <1>3, <2>2, <2>3 DEF Handles
  <2> QED BY <2>1, <2>2, <2>4
<1> QED BY <1>2, <1>3

\* A handler that fails is idle; in a daemon that starts it takes the daemon down.
LEMMA Failing ==
  ASSUME TypeOK, NEW h \in Handoffs, Fails(h)
  PROVE  /\ Handles(h)' /\ (boot = "up" => boot' = "up")
         /\ \/ boot = "reconcile" /\ boot' = "down" /\ op' = [g \in Handoffs |-> Idle]
            \/ /\ boot # "reconcile" /\ boot' = boot
               /\ \E x \in Ops : op' = [op EXCEPT ![h] = x]
<1>1. op'[h] = Idle BY DEF Fails, TypeOK
<1>2. Handles(h)' BY <1>1, IdleHandles
<1> QED BY <1>2, IdleIsOp DEF Fails

\* A handler that goes on keeps its control.
LEMMA Going ==
  ASSUME TypeOK, NEW h \in Handoffs, NEW pc \in Steps, Goes(h, pc)
  PROVE  /\ boot' = boot /\ \E x \in Ops : op' = [op EXCEPT ![h] = x]
         /\ op'[h].pc = pc /\ op'[h].ctl = op[h].ctl /\ op'[h].cli = op[h].cli
<1> DEFINE x == [op[h] EXCEPT !.pc = pc]
<1>1. op' = [op EXCEPT ![h] = x] /\ boot' = boot BY DEF Goes
<1>2. op[h] \in Ops BY DEF TypeOK
<1>3. x \in Ops /\ x.pc = pc /\ x.ctl = op[h].ctl /\ x.cli = op[h].cli BY <1>2 DEF Ops
<1> HIDE DEF x
<1>4. op'[h] = x BY <1>1 DEF TypeOK
<1> QED BY <1>1, <1>3, <1>4

\* A step that writes nothing and makes no client writable.
LEMMA QuietStep ==
  ASSUME IInv, NEW h \in Handoffs, Steady(h), UNCHANGED <<rec, tx, binding>>, boot # "down",
         \A c \in Clients : client'[c] = "rw" => client[c] = "rw",
         \/ Fails(h) \/ Ends(h)
         \/ \E pc \in Steps : Goes(h, pc) /\ Handles(h)'
         \/ boot' = boot /\ (\E x \in Ops : op' = [op EXCEPT ![h] = x]) /\ Handles(h)'
  PROVE  IInv'
<1>1. TypeOK /\ Storing /\ Laning /\ Watching /\ Handling /\ Booting BY DEF IInv
<1>2. Storing' BY <1>1 DEF Storing
<1>3. Watching' BY <1>1 DEF Watching, Known, Steady
<1>4. Stores(h) BY <1>1 DEF Stores, TypeOK, Taken
<1>5. boot = "reconcile" => tx'[h] = None BY <1>1 DEF Booting
<1>6. Handles(h)' /\ Turns(h) /\ (boot = "up" => boot' = "up")
  BY <1>1, <1>5, Failing, Ending, Going DEF Turns, Steady
<1>7. Laning' BY <1>1, <1>6 DEF Laning, Steady
<1> QED BY <1>2, <1>3, <1>4, <1>6, <1>7, HandlerKeeps

\* A step that calls AdvanceHandoff.
LEMMA AdvanceStep ==
  ASSUME IInv, NEW h \in Handoffs, Steady(h), boot # "down", rec[h] # None,
         NEW want \in States, Shape(want), Safe(h, want),
         NEW o \in Advance(h, want), Write(h, o.d),
         \A c \in Clients : client'[c] = "rw" => client[c] = "rw",
         \/ Fails(h)
         \/ o.ok /\ Ends(h)
         \/ /\ o.ok
            /\ \E pc \in Steps : Goes(h, pc) /\ (rec'[h] = want /\ tx'[h] = None => Handles(h)')
  PROVE  IInv'
<1>1. TypeOK /\ Storing /\ Laning /\ Watching /\ Handling /\ Booting /\ Core BY DEF IInv, Core
<1>2. boot = "up" => boot' = "up" BY <1>1, Failing DEF Ends, Goes
<1>3. lane = "agent" => boot' = "up" BY <1>1, <1>2 DEF Laning
<1>4. /\ Storing' /\ Laning' /\ Watching' /\ Stores(h)
      /\ o.ok => rec'[h] = want /\ tx'[h] = None
  BY <1>1, <1>3, AdvanceKeeps DEF Safe, Steady, Stores
<1>5. Handles(h)' /\ Turns(h)
  BY <1>1, <1>4, Failing, Ending, Going DEF Turns, Steady
<1> QED BY <1>4, <1>5, HandlerKeeps

\* The same, for the handlers that go on when the call succeeds.
LEMMA AdvancesStep ==
  ASSUME IInv, NEW h \in Handoffs, Steady(h), boot # "down", rec[h] # None,
         NEW want \in States, Shape(want), Safe(h, want),
         NEW pc, NEW cost, Advances(h, want, pc, cost),
         \A c \in Clients : client'[c] = "rw" => client[c] = "rw",
         pc = "end" \/ (pc \in Steps /\ (Goes(h,
            pc) /\ rec'[h] = want /\ tx'[h] = None => Handles(h)'))
  PROVE  IInv'
<1>1. PICK o \in Advance(h, want) :
        Write(h, o.d) /\ IF ~o.ok THEN Fails(h) ELSE IF pc = "end" THEN Ends(h) ELSE Goes(h, pc)
  BY DEF Advances
<1> QED BY <1>1, AdvanceStep

\* What a handler that runs knows.
LEMMA Running ==
  ASSUME IInv, NEW h \in Handoffs
  PROVE  /\ TypeOK /\ Core /\ Handles(h) /\ op[h] \in Ops
         /\ op[h].pc # "idle" => Awake(h)
         /\ rec[h] # None => rec[h] \in States /\ Shape(rec[h]) /\ Phase(h) = rec[h].phase
         /\ rec[h] = None => Phase(h) = "none"
<1>1. TypeOK /\ Storing /\ Laning /\ Watching /\ Handling /\ Booting BY DEF IInv
<1>2. op[h].pc # "idle" => Awake(h)
  BY <1>1 DEF Booting
<1> QED BY <1>1, <1>2 DEF Core, TypeOK, Storing, Stored, Handling, Phase

\* A call of the store fails at most once.
LEMMA FailsOnce ==
  ASSUME NEW h, NEW want, NEW o \in Advance(h, want) PROVE o.bad \in {0, 1}
<1>1. \A d : \A x \in Refused(d) : x.bad = 0 BY DEF Refused
<1>2. \A w : \A x \in Results(w) : x.bad \in {0, 1} BY DEF Results
<1> HIDE DEF Refused, Results
<1> QED BY <1>1, <1>2 DEF Advance

\* The faults stay within their bound.
LEMMA SpendsWithin ==
  ASSUME TypeOK, NEW n \in Nat, Spend(n) PROVE faults' \in 0 .. MaxFaults
BY HandoffAssumption DEF TypeOK, Spend

\* So they do when a handler calls the store.
LEMMA AdvancesSpends ==
  ASSUME TypeOK, NEW h, NEW want, NEW pc, NEW cost \in Nat, Advances(h, want, pc, cost)
  PROVE  faults' \in 0 .. MaxFaults
<1>1. PICK o \in Advance(h, want) : Spend(cost + o.bad) BY DEF Advances
<1>2. cost + o.bad \in Nat BY FailsOnce
<1> QED BY <1>1, <1>2, SpendsWithin

\* finishAgentFence has the lane, so no input of the agent is under way.
LEMMA AgentFenceKeeps ==
  ASSUME IInv, NEW h \in Handoffs, AgentFence(h) PROVE IInv'
<1> USE NoneIsNothing
<1> DEFINE want == [rec[h] EXCEPT !.phase = "HUMAN_CONNECTING", !.agent = "fenced"]
<1>1. /\ TypeOK /\ Core /\ Handles(h) /\ op[h] \in Ops /\ Awake(h)
      /\ Phase(h) = "AGENT_FENCING" /\ rec[h] # None /\ rec[h] \in States /\ Shape(rec[h])
      /\ rec[h].phase = "AGENT_FENCING"
  BY Running DEF AgentFence, Handles, Phase
<1>2. /\ rec[h].owner = "human" /\ rec[h].human = "fenced" /\ rec[h].client = None
  BY <1>1 DEF Shape
<1>3. /\ want \in States /\ want.phase = "HUMAN_CONNECTING" /\ want.agent = "fenced"
      /\ want.epoch = rec[h].epoch /\ want.owner = "human" /\ want.human = "fenced"
  BY <1>1, <1>2 DEF States, Valid, Ingress
<1>4. CASE AgentFenced(h) /\ Advances(h, want, IF Runs(h, "fence") THEN "end" ELSE "abort", 0)
  <2>1. Steady(h) BY <1>1, <1>4, AdvancesSpends DEF Steady, AgentFence, TypeOK
  <2> HIDE DEF want
  <2>2. Shape(want) BY <1>3 DEF Shape
  <2>3. Safe(h, want)
    <3>1. lane = "free" /\ \A c \in Clients : ~Carries(rec[h], c)
      BY <1>2 DEF AgentFence, Carries
    <3> QED BY <1>1, <1>2, <1>3, <3>1, PlainIsSafe
  <2>4. Goes(h, "abort") => Handles(h)'
    <3> HAVE Goes(h, "abort")
    <3>1. op'[h].pc = "abort" /\ op'[h].ctl = op[h].ctl BY <1>1, Going DEF Steps
    <3> QED BY <1>1, <2>1, <3>1 DEF Handles, Steady
  <2>5. client' = client BY DEF AgentFence
  <2>6. "abort" \in Steps BY DEF Steps
  <2> QED BY <1>1, <1>3, <1>4, <2>1, <2>2, <2>3, <2>4, <2>5, <2>6, AdvancesStep
<1>5. CASE Fails(h) /\ UNCHANGED <<rec, tx, binding>> /\ (Spend(1) \/ UNCHANGED faults)
  <2>1. Steady(h) BY <1>1, <1>5, SpendsWithin DEF Steady, AgentFence, TypeOK
  <2> QED BY <1>1, <1>5, <2>1, QuietStep DEF AgentFence
<1> QED BY <1>4, <1>5 DEF AgentFence

\* BindLocalHuman names a client; one that can write was named before.
LEMMA BindClientKeeps ==
  ASSUME IInv, NEW h \in Handoffs, BindClient(h) PROVE IInv'
<1> USE NoneIsNothing
<1> DEFINE c == op[h].cli
           want == [rec[h] EXCEPT !.client = c, !.expired = @ /\ rec[h].client # None]
<1>1. /\ TypeOK /\ Core /\ Handles(h) /\ op[h] \in Ops /\ Awake(h)
      /\ rec[h] # None /\ rec[h] \in States /\ Shape(rec[h])
      /\ rec[h].phase = "HUMAN_CONNECTING" /\ c \in Clients /\ rec[h].client \in {None, c}
  BY Running DEF BindClient, Runs, Handles, Phase
<1>2. /\ rec[h].owner = "human" /\ rec[h].human = "fenced" /\ rec[h].agent = "fenced"
  BY <1>1 DEF Shape
<1>3. /\ want \in States /\ want.phase = "HUMAN_CONNECTING" /\ want.agent = "fenced"
      /\ want.epoch = rec[h].epoch /\ want.owner = "human" /\ want.human = "fenced"
      /\ want.client = c
  BY <1>1, <1>2 DEF States, Valid
<1>4. CASE Advances(h, want, "grant", 0)
  <2>1. Steady(h) BY <1>1, <1>4, AdvancesSpends DEF Steady, BindClient, TypeOK
  <2> HIDE DEF want
  <2>2. Shape(want) BY <1>3 DEF Shape
  <2>3. Safe(h, want)
    <3>1. \A x \in Clients : Carries(rec[h], x) => Carries(want, x) BY <1>1, <1>3 DEF Carries
    <3> QED BY <1>1, <1>2, <1>3, <3>1, PlainIsSafe
  <2>4. "grant" \in Steps BY DEF Steps
  <2>5. Goes(h, "grant") /\ rec'[h] = want /\ tx'[h] = None => Handles(h)'
    <3> HAVE Goes(h, "grant") /\ rec'[h] = want /\ tx'[h] = None
    <3>1. op'[h].pc = "grant" /\ op'[h].ctl = op[h].ctl /\ op'[h].cli = c BY <1>1, <2>4, Going
    <3>2. Phase(h)' = "HUMAN_CONNECTING" BY <1>3 DEF Phase
    <3> QED BY <1>1, <1>3, <2>1, <3>1, <3>2 DEF Handles, Steady
  <2>6. client' = client BY DEF BindClient
  <2> QED BY <1>1, <1>3, <1>4, <2>1, <2>2, <2>3, <2>4, <2>5, <2>6, AdvancesStep
<1>5. CASE Fails(h) /\ UNCHANGED <<rec, tx, binding, faults>>
  <2>1. Steady(h) BY <1>1, <1>5 DEF Steady, BindClient, TypeOK
  <2> QED BY <1>1, <1>5, <2>1, QuietStep DEF BindClient
<1> QED BY <1>4, <1>5 DEF BindClient

\* MarkHumanWriteAuthorityGranted touches neither record nor client.
LEMMA GrantKeeps ==
  ASSUME IInv, NEW h \in Handoffs, Grant(h) PROVE IInv'
<1> USE NoneIsNothing
<1>1. /\ TypeOK /\ Core /\ Handles(h) /\ op[h] \in Ops /\ Awake(h)
      /\ op[h].pc \in {"grant", "regrant"}
  BY Running DEF Grant
<1>2. Steady(h) BY <1>1, SpendsWithin DEF Steady, Grant, TypeOK
<1>3. ASSUME NEW pc \in {"toggle", "rearm"}, Goes(h, pc) PROVE Handles(h)'
  <2>1. op'[h].pc = pc /\ op'[h].ctl = op[h].ctl /\ op'[h].cli = op[h].cli
    BY <1>1, <1>3, Going DEF Steps
  <2>2. Phase(h)' = Phase(h) BY DEF Grant, Phase
  <2> QED BY <1>1, <2>1, <2>2 DEF Handles, Grant
<1>4. /\ UNCHANGED <<rec, tx, binding, client>>
      /\ Fails(h) \/ Goes(h, "toggle") \/ Goes(h, "rearm")
  BY DEF Grant
<1>5. "toggle" \in Steps /\ "rearm" \in Steps BY DEF Steps
<1> QED BY <1>1, <1>2, <1>3, <1>4, <1>5, QuietStep

\* FenceHumanIngress never makes a client writable.
LEMMA FenceOutcome ==
  ASSUME TypeOK, NEW c \in Clients, NEW f \in Fence(c), client' = [client EXCEPT ![c] = f.cli]
  PROVE  /\ client' \in [Clients -> {"none", "ro", "rw", "gone"}]
         /\ \A x \in Clients : client'[x] = "rw" => client[x] = "rw"
         /\ f.says \in {"fenced", "missing"} => client'[c] # "rw"
         /\ f.bad \in {0, 1}
<1>1. client[c] \in {"none", "ro", "rw", "gone"} BY DEF TypeOK
<1>2. /\ f.cli \in {"ro", "gone", client[c]} /\ f.bad \in {0, 1}
      /\ f.says \in {"fenced", "missing"} => f.cli \in {"ro", "gone"}
  BY DEF Fence
<1> QED BY <1>1, <1>2 DEF TypeOK

\* makeHumanWritable: the record has no transaction and fences the agent, so
\* the lane is free and the client that becomes writable is known.
LEMMA MakeHumanWritableKeeps ==
  ASSUME IInv, NEW h \in Handoffs, MakeHumanWritable(h) PROVE IInv'
<1> USE NoneIsNothing
<1> DEFINE c == op[h].cli
<1>1. /\ TypeOK /\ Core /\ Handles(h) /\ op[h] \in Ops /\ Awake(h) /\ op[h].pc = "toggle"
  BY Running DEF MakeHumanWritable, Runs
<1>2. /\ tx[h] = None /\ c \in Clients /\ rec[h] # None /\ rec[h] \in States /\ Shape(rec[h])
      /\ rec[h].phase \in {"HUMAN_CONNECTING", "RECLAIM_PENDING"} /\ rec[h].owner = "human"
      /\ rec[h].agent = "fenced" /\ rec[h].client = c
  <2>1. /\ tx[h] = None /\ c \in Clients /\ rec[h].client = c
        /\ \/ Phase(h) = "HUMAN_CONNECTING"
           \/ Phase(h) = "RECLAIM_PENDING" /\ rec[h].owner = "human"
    BY <1>1 DEF Handles
  <2>2. rec[h] # None /\ rec[h] \in States /\ Shape(rec[h]) /\ Phase(h) = rec[h].phase
    BY <2>1, Running
  <2> QED BY <2>1, <2>2 DEF Shape
<1> HIDE DEF c
<1>3. UNCHANGED <<rec, tx, binding>> /\ client' \in [Clients -> {"none", "ro", "rw", "gone"}]
  BY <1>1 DEF MakeHumanWritable, TypeOK, c
<1>4. Steady(h) BY <1>1, <1>3, SpendsWithin DEF Steady, MakeHumanWritable, TypeOK
<1>5. Fails(h) \/ Goes(h, "own") BY DEF MakeHumanWritable
<1>6. "own" \in Steps BY DEF Steps
<1>7. Goes(h, "own") => Handles(h)'
  <2> HAVE Goes(h, "own")
  <2>1. op'[h].pc = "own" /\ op'[h].ctl = op[h].ctl /\ op'[h].cli = op[h].cli
    BY <1>1, <1>6, Going
  <2>2. Phase(h)' = Phase(h) BY <1>3 DEF Phase
  <2> QED BY <1>1, <1>3, <1>4, <2>1, <2>2 DEF Handles, Steady
<1>8. CASE ProviderUp /\ client[c] \in {"ro", "rw"}
  <2>1. \A x \in Clients : client'[x] = "rw" => client[x] = "rw" \/ x = c
    BY <1>1, <1>2, <1>8 DEF MakeHumanWritable, TypeOK, c
  <2>2. Matches(h, rec[h], binding) BY <1>1, <1>2 DEF Core, Storing, Stored
  <2>3. lane = "free" BY <1>1, <1>2, <2>2 DEF Core, Laning, Unfenced, TypeOK
  <2>4. Known(c) BY <1>2, <1>8, <2>2, <2>3 DEF Known, Matches, ProviderUp, Carries
  <2>5. Watching' BY <1>1, <1>3, <1>4, <2>1, <2>4 DEF Core, Watching, Known, Steady
  <2>6. Storing' /\ Stores(h) BY <1>1, <1>3 DEF Core, Storing, Stores, TypeOK, Taken
  <2>7. Laning' BY <2>3, <1>4 DEF Laning, Steady
  <2>8. tx'[h] = None BY <1>2, <1>3
  <2>9. Handles(h)' /\ Turns(h) BY <1>1, <1>5, <1>6, <1>7, <2>8, Failing, Going DEF Turns
  <2> QED BY <1>4, <2>5, <2>6, <2>7, <2>9, HandlerKeeps
<1>9. CASE ~ProviderUp \/ client[c] \notin {"ro", "rw"}
  <2>1. client' = client BY <1>9 DEF MakeHumanWritable, c
  <2> QED BY <1>1, <1>3, <1>4, <1>5, <1>6, <1>7, <2>1, QuietStep
<1> QED BY <1>8, <1>9

\* The record that says HUMAN_OWNED keeps its client; fencing takes no new one.
LEMMA OwnKeeps ==
  ASSUME IInv, NEW h \in Handoffs, Own(h) PROVE IInv'
<1> USE NoneIsNothing
<1> DEFINE c == op[h].cli
           want == Owned(h)
<1>1. /\ TypeOK /\ Core /\ Handles(h) /\ op[h] \in Ops /\ Awake(h) /\ op[h].pc = "own"
  BY Running DEF Own, Runs
<1>2. /\ tx[h] = None /\ c \in Clients /\ rec[h] # None /\ rec[h] \in States /\ Shape(rec[h])
      /\ rec[h].phase \in {"HUMAN_CONNECTING", "RECLAIM_PENDING"} /\ rec[h].owner = "human"
      /\ rec[h].agent = "fenced" /\ rec[h].client = c
  <2>1. /\ tx[h] = None /\ c \in Clients /\ rec[h].client = c
        /\ \/ Phase(h) = "HUMAN_CONNECTING"
           \/ Phase(h) = "RECLAIM_PENDING" /\ rec[h].owner = "human"
    BY <1>1 DEF Handles
  <2>2. rec[h] # None /\ rec[h] \in States /\ Shape(rec[h]) /\ Phase(h) = rec[h].phase
    BY <2>1, Running
  <2> QED BY <2>1, <2>2 DEF Shape
<1>3. /\ want \in States /\ want.phase = "HUMAN_OWNED" /\ want.agent = "fenced"
      /\ want.epoch = rec[h].epoch /\ want.owner = "human" /\ want.client = c
  BY <1>1, <1>2 DEF Owned, States, Valid, Ingress
<1>4. PICK o \in Advance(h, want) :
        /\ Write(h, o.d)
        /\ IF o.ok THEN Ends(h) /\ Spend(o.bad) /\ UNCHANGED client
           ELSE \E f \in Fence(c) : /\ Fails(h) /\ Spend(o.bad + f.bad)
                                    /\ client' = [client EXCEPT ![c] = f.cli]
  BY DEF Own
<1>5. o.bad \in {0, 1} BY FailsOnce
<1> HIDE DEF want, c
<1>6. Shape(want) BY <1>2, <1>3 DEF Shape
<1>7. Safe(h, want)
  <2>1. \A x \in Clients : Carries(rec[h], x) => Carries(want, x) BY <1>2, <1>3 DEF Carries
  <2> QED BY <1>1, <1>2, <1>3, <2>1, PlainIsSafe
<1>8. CASE o.ok
  <2>1. faults' \in 0 .. MaxFaults BY <1>1, <1>4, <1>5, <1>8, SpendsWithin
  <2>2. Steady(h) BY <1>1, <1>4, <1>8, <2>1 DEF Steady, Own, TypeOK
  <2>3. client' = client BY <1>4, <1>8
  <2> QED BY <1>1, <1>2, <1>3, <1>4, <1>6, <1>7, <1>8, <2>2, <2>3, AdvanceStep
<1>9. CASE ~o.ok
  <2>1. PICK f \in Fence(c) : /\ Fails(h) /\ Spend(o.bad + f.bad)
                              /\ client' = [client EXCEPT ![c] = f.cli]
    BY <1>4, <1>9
  <2>2. /\ client' \in [Clients -> {"none", "ro", "rw", "gone"}]
        /\ \A x \in Clients : client'[x] = "rw" => client[x] = "rw"
        /\ f.bad \in {0, 1}
    BY <1>1, <1>2, <2>1, FenceOutcome
  <2>3. o.bad + f.bad \in Nat BY <1>5, <2>2
  <2>4. Steady(h) BY <1>1, <2>1, <2>2, <2>3, SpendsWithin DEF Steady, Own, TypeOK
  <2> QED BY <1>1, <1>2, <1>3, <1>4, <1>6, <1>7, <2>1, <2>2, <2>4, AdvanceStep
<1> QED BY <1>8, <1>9

\* The record of a client that is writable already: it stays known.
LEMMA RearmKeeps ==
  ASSUME IInv, NEW h \in Handoffs, Rearm(h) PROVE IInv'
<1> USE NoneIsNothing
<1> DEFINE c == op[h].cli
           want == Owned(h)
<1>1. /\ TypeOK /\ Core /\ Handles(h) /\ op[h] \in Ops /\ Awake(h) /\ op[h].pc = "rearm"
  BY Running DEF Rearm, Runs
<1>2. /\ tx[h] = None /\ c \in Clients /\ rec[h] # None /\ rec[h] \in States /\ Shape(rec[h])
      /\ rec[h].phase \in {"HUMAN_CONNECTING", "RECLAIM_PENDING"} /\ rec[h].owner = "human"
      /\ rec[h].agent = "fenced" /\ rec[h].client = c
  <2>1. /\ tx[h] = None /\ c \in Clients /\ rec[h].client = c
        /\ \/ Phase(h) = "HUMAN_CONNECTING"
           \/ Phase(h) = "RECLAIM_PENDING" /\ rec[h].owner = "human"
    BY <1>1 DEF Handles
  <2>2. rec[h] # None /\ rec[h] \in States /\ Shape(rec[h]) /\ Phase(h) = rec[h].phase
    BY <2>1, Running
  <2> QED BY <2>1, <2>2 DEF Shape
<1>3. /\ want \in States /\ want.phase = "HUMAN_OWNED" /\ want.agent = "fenced"
      /\ want.epoch = rec[h].epoch /\ want.owner = "human" /\ want.client = c
  BY <1>1, <1>2 DEF Owned, States, Valid, Ingress
<1>4. client' = client BY DEF Rearm
<1>5. CASE Advances(h, want, "end", 0)
  <2> HIDE DEF want, c
  <2>1. Shape(want) BY <1>2, <1>3 DEF Shape
  <2>2. \A x \in Clients : Carries(rec[h], x) => Carries(want, x) BY <1>2, <1>3 DEF Carries
  <2>3. Safe(h, want) BY <1>1, <1>2, <1>3, <2>2, PlainIsSafe
  <2>4. Steady(h) BY <1>1, <1>5, AdvancesSpends DEF Steady, Rearm, TypeOK
  <2> QED BY <1>1, <1>2, <1>3, <1>4, <1>5, <2>1, <2>3, <2>4, AdvancesStep
<1>6. CASE Fails(h) /\ UNCHANGED <<rec, tx, binding>> /\ (Spend(1) \/ UNCHANGED faults)
  <2>1. Steady(h) BY <1>1, <1>6, SpendsWithin DEF Steady, Rearm, TypeOK
  <2> QED BY <1>1, <1>4, <1>6, <2>1, QuietStep
<1> QED BY <1>5, <1>6 DEF Rearm

\* A client that cannot be proven stays known.
LEMMA BlocksStep ==
  ASSUME IInv, NEW h \in Handoffs, Steady(h), boot # "down", rec[h] # None,
         rec[h].phase \in {"HUMAN_CONNECTING", "HUMAN_OWNED", "HUMAN_FENCING", "ABORTED"},
         NEW cost, Blocks(h, cost),
         \A c \in Clients : client'[c] = "rw" => client[c] = "rw"
  PROVE  IInv'
<1> USE NoneIsNothing
<1> DEFINE want == Blocked(h)
<1>1. TypeOK /\ Core /\ rec[h] \in States /\ Shape(rec[h]) BY Running
<1>2. rec[h].agent = "fenced" /\ rec[h].owner # "agent" BY <1>1 DEF Shape
<1>3. rec[h].client \in Clients \cup {None} BY <1>1, Fields
<1>4. /\ want \in States /\ want.phase = "RECLAIM_PENDING" /\ want.agent = "fenced"
      /\ want.epoch = rec[h].epoch /\ want.owner = rec[h].owner /\ want.client = rec[h].client
  BY <1>1, <1>3 DEF Blocked, States, Valid, Ingress
<1>5. PICK o \in Advance(h, want) : Write(h, o.d) /\ Fails(h) BY DEF Blocks
<1> HIDE DEF want
<1>6. Shape(want) BY <1>2, <1>4 DEF Shape
<1>7. \A x \in Clients : Carries(rec[h], x) => Carries(want, x) BY <1>4 DEF Carries
<1>8. Safe(h, want) BY <1>1, <1>2, <1>4, <1>7, PlainIsSafe
<1> QED BY <1>4, <1>5, <1>6, <1>8, AdvanceStep

\* What it costs is within the bound.
LEMMA BlocksSpends ==
  ASSUME TypeOK, NEW h, NEW cost \in Nat, Blocks(h, cost) PROVE faults' \in 0 .. MaxFaults
<1>1. PICK o \in Advance(h, Blocked(h)) : Spend(cost + o.bad) BY DEF Blocks
<1>2. cost + o.bad \in Nat BY FailsOnce
<1> QED BY <1>1, <1>2, SpendsWithin

\* ready drops the client only when it cannot write any more.
LEMMA ReadyKeeps ==
  ASSUME IInv, NEW h \in Handoffs, Ready(h) PROVE IInv'
<1> USE NoneIsNothing
<1>1. /\ TypeOK /\ Core /\ Handles(h) /\ op[h] \in Ops /\ Awake(h) /\ op[h].pc = "fencing"
  BY Running DEF Ready, Runs
<1>2. \A pc \in {"fencing", "reclaim"} : pc \in Steps BY DEF Steps
<1>3. ASSUME NEW pc \in {"fencing", "reclaim"}, Goes(h, pc),
             pc = "reclaim" => Phase(h)' = "HUMAN_FENCING"
      PROVE  Handles(h)'
  <2>1. op'[h].pc = pc /\ op'[h].ctl = op[h].ctl /\ op'[h].cli = op[h].cli
    BY <1>1, <1>2, <1>3, Going
  <2> QED BY <1>1, <1>3, <2>1 DEF Handles, Ready
<1>4. CASE Phase(h) = "AGENT_OWNED" /\ Ends(h) /\ UNCHANGED <<rec, tx, binding, client, faults>>
  <2>1. Steady(h) BY <1>1, <1>4 DEF Steady, Ready, TypeOK
  <2> QED BY <1>1, <1>4, <2>1, QuietStep
<1>5. CASE /\ Phase(h) = "HUMAN_OWNED" /\ UNCHANGED client
           /\ Advances(h, [rec[h] EXCEPT !.phase = "HUMAN_FENCING"], "fencing", 0)
  <2> DEFINE want == [rec[h] EXCEPT !.phase = "HUMAN_FENCING"]
  <2>1. rec[h] # None /\ rec[h] \in States /\ Shape(rec[h]) /\ rec[h].phase = "HUMAN_OWNED"
    BY <1>5, Running
  <2>2. rec[h].owner = "human" /\ rec[h].agent = "fenced" BY <2>1 DEF Shape
  <2>3. /\ want \in States /\ want.phase = "HUMAN_FENCING" /\ want.agent = "fenced"
        /\ want.epoch = rec[h].epoch /\ want.owner = "human" /\ want.client = rec[h].client
    BY <2>1, <2>2 DEF States, Valid
  <2>4. Advances(h, want, "fencing", 0) BY <1>5
  <2> HIDE DEF want
  <2>5. Shape(want) BY <2>3 DEF Shape
  <2>6. \A x \in Clients : Carries(rec[h], x) => Carries(want, x) BY <2>1, <2>3 DEF Carries
  <2>7. Safe(h, want) BY <1>1, <2>1, <2>2, <2>3, <2>6, PlainIsSafe
  <2>8. Steady(h) BY <1>1, <1>5, <2>4, AdvancesSpends DEF Steady, Ready, TypeOK
  <2> QED BY <1>1, <1>2, <1>3, <1>5, <2>1, <2>3, <2>4, <2>5, <2>7, <2>8, AdvancesStep
<1>6. CASE Fails(h) /\ UNCHANGED <<rec, tx, binding, client, faults>>
  <2>1. Steady(h) BY <1>1, <1>6 DEF Steady, Ready, TypeOK
  <2> QED BY <1>1, <1>6, <2>1, QuietStep
<1>7. CASE /\ Phase(h) = "HUMAN_FENCING" /\ Goes(h, "reclaim")
           /\ UNCHANGED <<rec, tx, binding, client, faults>>
  <2>1. Steady(h) BY <1>1, <1>7 DEF Steady, Ready, TypeOK
  <2>2. Phase(h)' = "HUMAN_FENCING" BY <1>7 DEF Phase
  <2> QED BY <1>1, <1>2, <1>3, <1>7, <2>1, <2>2, QuietStep
<1>8. CASE /\ Phase(h) = "HUMAN_FENCING" /\ rec[h].human # "fenced" /\ rec[h].client # None
           /\ \E f \in Fence(rec[h].client) :
             /\ client' = [client EXCEPT ![rec[h].client] = f.cli]
             /\ IF f.says = "fenced" \/ (f.says = "missing" /\ boot = "reconcile")
                  THEN Advances(h, [rec[h] EXCEPT !.human = "fenced",
                         !.client = IF f.says = "missing" THEN None ELSE @], "reclaim", f.bad)
                  ELSE \/ Spend(f.bad) /\ Fails(h) /\ UNCHANGED <<rec, tx, binding>>
                       \/ boot = "reconcile" /\ Blocks(h, f.bad)
  <2>1. rec[h] # None /\ rec[h] \in States /\ Shape(rec[h]) /\ rec[h].phase = "HUMAN_FENCING"
    BY <1>8, Running
  <2>2. rec[h].owner = "human" /\ rec[h].agent = "fenced" /\ rec[h].client \in Clients
    BY <1>8, <2>1, Fields DEF Shape
  <2>3. PICK f \in Fence(rec[h].client) :
             /\ client' = [client EXCEPT ![rec[h].client] = f.cli]
             /\ IF f.says = "fenced" \/ (f.says = "missing" /\ boot = "reconcile")
                  THEN Advances(h, [rec[h] EXCEPT !.human = "fenced",
                         !.client = IF f.says = "missing" THEN None ELSE @], "reclaim", f.bad)
                  ELSE \/ Spend(f.bad) /\ Fails(h) /\ UNCHANGED <<rec, tx, binding>>
                       \/ boot = "reconcile" /\ Blocks(h, f.bad)
    BY <1>8
  <2> DEFINE want == [rec[h] EXCEPT !.human = "fenced",
         !.client = IF f.says = "missing" THEN None ELSE @]
  <2>4. /\ client' \in [Clients -> {"none", "ro", "rw", "gone"}]
        /\ \A x \in Clients : client'[x] = "rw" => client[x] = "rw"
        /\ f.says \in {"fenced", "missing"} => client'[rec[h].client] # "rw"
        /\ f.bad \in {0, 1}
    BY <1>1, <2>2, <2>3, FenceOutcome
  <2>5. CASE f.says \in {"fenced", "missing"} /\ Advances(h, want, "reclaim", f.bad)
    <3>1. /\ want \in States /\ want.phase = "HUMAN_FENCING" /\ want.agent = "fenced"
          /\ want.epoch = rec[h].epoch /\ want.owner = "human"
      BY <2>1, <2>2 DEF States, Valid, Ingress
    <3> HIDE DEF want
    <3>2. Shape(want) BY <3>1 DEF Shape
    <3>3. \A x \in Clients : ~(client'[x] = "rw" /\ Carries(rec[h], x))
      BY <2>4, <2>5 DEF Carries
    <3>4. Safe(h, want) BY <1>1, <2>1, <2>2, <3>1, <3>3, PlainIsSafe
    <3>5. faults' \in 0 .. MaxFaults BY <1>1, <2>4, <2>5, AdvancesSpends
    <3>6. Steady(h) BY <1>1, <2>4, <3>5 DEF Steady, Ready, TypeOK
    <3>7. rec'[h] = want => Phase(h)' = "HUMAN_FENCING" BY <3>1 DEF Phase
    <3> QED BY <1>1, <1>2, <1>3, <2>1, <2>4, <2>5, <3>1, <3>2, <3>4, <3>6, <3>7, AdvancesStep
  <2>6. CASE Spend(f.bad) /\ Fails(h) /\ UNCHANGED <<rec, tx, binding>>
    <3>1. faults' \in 0 .. MaxFaults BY <1>1, <2>4, <2>6, SpendsWithin
    <3>2. Steady(h) BY <1>1, <2>4, <3>1 DEF Steady, Ready, TypeOK
    <3> QED BY <1>1, <2>4, <2>6, <3>2, QuietStep
  <2>7. CASE Blocks(h, f.bad)
    <3>1. faults' \in 0 .. MaxFaults BY <1>1, <2>4, <2>7, BlocksSpends
    <3>2. Steady(h) BY <1>1, <2>4, <3>1 DEF Steady, Ready, TypeOK
    <3> QED BY <1>1, <2>1, <2>4, <2>7, <3>2, BlocksStep
  <2> QED BY <2>3, <2>5, <2>6, <2>7
<1> QED BY <1>4, <1>5, <1>6, <1>7, <1>8 DEF Ready

\* The agent gets the session back after the only client that could write was
\* proven read-only or gone.
LEMMA ReclaimKeeps ==
  ASSUME IInv, NEW h \in Handoffs, Reclaim(h) PROVE IInv'
<1> USE NoneIsNothing
<1> DEFINE c == rec[h].client
           want == [rec[h] EXCEPT !.phase = "AGENT_OWNED", !.epoch = @ + 1,
                      !.owner = "agent", !.agent = "writable", !.human = "fenced",
                      !.client = IF c # None /\ client[c] = "gone" THEN None ELSE @]
<1>1. /\ TypeOK /\ Core /\ Handles(h) /\ op[h] \in Ops /\ Awake(h)
      /\ rec[h] # None /\ rec[h] \in States /\ Shape(rec[h]) /\ rec[h].phase = "HUMAN_FENCING"
  BY Running DEF Reclaim, Runs, Handles, Phase
<1>2. rec[h].owner = "human" /\ rec[h].agent = "fenced" /\ rec[h].epoch \in Nat
        /\ rec[h].epoch + 1 \in Nat
    BY <1>1, Fields DEF Shape
<1>3. CASE Advances(h, want, "end", 0) /\ (c # None => Prepared(c) \/ client[c] = "gone")
  <2>1. /\ want \in States /\ want.phase = "AGENT_OWNED" /\ want.agent = "writable"
        /\ want.epoch = rec[h].epoch + 1 /\ want.owner = "agent"
    BY <1>1, <1>2 DEF States, Valid, Ingress, Owners
  <2> HIDE DEF want
  <2>2. Shape(want) BY <2>1 DEF Shape
  <2>3. client' = client BY DEF Reclaim
  <2>4. \A x \in Clients : ~(client'[x] = "rw" /\ Carries(rec[h], x))
    BY <1>3, <2>3 DEF Carries, Prepared
  <2>5. Safe(h, want) BY <1>1, <1>2, <2>1, <2>2, <2>4, RaisedIsSafe
  <2>6. Steady(h) BY <1>1, <1>3, AdvancesSpends DEF Steady, Reclaim, TypeOK
  <2> QED BY <1>1, <1>3, <2>1, <2>2, <2>3, <2>5, <2>6, AdvancesStep
<1>4. CASE Fails(h) /\ UNCHANGED <<rec, tx, binding>> /\ (Spend(1) \/ UNCHANGED faults)
  <2>1. Steady(h) BY <1>1, <1>4, SpendsWithin DEF Steady, Reclaim, TypeOK
  <2> QED BY <1>1, <1>4, <2>1, QuietStep DEF Reclaim
<1> QED BY <1>3, <1>4 DEF Reclaim

\* abortLoaded takes the next epoch after its client was fenced.
LEMMA AbortKeeps ==
  ASSUME IInv, NEW h \in Handoffs, Abort(h) PROVE IInv'
<1> USE NoneIsNothing
<1> DEFINE c == rec[h].client
           want == [rec[h] EXCEPT !.phase = "ABORTED", !.epoch = @ + 1, !.owner = "none",
                                  !.agent = "fenced", !.human = "fenced"]
<1>1. /\ TypeOK /\ Core /\ Handles(h) /\ op[h] \in Ops /\ Awake(h)
  BY Running DEF Abort, Runs
<1>2. ASSUME Phase(h) \in {"HUMAN_CONNECTING", "HUMAN_OWNED", "HUMAN_FENCING"},
             NEW cost \in {0, 1}, Advances(h, want, "end", cost),
             client' \in [Clients -> {"none", "ro", "rw", "gone"}],
             \A x \in Clients : client'[x] = "rw" => client[x] = "rw",
             c # None => client'[c] # "rw"
      PROVE  IInv'
  <2>1. /\ rec[h] # None /\ rec[h] \in States /\ Shape(rec[h])
        /\ rec[h].phase \in {"HUMAN_CONNECTING", "HUMAN_OWNED", "HUMAN_FENCING"}
    BY <1>2, Running
  <2>2. rec[h].owner = "human" /\ rec[h].agent = "fenced" /\ rec[h].epoch \in Nat
        /\ rec[h].epoch + 1 \in Nat
    BY <2>1, Fields DEF Shape
  <2>3. /\ want \in States /\ want.phase = "ABORTED" /\ want.agent = "fenced"
        /\ want.human = "fenced"
        /\ want.epoch = rec[h].epoch + 1 /\ want.owner = "none"
    BY <2>1, <2>2 DEF States, Valid, Ingress, Owners
  <2> HIDE DEF want
  <2>4. Shape(want) BY <2>3 DEF Shape
  <2>5. \A x \in Clients : ~(client'[x] = "rw" /\ Carries(rec[h], x)) BY <1>2 DEF Carries
  <2>6. Safe(h, want) BY <1>1, <2>1, <2>2, <2>3, <2>4, <2>5, RaisedIsSafe
  <2>7. faults' \in 0 .. MaxFaults BY <1>1, <1>2, AdvancesSpends
  <2>8. Steady(h) BY <1>1, <1>2, <2>7 DEF Steady, Abort, TypeOK
  <2> QED BY <1>1, <1>2, <2>1, <2>3, <2>4, <2>6, <2>8, AdvancesStep
<1>3. ASSUME Fails(h) \/ Ends(h), UNCHANGED <<rec, tx, binding>>, faults' \in 0 .. MaxFaults,
             client' \in [Clients -> {"none", "ro", "rw", "gone"}],
             \A x \in Clients : client'[x] = "rw" => client[x] = "rw"
      PROVE  IInv'
  <2>1. Steady(h) BY <1>1, <1>3 DEF Steady, Abort, TypeOK
  <2> QED BY <1>1, <1>3, <2>1, QuietStep
<1>4. client \in [Clients -> {"none", "ro", "rw", "gone"}] /\ faults \in 0 .. MaxFaults
  BY <1>1 DEF TypeOK
<1>5. CASE (Fails(h) \/ Ends(h)) /\ UNCHANGED <<rec, tx, binding, client, faults>>
  BY <1>3, <1>4, <1>5
<1>6. CASE /\ Phase(h) \in {"HUMAN_CONNECTING", "HUMAN_OWNED", "HUMAN_FENCING"}
           /\ Advances(h, want, "end", 0) /\ UNCHANGED client /\ (c = None \/ Prepared(c))
  BY <1>2, <1>4, <1>6 DEF Prepared
<1>7. CASE /\ Phase(h) \in {"HUMAN_CONNECTING", "HUMAN_OWNED", "HUMAN_FENCING"} /\ c # None
           /\ \E f \in Fence(c) :
                /\ client' = [client EXCEPT ![c] = f.cli]
                /\ IF f.says = "fenced" THEN Advances(h, want, "end", f.bad)
                   ELSE Spend(f.bad) /\ Fails(h) /\ UNCHANGED <<rec, tx, binding>>
  <2>1. c \in Clients BY <1>7, Running, Fields
  <2>2. PICK f \in Fence(c) :
          /\ client' = [client EXCEPT ![c] = f.cli]
          /\ IF f.says = "fenced" THEN Advances(h, want, "end", f.bad)
             ELSE Spend(f.bad) /\ Fails(h) /\ UNCHANGED <<rec, tx, binding>>
    BY <1>7
  <2>3. /\ client' \in [Clients -> {"none", "ro", "rw", "gone"}]
        /\ \A x \in Clients : client'[x] = "rw" => client[x] = "rw"
        /\ f.says \in {"fenced", "missing"} => client'[c] # "rw"
        /\ f.bad \in {0, 1}
    BY <1>1, <2>1, <2>2, FenceOutcome
  <2> HIDE DEF want
  <2>4. CASE f.says = "fenced" BY <1>2, <1>7, <2>2, <2>3, <2>4
  <2>5. CASE f.says # "fenced"
    <3>1. faults' \in 0 .. MaxFaults BY <1>1, <2>2, <2>3, <2>5, SpendsWithin
    <3> QED BY <1>3, <2>2, <2>3, <2>5, <3>1
  <2> QED BY <2>4, <2>5
<1> HIDE DEF want
<1> QED BY <1>5, <1>6, <1>7 DEF Abort, want

\* resume starts from a handoff that was aborted, whose client cannot write.
LEMMA ResumeKeeps ==
  ASSUME IInv, NEW h \in Handoffs, Resume(h) PROVE IInv'
<1> USE NoneIsNothing
<1> DEFINE want == [rec[h] EXCEPT !.phase = "HUMAN_CONNECTING", !.epoch = @ + 1,
                      !.owner = "human", !.agent = "fenced", !.human = "fenced",
                         !.client = None]
<1>1. /\ TypeOK /\ Core /\ Handles(h) /\ op[h] \in Ops /\ Awake(h)
  BY Running DEF Resume, Runs
<1>2. CASE Phase(h) = "ABORTED" /\ ~rec[h].expired /\ Advances(h, want, "end", 0)
  <2>1. rec[h] # None /\ rec[h] \in States /\ Shape(rec[h]) /\ rec[h].phase = "ABORTED"
    BY <1>2, Running
  <2>2. rec[h].agent = "fenced" /\ rec[h].epoch \in Nat
        /\ rec[h].epoch + 1 \in Nat
    BY <2>1, Fields DEF Shape
  <2>3. /\ want \in States /\ want.phase = "HUMAN_CONNECTING" /\ want.agent = "fenced"
        /\ want.human = "fenced"
        /\ want.epoch = rec[h].epoch + 1 /\ want.owner = "human"
    BY <2>1, <2>2 DEF States, Valid, Ingress, Owners
  <2> HIDE DEF want
  <2>4. Shape(want) BY <2>3 DEF Shape
  <2>5. \A x \in Clients : ~(client'[x] = "rw" /\ Carries(rec[h], x)) BY <1>2, <2>1 DEF Carries
  <2>6. Safe(h, want) BY <1>1, <2>1, <2>2, <2>3, <2>4, <2>5, RaisedIsSafe
  <2>7. Steady(h) BY <1>1, <1>2, AdvancesSpends DEF Steady, Resume, TypeOK
  <2> QED BY <1>1, <1>2, <2>1, <2>3, <2>4, <2>6, <2>7, AdvancesStep DEF Resume
<1>3. CASE (Fails(h) \/ Ends(h)) /\ UNCHANGED <<rec, tx, binding, faults>>
  <2>1. Steady(h) BY <1>1, <1>3 DEF Steady, Resume, TypeOK
  <2> QED BY <1>1, <1>3, <2>1, QuietStep DEF Resume
<1> QED BY <1>2, <1>3 DEF Resume

\* A step that only starts or completes a handler.
LEMMA StartKeeps ==
  ASSUME IInv, NEW h \in Handoffs, NEW x \in Ops, op' = [op EXCEPT ![h] = x],
         Awake(h),
         x.ctl # None => ledger'[x.ctl] # None,
         op'[h] = x => Handles(h)',
         UNCHANGED <<binding, rec, tx, granted, client, pane, lane, unresolved, fin, boot, todo,
            crashes>>,
         faults' \in 0 .. MaxFaults, ledger' \in [Controls -> Signals \cup {None}],
         \A k \in Controls : ledger[k] # None => ledger'[k] # None
  PROVE  IInv'
<1>1. TypeOK /\ Storing /\ Laning /\ Watching /\ Handling /\ Booting BY DEF IInv
<1>2. op'[h] = x /\ \A g \in Handoffs : g # h => op'[g] = op[g] BY <1>1 DEF TypeOK
<1>3. op' \in [Handoffs -> Ops] BY <1>1 DEF TypeOK
<1>4. TypeOK' BY <1>1, <1>3 DEF TypeOK
<1>5. Storing' /\ Laning' BY <1>1 DEF Storing, Laning
<1>6. Watching' BY <1>1 DEF Watching, Known
<1>7. Handling'
  <2> SUFFICES ASSUME NEW g \in Handoffs, g # h PROVE Handles(g)' BY <1>2 DEF Handling
  <2>1. Handles(g) /\ op[g] \in Ops BY <1>1 DEF Handling, TypeOK
  <2>2. Phase(g)' = Phase(g) BY DEF Phase
  <2>3. op[g].ctl \in Controls \cup {None} BY <2>1 DEF Ops
  <2> QED BY <1>2, <2>1, <2>2, <2>3 DEF Handles
<1>8. Booting'
  <2>1. \A g \in Handoffs : Phase(g)' = Phase(g) BY DEF Phase
  <2>2. boot = "reconcile" => \A g \in todo : g \in Handoffs /\ op'[g] = op[g]
    BY <1>1, <1>2 DEF TypeOK
  <2> QED BY <1>1, <2>1, <2>2 DEF Booting
<1> QED BY <1>4, <1>5, <1>6, <1>7, <1>8 DEF IInv

\* A request, a control or a bind starts a handler.
LEMMA StartsKeeps ==
  ASSUME IInv, NEW h \in Handoffs, NEW pc \in Steps \ {"done"}, NEW k \in Controls \cup {None},
         NEW c \in Clients \cup {None}, Starts(h, pc, k, c),
         UNCHANGED <<binding, rec, tx, granted, client, pane, lane, unresolved, fin, todo,
            crashes, faults>>,
         ledger' \in [Controls -> Signals \cup {None}], k # None => ledger'[k] # None,
         \A j \in Controls : ledger[j] # None => ledger'[j] # None,
         pc \in {"fence", "abort_fence"} => Phase(h) = "AGENT_FENCING",
         pc = "bind" => Phase(h) = "HUMAN_CONNECTING" /\ c \in Clients
            /\ rec[h].client \in {None, c},
         pc \notin {"grant", "toggle", "own", "regrant", "rearm", "reclaim", "expire"}
  PROVE  IInv'
<1> DEFINE x == [pc |-> pc, ctl |-> k, cli |-> c]
<1>1. x \in Ops /\ x.pc = pc /\ x.ctl = k /\ x.cli = c BY DEF Ops
<1>2. op' = [op EXCEPT ![h] = x] /\ boot' = boot /\ Awake(h)
  BY DEF Starts
<1> HIDE DEF x
<1>3. Phase(h)' = Phase(h) BY DEF Phase
<1>4. op'[h] = x => Handles(h)' BY <1>1, <1>3 DEF Handles
<1>5. faults' \in 0 .. MaxFaults BY DEF IInv, TypeOK
<1> QED BY <1>1, <1>2, <1>4, <1>5, StartKeeps

\* The handler that a control starts.
LEMMA ControlTypes ==
  ASSUME NEW kind \in Kinds
  PROVE  /\ HandlerOf(kind) \in Steps \ {"done"}
         /\ HandlerOf(kind) \in {"fencing", "abort", "resume"}
<1>1. kind \in {"ready", "abort", "resume"} BY DEF Kinds
<1> QED BY <1>1 DEF HandlerOf, Steps

\* A repeated request, an abort and a bind only start a handler.
LEMMA RequestAgainKeeps ==
  ASSUME IInv, NEW h \in Handoffs,
         RequestAgain(h) \/ AbortRequested(h) \/ \E c \in Clients : Bind(h, c)
  PROVE  IInv'
<1> USE NoneIsNothing
<1>1. ledger \in [Controls -> Signals \cup {None}] BY DEF IInv, TypeOK
<1>2. CASE RequestAgain(h)
  <2>1. "fence" \in Steps \ {"done"} BY DEF Steps
  <2> QED BY <1>1, <1>2, <2>1, StartsKeeps DEF RequestAgain
<1>3. CASE AbortRequested(h)
  <2>1. "abort_fence" \in Steps \ {"done"} /\ "abort" \in Steps \ {"done"} BY DEF Steps
  <2>2. CASE Phase(h) = "AGENT_FENCING"
    BY <1>1, <1>3, <2>1, <2>2, StartsKeeps DEF AbortRequested
  <2>3. CASE Phase(h) # "AGENT_FENCING"
    BY <1>1, <1>3, <2>1, <2>3, StartsKeeps DEF AbortRequested
  <2> QED BY <2>2, <2>3
<1>4. ASSUME NEW c \in Clients, Bind(h, c) PROVE IInv'
  <2>1. "bind" \in Steps \ {"done"} BY DEF Steps
  <2> QED BY <1>1, <1>4, <2>1, StartsKeeps DEF Bind
<1> QED BY <1>2, <1>3, <1>4

\* ReserveControlSignal adds to the ledger.
LEMMA ControlKeeps ==
  ASSUME IInv, NEW h \in Handoffs, NEW k \in Controls, NEW kind \in Kinds, Control(h, k, kind)
  PROVE  IInv'
<1> USE NoneIsNothing
<1> DEFINE signal == [handoff |-> h, kind |-> kind, epoch |-> rec[h].epoch, done |-> FALSE]
<1>1. rec[h].epoch \in Nat BY Running, Fields DEF Control
<1>2. signal \in Signals BY <1>1 DEF Signals
<1>3. ledger' = [ledger EXCEPT ![k] = signal] /\ ledger \in [Controls -> Signals \cup {None}]
  BY DEF Control, IInv, TypeOK
<1> HIDE DEF signal
<1>4. /\ ledger' \in [Controls -> Signals \cup {None}] /\ ledger'[k] # None
      /\ \A j \in Controls : ledger[j] # None => ledger'[j] # None
  BY <1>2, <1>3
<1>5. Starts(h, HandlerOf(kind), k, None) BY DEF Control
<1>6. UNCHANGED <<binding, rec, tx, granted, client, pane, lane, unresolved, fin, todo, crashes,
         faults>>
  BY DEF Control
<1> QED BY <1>4, <1>5, <1>6, ControlTypes, StartsKeeps

\* A repeated control only starts its handler again.
LEMMA ControlAgainKeeps ==
  ASSUME IInv, NEW k \in Controls, ControlAgain(k) PROVE IInv'
<1> USE NoneIsNothing
<1>1. ledger \in [Controls -> Signals \cup {None}] BY DEF IInv, TypeOK
<1>2. ledger[k] \in Signals BY <1>1 DEF ControlAgain
<1>3. ledger[k].handoff \in Handoffs /\ ledger[k].kind \in Kinds BY <1>2 DEF Signals
<1>4. Starts(ledger[k].handoff, HandlerOf(ledger[k].kind), k, None) /\ ledger[k] # None
  BY DEF ControlAgain
<1>5. /\ ledger' = ledger
      /\ UNCHANGED <<binding, rec, tx, granted, client, pane, lane, unresolved, fin, todo,
            crashes, faults>>
  BY DEF ControlAgain
<1> QED BY <1>1, <1>3, <1>4, <1>5, ControlTypes, StartsKeeps

\* CompleteControlSignal changes one signal of the ledger.
LEMMA CompleteKeeps ==
  ASSUME IInv, NEW h \in Handoffs, Complete(h) PROVE IInv'
<1> USE NoneIsNothing
<1>1. /\ TypeOK /\ Handles(h) /\ op[h] \in Ops /\ op[h].pc = "done" /\ Awake(h)
  BY Running DEF Complete, Runs
<1>2. op[h].ctl \in Controls /\ ledger[op[h].ctl] \in Signals BY <1>1 DEF Handles, Ops, TypeOK
<1>3. /\ ledger' \in [Controls -> Signals \cup {None}]
      /\ \A j \in Controls : ledger[j] # None => ledger'[j] # None
  <2>1. CASE ledger' = ledger BY <1>1, <2>1 DEF TypeOK
  <2>2. CASE ledger' = [ledger EXCEPT ![op[h].ctl].done = TRUE]
    <3> DEFINE s == [ledger[op[h].ctl] EXCEPT !.done = TRUE]
    <3>1. s \in Signals BY <1>2 DEF Signals
    <3>2. ledger' = [ledger EXCEPT ![op[h].ctl] = s] BY <2>2
    <3> HIDE DEF s
    <3> QED BY <1>1, <1>2, <3>1, <3>2 DEF TypeOK
  <2> QED BY <2>1, <2>2 DEF Complete
<1>4. faults' \in 0 .. MaxFaults BY <1>1, SpendsWithin DEF Complete, TypeOK
<1>5. op'[h] = Idle => Handles(h)' BY IdleHandles
<1>6. Idle.ctl = None BY DEF Idle
<1> QED BY <1>1, <1>3, <1>4, <1>5, <1>6, IdleIsOp, StartKeeps DEF Complete

\* What recovery leaves of a handoff.
LEMMA RolledFacts ==
  ASSUME Core, NEW h \in Handoffs, CanRecover(Disk(h))
  PROVE  /\ Rolled(h) \in Disks /\ Rolled(h).tx = None
         /\ Stored(h, Rolled(h).rec, Rolled(h).tx, Rolled(h).binding)
         /\ Taken(h, binding, Rolled(h).binding)
         /\ lane = "agent" => Unfenced(h, Rolled(h).rec, Rolled(h).tx, Rolled(h).binding)
         /\ tx[h] = None => Rolled(h).rec = rec[h] /\ Rolled(h).binding = binding
         /\ tx[h] # None => Rolled(h).rec = tx[h].rec
         /\ rec[h] # None => Rolled(h).rec \in States
         /\ \A c \in Clients : Known(c) /\ binding.by = h =>
              Rolled(h).rec # None /\ Carries(Rolled(h).rec, c)
                 /\ Rolled(h).binding.owner # "agent"
<1> USE NoneIsNothing
<1> TypeOK /\ Storing /\ Laning /\ Watching BY DEF Core
<1>1. /\ Disk(h) \in Disks /\ Disk(h).rec = rec[h] /\ Disk(h).tx = tx[h]
      /\ Disk(h).binding = binding
      /\ Stored(h, rec[h], tx[h], binding)
  BY DiskType DEF Storing
<1>2. /\ Rolled(h) \in Disks /\ Rolled(h).tx = None
      /\ Stored(h, Rolled(h).rec, Rolled(h).tx, Rolled(h).binding)
      /\ Taken(h, binding, Rolled(h).binding)
      /\ Unfenced(h, rec[h], tx[h], binding) =>
           Unfenced(h, Rolled(h).rec, Rolled(h).tx, Rolled(h).binding)
      /\ tx[h] = None => Rolled(h).rec = rec[h] /\ Rolled(h).binding = binding
      /\ tx[h] # None => Rolled(h).rec = tx[h].rec /\ Rolled(h).binding = tx[h].target
  BY <1>1, RecoveredDisk DEF Rolled
<1>3. tx[h] # None => tx[h] \in Txs /\ tx[h].rec \in States BY Fields DEF TypeOK
<1>4. rec[h] # None => Rolled(h).rec \in States BY <1>2, <1>3 DEF TypeOK
<1>5. ASSUME NEW c \in Clients, Known(c), binding.by = h
      PROVE  Rolled(h).rec # None /\ Carries(Rolled(h).rec, c)
                /\ Rolled(h).binding.owner # "agent"
  <2>1. CASE tx[h] = None BY <1>2, <1>5, <2>1 DEF Known
  <2>2. CASE tx[h] # None
    <3>1. tx[h].rec.phase = "RECLAIM_PENDING" /\ Carries(tx[h].rec, c) BY <1>5, <2>2 DEF Known
    <3>2. Shape(tx[h].rec) BY <1>1, <2>2 DEF Stored
    <3>3. tx[h].target.owner = tx[h].rec.owner
      BY <1>1, <1>3, <2>2, RecoverableIsNotLost DEF Stored, TypeOK
    <3> QED BY <1>2, <1>3, <2>2, <3>1, <3>2, <3>3 DEF Shape
  <2> QED BY <2>1, <2>2
<1> QED BY <1>2, <1>4, <1>5 DEF Laning

\* Recovery keeps what the store, the lane and the clients say.
LEMMA RollKeeps ==
  ASSUME Core, NEW h \in Handoffs, CanRecover(Disk(h)), Write(h, Rolled(h)), lane' = lane,
         pane' = pane,
         lane = "agent" => boot' = "up",
         \A c \in Clients : client'[c] = "rw" => client[c] = "rw"
  PROVE  Storing' /\ Laning' /\ Watching' /\ Stores(h) /\ rec'[h] = Rolled(h).rec
            /\ tx'[h] = None
<1>1. TypeOK /\ Storing /\ Laning /\ Watching BY DEF Core
<1> QED BY <1>1, RolledFacts, WriteKeeps DEF Stores

\* Expire takes the next epoch from what recovery leaves, and keeps the client.
LEMMA ExpireKeeps ==
  ASSUME IInv, NEW h \in Handoffs, Expire(h) PROVE IInv'
<1> USE NoneIsNothing
<1> DEFINE r == Rolled(h).rec
           want == [r EXCEPT !.phase = "RECLAIM_PENDING", !.epoch = @ + 1,
                      !.owner = "none", !.expired = TRUE,
                      !.agent = IF @ = "writable" THEN "unknown" ELSE @]
<1>1. /\ TypeOK /\ Core /\ Handles(h) /\ op[h] \in Ops /\ boot = "up" /\ rec[h] # None
      /\ CanRecover(Disk(h))
  BY Running DEF Expire, Phase
<1>2. /\ Rolled(h) \in Disks /\ Rolled(h).tx = None
      /\ Stored(h, r, None, Rolled(h).binding)
      /\ lane = "agent" => Unfenced(h, r, None, Rolled(h).binding)
      /\ r \in States /\ Shape(r)
      /\ \A c \in Clients : Known(c) /\ binding.by = h => Carries(r, c)
  BY <1>1, RolledFacts DEF Stored
<1>3. client' = client BY DEF Expire
<1>4. ASSUME Write(h, Rolled(h)), faults' = faults,
             Ends(h) \/ (Goes(h,
                "expire") /\ r.expired /\ r.phase = "RECLAIM_PENDING" /\ r.owner = "none")
      PROVE  IInv'
  <2>1. Steady(h) BY <1>1, <1>4 DEF Steady, Expire, TypeOK
  <2>2. boot' = "up" BY <1>1, <1>4 DEF Ends, Goes
  <2>3. Storing' /\ Laning' /\ Watching' /\ Stores(h) /\ rec'[h] = r /\ tx'[h] = None
    BY <1>1, <1>3, <1>4, <2>1, <2>2, RollKeeps DEF Steady
  <2>4. Handling BY DEF IInv
  <2>5. CASE Ends(h)
    <3>1. Handles(h)' /\ Turns(h) BY <1>1, <2>1, <2>3, <2>4, <2>5, Ending DEF Turns, Steady
    <3> QED BY <2>1, <2>3, <3>1, HandlerKeeps
  <2>6. CASE Goes(h, "expire") /\ r.expired /\ r.phase = "RECLAIM_PENDING" /\ r.owner = "none"
    <3>1. "expire" \in Steps BY DEF Steps
    <3>2. /\ op'[h].pc = "expire" /\ op'[h].ctl = op[h].ctl /\ boot' = boot
          /\ \E x \in Ops : op' = [op EXCEPT ![h] = x]
      BY <1>1, <2>6, <3>1, Going
    <3>3. Phase(h)' = "RECLAIM_PENDING" BY <1>2, <2>3, <2>6 DEF Phase
    <3>4. Handles(h)' BY <1>1, <2>1, <2>3, <2>6, <3>2, <3>3 DEF Handles, Steady
    <3>5. Turns(h) BY <1>1, <2>3, <3>2 DEF Turns
    <3> QED BY <2>1, <2>3, <3>4, <3>5, HandlerKeeps
  <2> QED BY <1>4, <2>5, <2>6
<1>5. ASSUME r.phase \notin {"AGENT_OWNED", "ABORTED"}, Advances(h, want, "expire", 0)
      PROVE  IInv'
  <2>1. r.epoch \in Nat /\ r.epoch + 1 \in Nat /\ r.agent \in Ingress /\ Valid(r)
    BY <1>2, Fields
  <2>2. /\ want \in States /\ want.phase = "RECLAIM_PENDING" /\ want.owner = "none"
        /\ want.expired
        /\ want.epoch = r.epoch + 1 /\ want.client = r.client
        /\ want.agent = "fenced" <=> r.agent = "fenced"
    BY <1>2, <2>1 DEF States, Valid, Ingress, Owners
  <2> HIDE DEF want
  <2>3. Shape(want) BY <2>2 DEF Shape
  <2>4. Matches(h, r, Rolled(h).binding) BY <1>2, <1>5 DEF Stored
  <2>5. MayLog(h, Rolled(h), want) /\ ~MayPut(h, Rolled(h), want)
    BY <1>2, <2>1, <2>2, <2>4 DEF MayLog, MayPut, Matches
  <2>6. lane = "agent" => want.agent # "fenced" BY <1>2, <2>2, <2>4 DEF Unfenced
  <2>7. \A c \in Clients : Known(c) /\ binding.by = h => Carries(want, c)
    BY <1>2, <2>2 DEF Carries
  <2>8. Safe(h, want) BY <2>2, <2>5, <2>6, <2>7 DEF Safe, Fits
  <2>9. Steady(h) BY <1>1, <1>5, AdvancesSpends DEF Steady, Expire, TypeOK
  <2>10. "expire" \in Steps BY DEF Steps
  <2>11. Goes(h, "expire") /\ rec'[h] = want /\ tx'[h] = None => Handles(h)'
    <3> HAVE Goes(h, "expire") /\ rec'[h] = want /\ tx'[h] = None
    <3>1. op'[h].pc = "expire" /\ op'[h].ctl = op[h].ctl BY <1>1, <2>10, Going
    <3>2. Phase(h)' = "RECLAIM_PENDING" BY <2>2 DEF Phase
    <3> QED BY <1>1, <2>2, <2>9, <3>1, <3>2 DEF Handles, Steady
  <2> QED BY <1>1, <1>3, <1>5, <2>2, <2>3, <2>8, <2>9, <2>10, <2>11, AdvancesStep
<1> QED BY <1>4, <1>5 DEF Expire, Rolled

\* A call that is refused before it writes leaves the store as it is.
LEMMA WriteNothing ==
  ASSUME TypeOK, NEW h \in Handoffs, Write(h, Disk(h)) PROVE UNCHANGED <<rec, tx, binding>>
BY DiskType DEF Write, TypeOK

\* The end of finishExpiryLocked.
LEMMA FinishKeeps ==
  ASSUME IInv, NEW h \in Handoffs, Runs(h, "expire"),
         NEW want \in States, want.phase \in {"ABORTED", "RECLAIM_PENDING"},
            want.owner = "none",
         want.expired, want.epoch = rec[h].epoch, want.client \in {rec[h].client, None},
         want.phase = "ABORTED" => want.agent = "fenced" /\ want.human = "fenced",
         want.agent = "fenced" => rec[h].agent = "fenced" \/ lane = "free",
         client' \in [Clients -> {"none", "ro", "rw", "gone"}],
         \A x \in Clients : client'[x] = "rw" => client[x] = "rw",
         want.client = None /\ rec[h].client # None => client'[rec[h].client] # "rw",
         NEW o, IF want # rec[h] THEN o \in Advance(h, want) ELSE o \in Refused(Disk(h)),
         NEW cost \in {0, 1}, Write(h, o.d), Spend(cost + o.bad), Fails(h) \/ (o.ok /\ Ends(h)),
         UNCHANGED <<granted, ledger, pane, lane, unresolved, fin, todo, crashes>>
  PROVE  IInv'
<1> USE NoneIsNothing
<1>1. /\ TypeOK /\ Core /\ Handles(h) /\ op[h] \in Ops /\ Awake(h)
      /\ rec[h] # None /\ rec[h] \in States /\ Shape(rec[h])
      /\ rec[h].phase = "RECLAIM_PENDING" /\ rec[h].owner = "none" /\ rec[h].expired
  BY Running DEF Runs, Handles, Phase
<1>2. want = rec[h] => o = [d |-> Disk(h), ok |-> FALSE, bad |-> 0] BY DEF Refused
<1>3. o.bad \in {0, 1} BY <1>2, FailsOnce
<1>4. cost + o.bad \in Nat BY <1>3
<1>5. Steady(h) BY <1>1, <1>4, SpendsWithin DEF Steady, TypeOK
<1>6. CASE want # rec[h]
  <2>1. Shape(want) BY DEF Shape
  <2>2. \A c \in Clients : client'[c] = "rw" /\ Carries(rec[h], c) => Carries(want, c)
    BY <1>1 DEF Carries
  <2>3. Safe(h, want) BY <1>1, <2>2, PlainIsSafe
  <2> QED BY <1>1, <1>5, <1>6, <2>1, <2>3, AdvanceStep
<1>7. CASE want = rec[h]
  <2>1. o.d = Disk(h) /\ ~o.ok BY <1>2, <1>7
  <2>2. UNCHANGED <<rec, tx, binding>> BY <1>1, <2>1, WriteNothing
  <2> QED BY <1>1, <1>5, <2>1, <2>2, QuietStep
<1> QED BY <1>6, <1>7

\* finishExpiryLocked fences the agent only with the lane, and forgets a client
\* only when it is gone.
LEMMA FinishExpiryKeeps ==
  ASSUME IInv, NEW h \in Handoffs, FinishExpiry(h) PROVE IInv'
<1> USE NoneIsNothing
<1> DEFINE c == rec[h].client
           agent == IF rec[h].agent = "fenced" \/ AgentFenced(h) THEN "fenced" ELSE "unknown"
           over(human) == agent = "fenced" /\ human = "fenced"
           want(human, left) ==
             [rec[h] EXCEPT !.agent = agent, !.human = human, !.client = left,
                !.phase = IF over(human) THEN "ABORTED" ELSE "RECLAIM_PENDING"]
           Finish(human, left, cost) ==
             \E o \in IF want(human, left) # rec[h] THEN Advance(h, want(human, left))
                      ELSE Refused(Disk(h)) :
               /\ Write(h, o.d) /\ Spend(cost + o.bad)
               /\ IF o.ok /\ over(human) THEN Ends(h) ELSE Fails(h)
<1>1. /\ TypeOK /\ Core /\ Runs(h, "expire") /\ rec[h] # None /\ rec[h] \in States
      /\ rec[h].agent # "fenced" => lane = "free"
  BY Running DEF FinishExpiry, Runs, Handles, Phase
<1>2. /\ agent \in {"fenced", "unknown"}
            /\ (agent = "fenced" => rec[h].agent = "fenced" \/ lane = "free")
      /\ c \in Clients \cup {None}
  BY <1>1, Fields
<1>3. UNCHANGED <<granted, ledger, pane, lane, unresolved, fin, todo, crashes>>
  BY DEF FinishExpiry
<1> HIDE DEF agent
<1>4. ASSUME NEW human \in {"fenced", "unknown"}, NEW left \in {c, None}, NEW cost \in {0, 1},
             Finish(human, left, cost),
             client' \in [Clients -> {"none", "ro", "rw", "gone"}],
             \A x \in Clients : client'[x] = "rw" => client[x] = "rw",
             left = None /\ c # None => client'[c] # "rw"
      PROVE  IInv'
  <2>1. PICK o \in IF want(human, left) # rec[h] THEN Advance(h, want(human, left))
           ELSE Refused(Disk(h)) :
               /\ Write(h, o.d) /\ Spend(cost + o.bad)
               /\ IF o.ok /\ over(human) THEN Ends(h) ELSE Fails(h)
    BY <1>4
  <2>2. /\ rec[h].phase = "RECLAIM_PENDING" /\ rec[h].owner = "none" /\ rec[h].expired
    BY <1>1, Running DEF Runs, Handles, Phase
  <2> DEFINE w == want(human, left)
  <2>3. /\ w \in States /\ w.phase \in {"ABORTED", "RECLAIM_PENDING"} /\ w.owner = "none"
        /\ w.expired /\ w.epoch = rec[h].epoch /\ w.client = left /\ w.agent = agent
        /\ w.phase = "ABORTED" => w.agent = "fenced" /\ w.human = "fenced"
    <3>1. left \in Clients \cup {None} BY <1>2
    <3> QED BY <1>1, <1>2, <2>2, <3>1 DEF States, Valid, Ingress, Owners
  <2>4. IF w # rec[h] THEN o \in Advance(h, w) ELSE o \in Refused(Disk(h)) BY <2>1
  <2>5. Fails(h) \/ (o.ok /\ Ends(h)) BY <2>1
  <2>6. Write(h, o.d) /\ Spend(cost + o.bad) BY <2>1
  <2> HIDE DEF w, Finish
  <2> QED BY <1>1, <1>2, <1>3, <1>4, <2>3, <2>4, <2>5, <2>6, FinishKeeps
<1>5. client \in [Clients -> {"none", "ro", "rw", "gone"}] BY <1>1 DEF TypeOK
<1>6. CASE c = None
  <2>1. Finish(IF rec[h].human = "fenced" THEN "fenced" ELSE "unknown", None, 0)
           /\ UNCHANGED client
    BY <1>6 DEF FinishExpiry, agent
  <2> HIDE DEF Finish
  <2> QED BY <1>4, <1>5, <1>6, <2>1
<1>7. CASE c # None /\ rec[h].human = "fenced"
  <2>1. Finish("fenced", IF ProviderUp /\ client[c] = "gone" THEN None ELSE c, 0)
           /\ UNCHANGED client
    BY <1>7 DEF FinishExpiry, agent
  <2> HIDE DEF Finish
  <2> QED BY <1>4, <1>5, <1>7, <2>1
<1>8. CASE c # None /\ rec[h].human # "fenced"
  <2>1. PICK f \in Fence(c) :
            /\ client' = [client EXCEPT ![c] = f.cli]
            /\ Finish(IF f.says = "error" THEN "unknown" ELSE "fenced",
                      IF f.says = "missing" THEN None ELSE c, f.bad)
    BY <1>8 DEF FinishExpiry, agent
  <2>2. /\ client' \in [Clients -> {"none", "ro", "rw", "gone"}]
        /\ \A x \in Clients : client'[x] = "rw" => client[x] = "rw"
        /\ f.says \in {"fenced", "missing"} => client'[c] # "rw"
        /\ f.bad \in {0, 1}
    BY <1>1, <1>2, <1>8, <2>1, FenceOutcome
  <2> HIDE DEF Finish
  <2> QED BY <1>4, <2>1, <2>2
<1> QED BY <1>6, <1>7, <1>8

\* ReserveHandoff takes the session from the agent, or finishes what an earlier
\* request left.
LEMMA RequestKeeps ==
  ASSUME IInv, NEW h \in Handoffs, Request(h) PROVE IInv'
<1> USE NoneIsNothing
<1> DEFINE want == [phase |-> "AGENT_FENCING", epoch |-> binding.epoch + 1, owner |-> "human",
                    agent |-> "unknown", human |-> "fenced", client |-> None, expired |-> FALSE]
           results == IF tx[h] = None THEN Results(Logged(h, Disk(h), want))
                      ELSE IF CanRecover(Disk(h))
                             THEN {[d |-> Recovered(Disk(h)), ok |-> TRUE, bad |-> 0]}
                      ELSE Refused(Disk(h))
<1>1. /\ TypeOK /\ Core /\ Handles(h) /\ op[h] \in Ops /\ boot = "up" /\ rec[h] = None
      /\ op[h].pc = "idle" /\ binding.owner = "agent" /\ binding \in Bindings
      /\ binding.epoch \in Nat
  BY Running, Fields DEF Request, Runs, TypeOK
<1>2. PICK o \in results :
        /\ Write(h, o.d) /\ Spend(o.bad)
        /\ op' = [op EXCEPT ![h].pc = IF o.ok THEN "fence" ELSE "idle"]
  BY DEF Request
<1>3. /\ want \in States /\ want.epoch = binding.epoch + 1 /\ want.phase = "AGENT_FENCING"
      /\ want.owner = "human" /\ want.agent = "unknown" /\ want.human = "fenced"
      /\ want.client = None
  <2>1. binding.epoch + 1 \in Nat BY <1>1
  <2> QED BY <2>1 DEF States, Valid, Owners, Ingress
<1>4. /\ Disk(h) \in Disks /\ Disk(h).rec = None /\ Disk(h).tx = tx[h]
      /\ Disk(h).binding = binding
      /\ Stored(h, None, tx[h], binding)
  BY <1>1, DiskType DEF Core, Storing
<1>5. client' = client /\ lane' = lane /\ pane' = pane /\ boot' = boot /\ ledger' = ledger
  BY DEF Request
<1>6. \A c \in Clients : client'[c] # "rw" BY <1>1, <1>5 DEF Core, Watching, Known
<1>7. /\ Storing' /\ Laning' /\ Watching' /\ Stores(h) /\ o.bad \in {0, 1}
      /\ o.ok \in BOOLEAN /\ (o.ok => rec'[h] # None /\ rec'[h].phase = "AGENT_FENCING")
  <2>1. CASE tx[h] = None
    <3>1. o \in Results(Logged(h, Disk(h), want)) BY <2>1
    <3> HIDE DEF want, results
    <3>2. Shape(want) BY <1>3 DEF Shape
    <3>3. MayLog(h, Disk(h), want) BY <1>1, <1>3, <1>4 DEF MayLog
    <3>4. Leaves(h, Disk(h), want, o) BY <1>3, <1>4, <2>1, <3>1, <3>2, <3>3, LoggedDisk
    <3>5. lane = "agent" => Unfenced(h, None, tx[h], binding) BY <1>1 DEF Core, Laning
    <3>6. /\ o.d \in Disks /\ Stored(h, o.d.rec, o.d.tx, o.d.binding)
          /\ Taken(h, binding, o.d.binding)
          /\ lane = "agent" => Unfenced(h, o.d.rec, o.d.tx, o.d.binding)
          /\ o.bad \in {0, 1} /\ o.ok \in BOOLEAN /\ (o.ok => o.d.rec = want)
      BY <1>3, <1>4, <3>4, <3>5 DEF Leaves
    <3>7. /\ Storing' /\ Laning' /\ Watching' /\ Stores(h) /\ rec'[h] = o.d.rec
      BY <1>1, <1>2, <1>5, <1>6, <3>6, WriteKeeps DEF Core, Stores
    <3> QED BY <1>3, <3>6, <3>7
  <2>2. CASE tx[h] # None /\ CanRecover(Disk(h))
    <3>1. o = [d |-> Rolled(h), ok |-> TRUE, bad |-> 0] BY <2>2 DEF Rolled
    <3>2. Storing' /\ Laning' /\ Watching' /\ Stores(h) /\ rec'[h] = Rolled(h).rec
      BY <1>1, <1>2, <1>5, <2>2, <3>1, RollKeeps
    <3>3. Rolled(h).rec = tx[h].rec BY <1>1, <2>2, RolledFacts
    <3>4. tx[h] \in Txs /\ tx[h].rec \in States BY <1>1, <2>2, Fields DEF TypeOK
    <3>5. tx[h].rec.phase = "AGENT_FENCING" BY <1>4, <2>2, <3>4 DEF Stored, Logs
    <3> QED BY <3>1, <3>2, <3>3, <3>4, <3>5
  <2>3. CASE tx[h] # None /\ ~CanRecover(Disk(h))
    <3>1. o = [d |-> Disk(h), ok |-> FALSE, bad |-> 0] BY <2>3 DEF Refused
    <3>2. UNCHANGED <<rec, tx, binding>> BY <1>1, <1>2, <3>1, WriteNothing
    <3>3. Storing' /\ Laning' /\ Watching'
      BY <1>1, <1>5, <1>6, <3>2 DEF Core, Storing, Laning, Watching
    <3>4. Stores(h) BY <1>1, <3>2 DEF Stores, TypeOK, Taken
    <3> QED BY <3>1, <3>3, <3>4
  <2> QED BY <2>1, <2>2, <2>3
<1> HIDE DEF want, results
<1> DEFINE x == [op[h] EXCEPT !.pc = IF o.ok THEN "fence" ELSE "idle"]
<1>8. op' = [op EXCEPT ![h] = x] /\ x \in Ops /\ x.ctl = op[h].ctl /\ x.pc = IF o.ok
         THEN "fence" ELSE "idle"
  BY <1>1, <1>2 DEF Ops, Steps
<1> HIDE DEF x
<1>9. op'[h] = x BY <1>1, <1>8 DEF TypeOK
<1>10. Handles(h)' BY <1>1, <1>5, <1>7, <1>8, <1>9 DEF Handles, Phase
<1>11. Turns(h) BY <1>1, <1>5, <1>8 DEF Turns
<1>12. faults' \in 0 .. MaxFaults BY <1>1, <1>2, <1>7, SpendsWithin
<1>13. Steady(h) BY <1>1, <1>12 DEF Steady, Request, TypeOK
<1> QED BY <1>7, <1>10, <1>11, <1>13, HandlerKeeps

\* A reconciliation that writes nothing.
LEMMA ReconcileQuiet ==
  ASSUME IInv, NEW h \in Handoffs, Reconcile(h), UNCHANGED <<rec, tx, binding>>,
         NEW n \in Nat, Spend(n),
         client' \in [Clients -> {"none", "ro", "rw", "gone"}],
         \A c \in Clients : client'[c] = "rw" => client[c] = "rw",
         Fails(h) \/ UNCHANGED <<op, boot>>
  PROVE  IInv'
<1>1. TypeOK /\ boot = "reconcile" /\ Handles(h) /\ op[h] \in Ops BY Running DEF Reconcile
<1>2. faults' \in 0 .. MaxFaults BY <1>1, SpendsWithin
<1>3. Steady(h) BY <1>1, <1>2 DEF Reconcile, Steady, TypeOK
<1>4. UNCHANGED <<op, boot>> =>
        boot' = boot /\ (\E x \in Ops : op' = [op EXCEPT ![h] = x]) /\ Handles(h)'
  <2> HAVE UNCHANGED <<op, boot>>
  <2>1. op' = [op EXCEPT ![h] = op[h]] BY <1>1 DEF TypeOK
  <2>2. Phase(h)' = Phase(h) BY DEF Phase
  <2>3. Handles(h)' BY <1>1, <1>3, <2>2 DEF Handles, Steady
  <2> QED BY <1>1, <2>1, <2>3
<1> QED BY <1>1, <1>3, <1>4, QuietStep

\* A reconciliation that hands over to a handler.
LEMMA ReconcileGoes ==
  ASSUME IInv, NEW h \in Handoffs, Reconcile(h),
         UNCHANGED <<rec, tx, binding, client, faults, boot>>,
         NEW pc \in {"fence", "fencing", "bind", "regrant", "expire"},
         NEW c \in Clients \cup {None},
         op' = [op EXCEPT ![h] = [Idle EXCEPT !.pc = pc, !.cli = c]],
         pc = "fence" => Phase(h) = "AGENT_FENCING",
         pc \in {"bind", "regrant"} =>
           /\ c \in Clients /\ rec[h].client = c
           /\ \/ Phase(h) = "HUMAN_CONNECTING"
              \/ pc = "regrant" /\ Phase(h) = "RECLAIM_PENDING" /\ rec[h].owner = "human",
         pc = "expire" => Phase(h) = "RECLAIM_PENDING" /\ rec[h].owner = "none"
            /\ rec[h].expired
  PROVE  IInv'
<1>1. TypeOK /\ boot = "reconcile" /\ tx[h] = None BY DEF Reconcile, IInv, Booting
<1>2. Steady(h) BY <1>1 DEF Reconcile, Steady, TypeOK
<1> DEFINE x == [Idle EXCEPT !.pc = pc, !.cli = c]
<1>3. x \in Ops /\ x.pc = pc /\ x.cli = c /\ x.ctl = None BY DEF Idle, Ops, Steps
<1>4. op' = [op EXCEPT ![h] = x] OBVIOUS
<1> HIDE DEF x
<1>5. op'[h] = x BY <1>1, <1>4 DEF TypeOK
<1>6. Phase(h)' = Phase(h) BY DEF Phase
<1>7. Handles(h)' BY <1>1, <1>3, <1>5, <1>6 DEF Handles
<1> QED BY <1>1, <1>2, <1>3, <1>4, <1>7, QuietStep

\* A reconciliation that writes the record anew, without a client that could
\* write.
LEMMA ReconcileWrites ==
  ASSUME IInv, NEW h \in Handoffs, Reconcile(h), rec[h] # None,
         client' \in [Clients -> {"none", "ro", "rw", "gone"}],
         \A c \in Clients : client'[c] = "rw" => client[c] = "rw",
         NEW want \in States, Shape(want), rec[h].phase # "AGENT_OWNED",
            want.phase # "AGENT_OWNED",
         want.epoch = rec[h].epoch, want.owner = rec[h].owner,
         want.agent = "fenced" => rec[h].agent = "fenced",
         \A c \in Clients : ~(client'[c] = "rw" /\ Carries(rec[h], c)),
         NEW n \in Nat, Advances(h, want, "end", n)
  PROVE  IInv'
<1>1. TypeOK /\ Core /\ boot = "reconcile" BY Running DEF Reconcile
<1>2. Safe(h, want) BY <1>1, PlainIsSafe
<1>3. Steady(h) BY <1>1, AdvancesSpends DEF Reconcile, Steady, TypeOK
<1> QED BY <1>1, <1>2, <1>3, AdvancesStep

\* Reconcile, phase by phase.
LEMMA ReconcileKeeps ==
  ASSUME IInv, NEW h \in Handoffs, Reconcile(h) PROVE IInv'
<1> USE NoneIsNothing
<1> DEFINE c == rec[h].client
           Agrees == binding.life = "live" /\ binding.epoch = rec[h].epoch
                       /\ binding.owner = rec[h].owner
           Goto(pc, x) == /\ op' = [op EXCEPT ![h] = [Idle EXCEPT !.pc = pc, !.cli = x]]
                          /\ UNCHANGED <<rec, tx, binding, client, faults, boot>>
           Quiet == /\ UNCHANGED <<rec, tx, binding>> /\ (Fails(h) \/ UNCHANGED <<op, boot>>)
                    /\ Spend(0) \/ Spend(1)
           Untouched == client' = client
<1>1. TypeOK /\ Core /\ boot = "reconcile" /\ h \in todo BY Running DEF Reconcile
<1>2. Phase(h) \notin {"none", "AGENT_OWNED"} BY <1>1 DEF IInv, Booting
<1>3. /\ rec[h] # None /\ rec[h] \in States /\ Shape(rec[h]) /\ Phase(h) = rec[h].phase
      /\ rec[h].phase # "AGENT_OWNED"
  BY <1>2, Running
<1>4. /\ c \in Clients \cup {None} /\ rec[h].epoch \in Nat /\ rec[h].owner \in Owners
      /\ rec[h].expired \in BOOLEAN
  BY <1>3, Fields
<1>5. rec[h].phase \in {"AGENT_FENCING", "HUMAN_CONNECTING", "HUMAN_OWNED", "HUMAN_FENCING",
                        "RECLAIM_PENDING", "ABORTED"}
  BY <1>3 DEF States
<1> DEFINE Weaker == /\ client' \in [Clients -> {"none", "ro", "rw", "gone"}]
                     /\ \A x \in Clients : client'[x] = "rw" => client[x] = "rw"
<1>6. Untouched => Weaker BY <1>1 DEF TypeOK
<1>7. ASSUME c # None, NEW f \in Fence(c), client' = [client EXCEPT ![c] = f.cli]
      PROVE  /\ Weaker /\ f.bad \in Nat /\ 1 + f.bad \in Nat
             /\ f.says = "fenced" => client'[c] # "rw"
  <2>1. c \in Clients BY <1>4, <1>7
  <2>2. Weaker /\ f.bad \in {0, 1} /\ (f.says = "fenced" => client'[c] # "rw")
    BY <1>1, <1>7, <2>1, FenceOutcome
  <2> QED BY <2>2
<1>8. ASSUME Weaker, Quiet PROVE IInv'
  <2>1. 0 \in Nat /\ 1 \in Nat OBVIOUS
  <2> QED BY <1>8, <2>1, ReconcileQuiet
<1>9. ASSUME rec[h].owner = "human", rec[h].phase # "AGENT_FENCING", Weaker,
             c # None => client'[c] # "rw",
             NEW n \in Nat, Advances(h, WithoutClient(h), "end", n)
      PROVE  IInv'
  <2> DEFINE want == WithoutClient(h)
  <2>1. rec[h].agent = "fenced" BY <1>3, <1>5, <1>9 DEF Shape
  <2>2. /\ want \in States /\ want.phase = "HUMAN_CONNECTING" /\ want.agent = "fenced"
        /\ want.human = "fenced" /\ want.epoch = rec[h].epoch /\ want.owner = "human"
    BY <1>3, <1>9 DEF WithoutClient, States, Valid, Ingress
  <2>3. Advances(h, want, "end", n) BY <1>9
  <2> HIDE DEF want
  <2>4. Shape(want) BY <2>2 DEF Shape
  <2>5. \A x \in Clients : ~(client'[x] = "rw" /\ Carries(rec[h], x)) BY <1>9 DEF Carries
  <2> QED BY <1>3, <1>9, <2>1, <2>2, <2>3, <2>4, <2>5, ReconcileWrites
<1>10. ASSUME rec[h].phase \in {"HUMAN_CONNECTING", "HUMAN_OWNED", "HUMAN_FENCING", "ABORTED"},
              NEW n \in Nat, Blocks(h, n), Weaker
       PROVE  IInv'
  <2>1. faults' \in 0 .. MaxFaults BY <1>1, <1>10, BlocksSpends
  <2>2. Steady(h) BY <1>1, <1>10, <2>1 DEF Reconcile, Steady, TypeOK
  <2> QED BY <1>1, <1>3, <1>10, <2>2, BlocksStep
<1>11. ASSUME NEW pc \in {"fence", "fencing", "bind", "regrant", "expire"},
              NEW x \in Clients \cup {None},
              Goto(pc, x),
              pc = "fence" => rec[h].phase = "AGENT_FENCING",
              pc \in {"bind", "regrant"} =>
                /\ x \in Clients /\ c = x
                /\ \/ rec[h].phase = "HUMAN_CONNECTING"
                   \/ /\ pc = "regrant" /\ rec[h].phase = "RECLAIM_PENDING"
                      /\ rec[h].owner = "human",
              pc = "expire" => rec[h].phase = "RECLAIM_PENDING" /\ rec[h].owner = "none"
                 /\ rec[h].expired
       PROVE  IInv'
  BY <1>3, <1>11, ReconcileGoes
<1>12. CASE rec[h].phase = "AGENT_FENCING"
  <2>1. Goto("fence", None) BY <1>3, <1>12 DEF Reconcile
  <2> HIDE DEF Goto
  <2> QED BY <1>11, <1>12, <2>1
<1>13. CASE rec[h].phase \in {"HUMAN_FENCING", "HUMAN_OWNED"} /\ c = None
  <2>1. Blocks(h, 0) /\ Untouched BY <1>3, <1>13 DEF Reconcile
  <2> HIDE DEF Weaker, Untouched
  <2> QED BY <1>6, <1>10, <1>13, <2>1
<1>14. CASE rec[h].phase = "HUMAN_FENCING" /\ c # None
  <2>1. Goto("fencing", None) \/ (Quiet /\ Untouched) BY <1>3, <1>14 DEF Reconcile
  <2> HIDE DEF Goto, Quiet, Weaker, Untouched
  <2> QED BY <1>6, <1>8, <1>11, <2>1
<1>15. CASE rec[h].phase = "HUMAN_CONNECTING"
  <2>1. \/ Quiet /\ Untouched
        \/ c # None /\ Blocks(h, 1) /\ Untouched
        \/ c # None /\ client[c] = "gone" /\ Advances(h, WithoutClient(h), "end", 0) /\ Untouched
        \/ c # None /\ Goto("bind", c)
        \/ c # None /\ Goto("regrant", c)
    BY <1>3, <1>15 DEF Reconcile
  <2>2. rec[h].owner = "human" BY <1>3, <1>15 DEF Shape
  <2>3. CASE c # None /\ client[c] = "gone" /\ Advances(h, WithoutClient(h), "end", 0)
               /\ Untouched
    BY <1>6, <1>9, <1>15, <2>2, <2>3
  <2> HIDE DEF Goto, Quiet, Weaker, Untouched
  <2>4. CASE c # None /\ (Goto("bind", c) \/ Goto("regrant", c))
    BY <1>4, <1>11, <1>15, <2>4
  <2> QED BY <1>6, <1>8, <1>10, <1>15, <2>1, <2>3, <2>4
<1>16. CASE rec[h].phase = "HUMAN_OWNED" /\ c # None
  <2>1. \/ Quiet /\ Untouched
        \/ Blocks(h, 1) /\ Untouched
        \/ client[c] # "rw" /\ Advances(h, WithoutClient(h), "end", 0) /\ Untouched
        \/ \E f \in Fence(c) :
             /\ client' = [client EXCEPT ![c] = f.cli]
             /\ IF f.says = "fenced" THEN Advances(h, WithoutClient(h), "end", 1)
                ELSE Blocks(h, 1 + f.bad)
    BY <1>3, <1>16 DEF Reconcile
  <2>2. rec[h].owner = "human" BY <1>3, <1>16 DEF Shape
  <2>3. CASE client[c] # "rw" /\ Advances(h, WithoutClient(h), "end", 0) /\ Untouched
    BY <1>6, <1>9, <1>16, <2>2, <2>3
  <2> HIDE DEF Quiet, Weaker, Untouched, c
  <2>4. ASSUME NEW f \in Fence(c), client' = [client EXCEPT ![c] = f.cli],
               IF f.says = "fenced" THEN Advances(h, WithoutClient(h), "end", 1)
                 ELSE Blocks(h, 1 + f.bad)
        PROVE  IInv'
    <3>1. Weaker /\ 1 + f.bad \in Nat /\ (f.says = "fenced" => client'[c] # "rw")
      BY <1>7, <1>16, <2>4
    <3> QED BY <1>9, <1>10, <1>16, <2>2, <2>4, <3>1
  <2> QED BY <1>6, <1>8, <1>10, <1>16, <2>1, <2>3, <2>4
<1>17. CASE rec[h].phase = "RECLAIM_PENDING"
  <2>1. \/ Quiet /\ Untouched
        \/ rec[h].expired /\ rec[h].owner = "none" /\ Goto("expire", None)
        \/ /\ rec[h].owner = "human" /\ c # None /\ client[c] # "rw" /\ Untouched
           /\ Advances(h, WithoutClient(h), "end", 0)
        \/ rec[h].owner = "human" /\ c # None /\ Goto("regrant", c)
    BY <1>3, <1>17 DEF Reconcile
  <2>2. CASE /\ rec[h].owner = "human" /\ c # None /\ client[c] # "rw" /\ Untouched
             /\ Advances(h, WithoutClient(h), "end", 0)
    BY <1>6, <1>9, <1>17, <2>2
  <2> HIDE DEF Goto, Quiet, Weaker, Untouched
  <2>3. CASE rec[h].owner = "human" /\ c # None /\ Goto("regrant", c)
    BY <1>4, <1>11, <1>17, <2>3
  <2>4. CASE rec[h].expired /\ rec[h].owner = "none" /\ Goto("expire", None)
    BY <1>11, <1>17, <2>4
  <2> QED BY <1>6, <1>8, <2>1, <2>2, <2>3, <2>4
<1>18. CASE rec[h].phase = "ABORTED"
  <2> DEFINE want == [rec[h] EXCEPT !.client = None]
  <2>1. \/ Quiet /\ Untouched
        \/ c # None /\ client[c] = "gone" /\ Advances(h, want, "end", 0) /\ Untouched
        \/ c # None /\ Blocks(h, 1) /\ Untouched
        \/ /\ c # None
           /\ \E f \in Fence(c) : /\ client' = [client EXCEPT ![c] = f.cli]
                                  /\ Quiet \/ Blocks(h, f.bad)
    BY <1>3, <1>18 DEF Reconcile
  <2>2. CASE c # None /\ client[c] = "gone" /\ Advances(h, want, "end", 0) /\ Untouched
    <3>1. rec[h].owner = "none" /\ rec[h].agent = "fenced" /\ rec[h].human = "fenced"
      BY <1>3, <1>18 DEF Shape
    <3>2. /\ want \in States /\ want.phase = "ABORTED" /\ want.owner = "none"
          /\ want.epoch = rec[h].epoch
          /\ want.agent = "fenced" /\ want.human = "fenced"
      BY <1>3, <1>18, <3>1 DEF States, Valid
    <3> HIDE DEF want
    <3>3. Shape(want) BY <3>2 DEF Shape
    <3>4. \A x \in Clients : ~(client'[x] = "rw" /\ Carries(rec[h], x)) BY <2>2 DEF Carries
    <3>5. Weaker BY <1>6, <2>2
    <3> QED BY <1>3, <2>2, <3>1, <3>2, <3>3, <3>4, <3>5, ReconcileWrites
  <2> HIDE DEF Quiet, Weaker, Untouched, c
  <2>3. ASSUME c # None, NEW f \in Fence(c), client' = [client EXCEPT ![c] = f.cli],
               Quiet \/ Blocks(h, f.bad)
        PROVE  IInv'
    <3>1. Weaker /\ f.bad \in Nat BY <1>7, <2>3
    <3> QED BY <1>8, <1>10, <1>18, <2>3, <3>1
  <2> QED BY <1>6, <1>8, <1>10, <1>18, <2>1, <2>2, <2>3
<1> QED BY <1>5, <1>12, <1>13, <1>14, <1>15, <1>16, <1>17, <1>18

\* The store rolls a transaction forward before the daemon starts.
LEMMA BootRecoversKeeps ==
  ASSUME IInv, NEW h \in Handoffs, BootRecovers(h) PROVE IInv'
<1> USE NoneIsNothing
<1>1. /\ TypeOK /\ Core /\ Handling /\ Booting /\ boot = "down" /\ CanRecover(Disk(h))
      /\ Write(h, Rolled(h))
  BY DEF BootRecovers, IInv, Core, Rolled
<1>2. UNCHANGED <<granted, ledger, client, pane, lane, unresolved, fin, op, boot, todo, crashes,
         faults>>
  BY DEF BootRecovers
<1>3. lane # "agent" BY <1>1 DEF Core, Laning
<1>4. Storing' /\ Laning' /\ Watching' /\ Stores(h) BY <1>1, <1>2, <1>3, RollKeeps
<1>5. TypeOK' BY <1>1, <1>2, <1>4 DEF TypeOK, Stores
<1>6. Handling'
  <2> SUFFICES ASSUME NEW g \in Handoffs PROVE Handles(g)' BY DEF Handling
  <2>1. op[g].pc = "idle" /\ Handles(g) BY <1>1 DEF Booting, Handling
  <2> QED BY <1>2, <2>1 DEF Handles
<1>7. binding'.life = binding.life BY <1>4 DEF Stores, Taken
<1>8. fin = None BY <1>1 DEF Booting
<1>9. Booting' BY <1>1, <1>2, <1>7, <1>8 DEF Booting
<1> QED BY <1>4, <1>5, <1>6, <1>9 DEF IInv

\* The session is closed, with the binding as it is.
LEMMA ClosesKeeps ==
  ASSUME IInv, Closes(binding), UNCHANGED <<rec, tx, lane>>, boot' = boot \/ lane # "agent"
  PROVE  /\ Storing' /\ Laning' /\ Watching' /\ binding' \in Bindings
         /\ binding'.life = "terminal" /\ pane' = "closed"
         /\ client' \in [Clients -> {"none", "ro", "rw", "gone"}]
<1>1. TypeOK /\ Storing /\ Laning BY DEF IInv
<1>2. binding' = [binding EXCEPT !.life = "terminal"] /\ pane' = "closed" BY DEF Closes
<1>3. binding' \in Bindings /\ binding'.life = "terminal" BY <1>1, <1>2 DEF TypeOK, Bindings
<1>4. \A g \in Handoffs : /\ Stored(g, rec[g], tx[g], binding')
                          /\ Unfenced(g, rec[g], tx[g], binding)
                                => Unfenced(g, rec[g], tx[g], binding')
  BY <1>1, <1>2, ClosedStored
<1>5. Storing' BY <1>4 DEF Storing
<1>6. Laning' BY <1>1, <1>4 DEF Laning
<1>7. client' = [c \in Clients |-> IF client[c] = "none" THEN "none" ELSE "gone"] BY DEF Closes
<1>8. client' \in [Clients -> {"none", "ro", "rw", "gone"}]
         /\ \A c \in Clients : client'[c] # "rw"
  BY <1>7
<1>9. Watching' BY <1>8 DEF Watching
<1> QED BY <1>2, <1>3, <1>5, <1>6, <1>8, <1>9

\* delegatedWaitLoop closes the binding it has loaded: AdvanceDelegatedBinding
\* lets it do so only when that is still the binding.
LEMMA TerminalClosesKeeps ==
  ASSUME IInv, TerminalCloses PROVE IInv'
<1> USE NoneIsNothing
<1>1. TypeOK /\ Handling /\ Booting BY DEF IInv
<1>2. fin = binding
  <2>1. fin # None /\ fin.epoch >= binding.epoch BY DEF TerminalCloses
  <2>2. fin.epoch \in Nat /\ binding.epoch \in Nat BY <1>1, <2>1, Fields DEF TypeOK
  <2> QED BY <1>1, <2>1, <2>2 DEF Booting
<1>3. Closes(binding) BY <1>2 DEF TerminalCloses
<1>4. UNCHANGED <<rec, tx, granted, ledger, lane, unresolved, op, boot, todo, crashes, faults>>
         /\ fin' = None
  BY DEF TerminalCloses
<1>5. /\ Storing' /\ Laning' /\ Watching' /\ binding' \in Bindings
      /\ binding'.life = "terminal" /\ pane' = "closed"
      /\ client' \in [Clients -> {"none", "ro", "rw", "gone"}]
  BY <1>3, <1>4, ClosesKeeps
<1>6. TypeOK' BY <1>1, <1>4, <1>5 DEF TypeOK
<1>7. \A h \in Handoffs : Phase(h)' = Phase(h) BY <1>4 DEF Phase
<1>8. Handling' BY <1>1, <1>4, <1>7 DEF Handling, Handles
<1>9. Booting'
  <2>1. todo \subseteq Handoffs BY <1>1 DEF TypeOK
  <2> QED BY <1>1, <1>4, <1>5, <1>7, <2>1 DEF Booting
<1> QED BY <1>5, <1>6, <1>8, <1>9 DEF IInv

\* ReconcileDelegatedStartup finds no transaction.
LEMMA BootAttachesKeeps ==
  ASSUME IInv, BootAttaches PROVE IInv'
<1> USE NoneIsNothing
<1>1. TypeOK /\ Storing /\ Laning /\ Watching /\ Handling /\ Booting /\ boot = "down"
  BY DEF IInv, BootAttaches
<1>2. lane # "agent" /\ fin = None /\ \A h \in Handoffs : op[h].pc = "idle"
  BY <1>1 DEF Laning, Booting
<1>3. \A h \in Handoffs : tx[h] = None BY DEF BootAttaches, Pending
<1>4. /\ UNCHANGED <<rec, tx, granted, ledger, lane, unresolved, fin, op, crashes, faults>>
      /\ boot' = "reconcile"
            /\ todo' = {h \in Handoffs : Phase(h) \notin {"none", "AGENT_OWNED"}}
  BY DEF BootAttaches
<1>5. /\ Storing' /\ Laning' /\ Watching' /\ binding' \in Bindings
      /\ pane' = "closed" <=> binding'.life = "terminal"
      /\ pane' \in {"running", "dead", "closed"}
      /\ client' \in [Clients -> {"none", "ro", "rw", "gone"}]
  <2>1. CASE Closes(binding) BY <1>2, <1>4, <2>1, ClosesKeeps
  <2>2. CASE UNCHANGED <<binding, client, pane>>
    BY <1>1, <1>2, <1>4, <2>2 DEF Storing, Laning, Watching, Known, TypeOK, Booting
  <2> QED BY <2>1, <2>2 DEF BootAttaches
<1>6. TypeOK' BY <1>1, <1>4, <1>5 DEF TypeOK
<1>7. \A h \in Handoffs : Phase(h)' = Phase(h) BY <1>4 DEF Phase
<1>8. Handling' BY <1>1, <1>4, <1>7 DEF Handling, Handles
<1>9. Booting' BY <1>2, <1>3, <1>4, <1>5, <1>7 DEF Booting
<1> QED BY <1>5, <1>6, <1>8, <1>9 DEF IInv

\* A crash ends the handlers and the input under way.
LEMMA CrashKeeps ==
  ASSUME IInv, Crash PROVE IInv'
<1> USE NoneIsNothing
<1>1. TypeOK /\ Storing /\ Laning /\ Watching /\ Handling /\ Booting BY DEF IInv
<1>2. \A h \in Handoffs : op'[h] = Idle BY DEF Crash
<1>3. op' \in [Handoffs -> Ops] BY IdleIsOp DEF Crash
<1>4. /\ UNCHANGED <<rec, tx, binding, granted, ledger, client, pane, faults>>
      /\ lane' = "free" /\ boot' = "down" /\ fin' = None /\ todo' = {}
  BY DEF Crash
<1>5. crashes' \in 0 .. MaxCrashes /\ unresolved' \in BOOLEAN
  BY <1>1, HandoffAssumption DEF TypeOK, Crash
<1>6. TypeOK' BY <1>1, <1>3, <1>4, <1>5 DEF TypeOK
<1>7. Handling' BY <1>2, IdleHandles DEF Handling
<1>8. Booting' BY <1>1, <1>2, <1>4 DEF Booting, Idle
<1>9. Storing' /\ Laning' BY <1>1, <1>4 DEF Storing, Laning
<1>10. Watching' BY <1>1, <1>4 DEF Watching, Known
<1> QED BY <1>6, <1>7, <1>8, <1>9, <1>10 DEF IInv

\* When the agent owns the session no record in force fences it.
LEMMA AgentAdmitsKeeps ==
  ASSUME IInv, AgentAdmits PROVE IInv'
<1> USE NoneIsNothing
<1>1. TypeOK /\ Storing /\ Laning /\ Watching /\ Handling /\ Booting BY DEF IInv
<1>2. /\ boot = "up" /\ binding.owner = "agent" /\ lane' = "agent"
      /\ UNCHANGED <<binding, rec, tx, granted, ledger, client, pane, unresolved, fin, op, boot,
            todo, crashes, faults>>
  BY DEF AgentAdmits
<1>3. ASSUME NEW h \in Handoffs PROVE Unfenced(h, rec[h], tx[h], binding)
  <2>1. Stored(h, rec[h], tx[h], binding) BY <1>1 DEF Storing
  <2>2. rec[h] # None => rec[h] \in States /\ Shape(rec[h]) BY <1>1, <2>1 DEF TypeOK, Stored
  <2>3. \A b : rec[h] # None /\ b.owner = "agent" => ~Matches(h, rec[h], b)
    BY <2>2, AgentOwned DEF Matches
  <2>4. ASSUME tx[h] # None, ~Lost(tx[h], binding) PROVE tx[h].rec.agent # "fenced"
    <3>1. tx[h] \in Txs /\ tx[h].rec \in States /\ Shape(tx[h].rec)
             /\ Logs(h, rec[h], tx[h], binding)
      BY <1>1, <2>1, <2>4, Fields DEF TypeOK, Stored
    <3>2. /\ binding \in {tx[h].prior, tx[h].target} /\ tx[h].target.owner = tx[h].rec.owner
      BY <1>1, <2>4, <3>1, RecoverableIsNotLost DEF TypeOK
    <3>3. CASE binding = tx[h].target
      <4>1. tx[h].rec.phase = "AGENT_OWNED" BY <1>2, <3>1, <3>2, <3>3, AgentOwned
      <4> QED BY <3>1, <4>1 DEF Shape
    <3>4. CASE binding = tx[h].prior
      <4>1. tx[h].prior.epoch \in Nat BY <3>1, Fields
      <4>2. tx[h].rec.phase = "AGENT_FENCING" BY <1>2, <2>3, <3>1, <3>4, <4>1 DEF Logs
      <4> QED BY <3>1, <4>2 DEF Shape
    <3> QED BY <3>2, <3>3, <3>4
  <2> QED BY <1>2, <2>3, <2>4 DEF Unfenced
<1>4. Laning' BY <1>2, <1>3 DEF Laning
<1>5. \A c \in Clients : client[c] # "rw" BY <1>1, <1>2 DEF Watching, Known
<1>6. Watching' BY <1>2, <1>5 DEF Watching
<1>7. TypeOK' /\ Storing' BY <1>1, <1>2 DEF TypeOK, Storing
<1>8. \A h \in Handoffs : Phase(h)' = Phase(h) BY <1>2 DEF Phase
<1>9. Handling' BY <1>1, <1>2, <1>8 DEF Handling, Handles
<1>10. Booting' BY <1>1, <1>2 DEF Booting
<1> QED BY <1>4, <1>6, <1>7, <1>9, <1>10 DEF IInv

\* The steps that touch neither the store nor a handler.
LEMMA OutsideKeeps ==
  ASSUME IInv, \/ AgentDelivers \/ SessionEnds \/ TerminalLoads \/ BootReady \/ UNCHANGED vars
               \/ \E c \in Clients : Attach(c) \/ Detach(c)
  PROVE  IInv'
<1> USE NoneIsNothing
<1>1. TypeOK /\ Storing /\ Laning /\ Watching /\ Handling /\ Booting BY DEF IInv
<1> USE DEF AgentDelivers, SessionEnds, TerminalLoads, BootReady, Attach, Detach, vars
<1>2. UNCHANGED <<rec, tx, binding, granted, ledger, op, todo, crashes>> OBVIOUS
<1>3. /\ client' \in [Clients -> {"none", "ro", "rw", "gone"}] /\ lane' \in {"free", lane}
      /\ \A c \in Clients : client'[c] = "rw" => client[c] = "rw"
      /\ pane' = "closed" <=> pane = "closed"
      /\ boot' = boot \/ (boot = "reconcile" /\ boot' = "up")
  BY <1>1 DEF TypeOK
<1>4. faults' \in 0 .. MaxFaults BY <1>1, SpendsWithin DEF TypeOK
<1>5. TypeOK' BY <1>1, <1>2, <1>3, <1>4 DEF TypeOK
<1>6. Storing' BY <1>1, <1>2 DEF Storing
<1>7. Laning' BY <1>1, <1>2, <1>3 DEF Laning
<1>8. Watching' BY <1>1, <1>2, <1>3 DEF Watching, Known
<1>9. \A h \in Handoffs : Phase(h)' = Phase(h) BY <1>2 DEF Phase
<1>10. Handling' BY <1>1, <1>2, <1>9 DEF Handling, Handles
<1>11. fin' # None => /\ boot' = "up" /\ pane' = "dead" /\ fin'.epoch <= binding'.epoch
                      /\ fin'.epoch = binding'.epoch => fin' = binding'
  <2>1. binding.epoch \in Nat BY <1>1, Fields DEF TypeOK
  <2> QED BY <1>1, <1>2, <2>1 DEF Booting
<1>12. Booting'
  <2>1. todo \subseteq Handoffs BY <1>1 DEF TypeOK
  <2>2. boot' = "down" => boot = "down" BY <1>3
  <2>3. boot' = "reconcile" => boot = "reconcile" BY <1>3
  <2> QED BY <1>1, <1>2, <1>3, <1>9, <1>11, <2>1, <2>2, <2>3 DEF Booting
<1> QED BY <1>5, <1>6, <1>7, <1>8, <1>10, <1>12 DEF IInv

\* The invariant holds at first.
LEMMA InitIInv ==
  ASSUME Init PROVE IInv
<1> USE NoneIsNothing
<1>1. TypeOK
  <2>1. crashes \in 0 .. MaxCrashes /\ faults \in 0 .. MaxFaults BY HandoffAssumption DEF Init
  <2>2. binding \in Bindings BY DEF Init, Bindings, Owners
  <2> QED BY <2>1, <2>2, IdleIsOp DEF Init, TypeOK
<1>2. Storing /\ Laning BY DEF Init, Storing, Stored, Laning
<1>3. Watching BY DEF Init, Watching
<1>4. Handling BY DEF Init, Handling, Handles, Idle
<1>5. Booting BY DEF Init, Booting
<1> QED BY <1>1, <1>2, <1>3, <1>4, <1>5 DEF IInv

\* Every step keeps the invariant.
LEMMA NextIInv ==
  ASSUME IInv, [Next]_vars PROVE IInv'
<1>1. ASSUME NEW h \in Handoffs, Handler(h) PROVE IInv'
  BY <1>1, AgentFenceKeeps, BindClientKeeps, GrantKeeps, MakeHumanWritableKeeps, OwnKeeps,
     RearmKeeps, ReadyKeeps, ReclaimKeeps, AbortKeeps, ResumeKeeps, FinishExpiryKeeps, CompleteKeeps DEF Handler
<1>2. ASSUME Startup PROVE IInv'
  BY <1>2, BootAttachesKeeps, OutsideKeeps, BootRecoversKeeps, ReconcileKeeps DEF Startup
<1> QED
  BY <1>1, <1>2, RequestKeeps, RequestAgainKeeps, ExpireKeeps, ControlKeeps, ControlAgainKeeps,
           OutsideKeeps, AgentAdmitsKeeps, TerminalClosesKeeps, CrashKeeps DEF Next

\* IInv is an invariant of the hand-over.
THEOREM Invariance == Spec => []IInv
<1>1. Init => IInv BY InitIInv
<1>2. IInv /\ [Next]_vars => IInv' BY NextIInv
<1> QED BY <1>1, <1>2, PTL DEF Spec

\* The variables keep their types.
THEOREM TypeCorrect == Spec => []TypeOK
<1>1. IInv => TypeOK BY DEF IInv
<1> QED BY <1>1, Invariance, PTL

\* OneWriter: while input of the agent is on its way to the terminal, or the
\* agent owns the session, no client of the human can write, through every
\* partial write, failed provider call and crash (FenceAgentIngress,
\* makeHumanWritable, Reclaim, Expire, Reconcile).
THEOREM WriterIsOne == Spec => []OneWriter
<1>1. IInv => OneWriter
  <2> SUFFICES ASSUME IInv, lane = "agent" \/ binding.owner = "agent",
                      NEW c \in Clients, client[c] = "rw"
               PROVE  FALSE
    BY DEF OneWriter, Writable
  <2> QED BY DEF IInv, Watching, Known
<1> QED BY <1>1, Invariance, PTL

\* OwnersAgree: at most one handoff without a pending transaction holds the
\* session, and its record and the binding name the same owner and epoch
\* (AdvanceHandoff, reconcileHandoffTransactionLocked,
\* AdvanceDelegatedBinding).
THEOREM OwnersAlwaysAgree == Spec => []OwnersAgree
<1>1. IInv => OwnersAgree
  <2> SUFFICES ASSUME IInv PROVE OwnersAgree OBVIOUS
  <2>1. ASSUME NEW h \in Holding PROVE Matches(h, rec[h], binding)
    <3>1. h \in Handoffs /\ tx[h] = None /\ Phase(h) \notin {"none", "AGENT_OWNED"}
      BY DEF Holding
    <3>2. rec[h] # None /\ Phase(h) = rec[h].phase /\ Stored(h, rec[h], tx[h], binding)
      BY <3>1 DEF Phase, IInv, Storing
    <3> QED BY <3>1, <3>2 DEF Stored
  <2>2. \A h \in Holding : rec[h].epoch = binding.epoch /\ rec[h].owner = binding.owner
    BY <2>1 DEF Matches
  <2>3. Holding \subseteq {binding.by} BY <2>1 DEF Matches
  <2>4. IsFiniteSet({binding.by}) /\ Cardinality({binding.by}) = 1 BY FS_Singleton
  <2>5. Cardinality(Holding) <= Cardinality({binding.by}) BY <2>3, <2>4, FS_Subset
  <2> QED BY <2>2, <2>4, <2>5 DEF OwnersAgree
<1> QED BY <1>1, Invariance, PTL
=============================================================================
