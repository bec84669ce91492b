----------------------- MODULE ContextExecutionProofs -----------------------
(* Theorems about ContextExecution.  The properties speak of the child, which *)
(* the daemon sees only through frames that may be late, unread or lost; they *)
(* hold because of what record, lease and conversation say of each other at   *)
(* every step.  IInv has these parts:                                         *)
(*   Talking   how far call, serveOne, helper and child of a launch are, and  *)
(*             what the frames between them may still say (Talk, Sent): a     *)
(*             result, on the wire or read, tells what the child did (Tells); *)
(*   Recording a record names one launch, is as far as its serveOne (Stage)   *)
(*             or further, holds the authority before a child can exist, and  *)
(*             the lease until it is canonicalized (Told); a receipt that is  *)
(*             not the abandoned one is that of the record (Shown);           *)
(*   Calling   what a call knows of its record;                               *)
(*   Leasing   the lease is of the present epoch and keeps the agent its      *)
(*             owner, or of an epoch that a handoff was logged to leave, and  *)
(*             one call at most works under it;                               *)
(*   Booting   while the daemon is down or starting no call or serveOne runs. *)
(* Most actions touch one launch: LaunchStep reduces them to the record,      *)
(* session and conversation of that launch, EarlyKeeps does the same before   *)
(* the launch has a record, and BootKeeps for the startup.  The theorems hold *)
(* for any number of calls, requests, epochs, crashes and faults.             *)
EXTENDS ContextExecution, TLAPS

\* A reported result tells what the child did.
Tells(t, ch) ==
  /\ t \in Truths /\ ch.st \in Ends /\ t.end = ch.st
  /\ t.complete => t.out = ch.made

\* A frame at place i of what the daemon has not read.
Sent(i, f, s, h, ch, rp) ==
  /\ i > 1 \/ s.pc = "receive" => f.kind \in {"output", "terminal"}
  /\ f.kind \in {"prepared", "cannot"} => s.pc = "authed"
  /\ f.kind = "spawned" => ch.st # "none"
  /\ f.kind = "nospawn" => ch.st = "none" /\ rp = "none"
  /\ f.kind = "terminal" => Tells(f.res, ch) /\ h.pc = "gone"

\* The steps of Execute before the listener is there.
Early == {"idle", "reserve", "lease", "request", "give_up", "arm"}

\* The steps of a call, its serveOne, its helper, its child and the socket.
Talk(k, s, h, ch, w, rp) ==
  /\ k \in Early => s.pc = "off" /\ h.pc = "none"
  /\ h.pc \in {"none", "typed"} => s.pc \in {"off", "listen"} /\ ch.st = "none" /\ rp = "none"
  /\ h.pc = "authed" => s.pc \in {"off", "authed"} /\ w = << >> /\ ch.st = "none" /\ rp = "none"
  /\ h.pc = "prepared" => /\ s.pc \in {"off", "authed", "child", "authorize", "ready", "release"}
                          /\ ch.st = "none" /\ (s.pc = "ready" => rp = "execute")
  /\ h.pc = "report" => s.pc \in {"off", "ready"} /\ w = << >> /\ ch.st # "none"
  /\ h.pc = "wait" => /\ s.pc \in {"off", "ready", "receive"} /\ ch.st # "none"
                      /\ s.pc = "ready" => w # << >>
  /\ rp = "execute" => /\ ch.st = "none" /\ s.pc \in {"off", "ready"} /\ w = << >>
                       /\ h.pc \in {"prepared", "gone"}
  /\ s.pc \in {"off", "listen", "child", "authorize"} => w = << >>
  /\ s.pc \in {"listen", "authed", "child", "authorize"} => ch.st = "none" /\ rp = "none"
  /\ s.pc = "authed" => Len(w) <= 1
  /\ s.pc = "receive" => ch.st # "none"
  /\ s.pc \in {"output", "terminal", "canonical", "publish"} => Tells(s.res, ch) /\ h.pc = "gone"
  /\ ~h.truncated /\ ~h.lost => h.sent = ch.made
  /\ \A i \in DOMAIN w : Sent(i, w[i], s, h, ch, rp)
\* The conversation of every launch.
Talking == \A c \in Calls : Talk(call[c].pc, serve[c], helper[c], child[c], wire[c], reply[c])

\* The life of the record at each step of serveOne.
Stage == [p \in {"listen", "authed", "child", "authorize", "ready", "receive", "output",
                 "terminal", "canonical"} |->
  CASE p = "listen" -> "helper_requested" [] p \in {"authed", "child"} -> "helper_authenticated"
    [] p \in {"authorize", "ready"} -> "child_reserved"
    [] p \in {"receive", "output", "terminal"} -> "child_spawned"
    [] p = "canonical" -> "child_terminal"]

\* A record that names a launch, and the launch.
Told(k, s, ch, rp, r, se) ==
  /\ r.life # "reserved" /\ k \in {"arm", "shell", "fail", "done"}
  /\ k = "arm" => r.life = "helper_requested"
  /\ s.pc \in DOMAIN Stage => r.life \in {Stage[s.pc], "ambiguous"}
  /\ s.pc \in {"publish", "release"} => r.life = "canonicalized"
  /\ rp = "execute" \/ ch.st # "none" => r.auth
  /\ r.auth \/ s.pc \in {"child", "authorize", "ready", "receive", "output", "terminal",
                         "canonical", "publish"} => se # None
  /\ s.pc \in {"terminal", "canonical", "publish"} => se.log = s.res.out
  /\ s.pc = "publish" => r.res = s.res
  /\ r.res # None => \/ Tells(r.res, ch)
                     \/ /\ r.res = NoChild /\ ch.st = "none" /\ rp = "none"
                        /\ s.pc \in {"release", "off"} /\ r.life = "canonicalized"
  /\ r.life \in {"child_terminal", "canonicalized"} => r.res # None

\* A receipt that is not the abandoned one.
Shown(r, se) ==
  se # None /\ se.receipt \in Receipts \ {"abandoned"} =>
    /\ r # None /\ r.life = "canonicalized" /\ r.res \in Truths /\ r.res # NoChild
    /\ se.log = r.res.out /\ se.receipt = Outcome(r.res)

\* The record of a request, its session and the launch it names.
Recorded(x) ==
  /\ Shown(rec[x], ses[x])
  /\ rec[x] # None /\ rec[x].helper = None =>
       rec[x].life = "reserved" /\ ~rec[x].auth /\ rec[x].res = None
  /\ rec[x] # None /\ rec[x].helper # None =>
       LET c == rec[x].helper IN
       /\ X(c) = x /\ call[c].epoch = rec[x].epoch
       /\ Told(call[c].pc, serve[c], child[c], reply[c], rec[x], ses[x])
       /\ rec[x].life # "canonicalized" => lease[rec[x].epoch] = x
\* Every record.
Recording == \A x \in Execs : Recorded(x)

\* What a call knows of its record.
Called(c) ==
  /\ call[c].pc # "idle" => X(c) \in Execs /\ call[c].epoch \in Epochs
  /\ call[c].pc \in {"lease", "request", "give_up"} =>
       rec[X(c)] # None /\ rec[X(c)].epoch = call[c].epoch
  /\ call[c].pc = "give_up" => rec[X(c)].helper = None
  /\ call[c].pc \in {"arm", "shell", "fail"} \/ serve[c].pc # "off" \/ helper[c].pc # "none" =>
       rec[X(c)] # None /\ rec[X(c)].helper = c
\* Every call.
Calling == \A c \in Calls : Called(c)

\* A call that keeps the lease.
Owner(c) == call[c].pc \in {"request", "give_up", "arm"} \/ serve[c].pc # "off"
\* The agent has the session in epoch e, or e was left by a logged handoff.
Held(b, e) == (b.epoch = e /\ b.owner = "agent") \/ e \in b.logged
\* The lease keeps the session with the agent in its epoch unless a handoff was
\* logged to leave it, and is that of the call that works.
Leasing ==
  /\ MaxEpoch \notin bind.logged
  /\ \A e \in Epochs : lease[e] # None => Held(bind, e)
  /\ \A c \in Calls : Owner(c) => lease[call[c].epoch] = X(c)
  /\ \A c, d \in Calls : Owner(c) /\ Owner(d) /\ call[c].epoch = call[d].epoch => c = d

\* What holds while the daemon is down or starting.
Booting ==
  /\ boot # "up" => \A c \in Calls : call[c].pc \in {"idle", "done"} /\ serve[c].pc = "off"
  /\ \A x \in todo : boot = "reconcile" /\ rec[x] # None

\* The inductive invariant.
IInv == TypeOK /\ Talking /\ Recording /\ Calling /\ Leasing /\ Booting

USE DEF disk, procs, links, daemon, counts

\* None is not a value.
LEMMA NoneIsNothing ==
  /\ None \notin Records /\ None \notin Sessions /\ None \notin Truths
  /\ None \notin Calls /\ None \notin Execs /\ None \notin Receipts
  /\ NoChild \in Truths /\ NoChild # None
<1>1. NoChild \in Truths
  BY DEF NoChild, Truths
<1> QED
  BY <1>1, NoneAssumption, ContextAssumption

\* The fields of records and sessions.
LEMMA Fields ==
  /\ \A r \in Records : /\ r.life \in Lives /\ r.epoch \in Epochs
                        /\ r.helper \in Calls \cup {None}
                        /\ r.auth \in BOOLEAN /\ r.res \in Truths \cup {None}
  /\ \A s \in Sessions : /\ s.mine \in BOOLEAN /\ s.receipt \in Receipts \cup {None}
                         /\ s.log \in Nat
  /\ \A t \in Truths : /\ t.end \in Ends \cup {"none"} /\ t.timedOut \in BOOLEAN
                       /\ t.out \in Nat /\ t.complete \in BOOLEAN
BY DEF Records, Sessions, Truths

\* Where a transition may come from.
LEMMA Backward ==
  ASSUME NEW v \in Lives, NEW n \in Lives, CanAdvanceTo(v, n)
  PROVE  /\ v \notin {"canonicalized", "helper_lost", "ambiguous"}
         /\ n # "reserved"
         /\ n = "helper_requested" => v = "reserved"
         /\ n = "helper_authenticated" => v = "helper_requested"
         /\ n = "child_reserved" => v = "helper_authenticated"
         /\ n = "child_spawned" => v = "child_reserved"
         /\ n = "child_terminal" => v = "child_spawned"
         /\ n = "canonicalized" => v = "child_terminal"
         /\ n \in {"helper_lost", "ambiguous"} => v # "reserved"
<1>1. v \in DOMAIN Successor
  BY DEF CanAdvanceTo, Terminal, Lives, Successor
<1>2. /\ Successor["reserved"] = "helper_requested"
      /\ Successor["helper_requested"] = "helper_authenticated"
      /\ Successor["helper_authenticated"] = "child_reserved"
      /\ Successor["child_reserved"] = "child_spawned"
      /\ Successor["child_spawned"] = "child_terminal"
      /\ Successor["child_terminal"] = "canonicalized"
  BY DEF Successor
<1>3. v \in {"reserved", "helper_requested", "helper_authenticated", "child_reserved",
             "child_spawned", "child_terminal"}
  BY <1>1 DEF Successor
<1>4. n \notin {"helper_lost", "ambiguous"} => n = Successor[v]
  BY DEF CanAdvanceTo
<1>5. n \in {"helper_lost", "ambiguous"} => v # "reserved"
  BY DEF CanAdvanceTo
<1> QED
  BY <1>2, <1>3, <1>4, <1>5

\* Apply without a launch, a result or an authority only changes the life.
LEMMA ApplyLife ==
  ASSUME NEW r \in Records, NEW life \in Lives, Apply(r, life, FALSE, None, None) # None
  PROVE  /\ Apply(r, life, FALSE, None, None) = [r EXCEPT !.life = life]
         /\ Apply(r, life, FALSE, None, None) \in Records
         /\ r.life = life \/ (CanAdvanceTo(r.life, life) /\ (life = "child_spawned" => r.auth))
<1>1. [r EXCEPT !.helper = IF None = None THEN @ ELSE None,
                !.res = IF None = None THEN @ ELSE None] = r
  BY DEF Records
<1>2. r.life = life => [r EXCEPT !.life = life] = r
  BY DEF Records
<1>3. [r EXCEPT !.life = life] \in Records
  BY DEF Records
<1>4. CASE r.life = life
  BY <1>1, <1>2, <1>3, <1>4 DEF Apply
<1>5. CASE r.life # life
  BY <1>1, <1>3, <1>5, NoneIsNothing DEF Apply
<1> QED
  BY <1>4, <1>5

\* The authority is given to a reserved child.
LEMMA ApplyAuth ==
  ASSUME NEW r \in Records, Apply(r, "child_reserved", TRUE, None, None) # None
  PROVE  /\ Apply(r, "child_reserved", TRUE, None, None) = [r EXCEPT !.auth = TRUE]
         /\ Apply(r, "child_reserved", TRUE, None, None) \in Records
         /\ r.life = "child_reserved"
<1>1. [r EXCEPT !.helper = IF None = None THEN @ ELSE None,
                !.res = IF None = None THEN @ ELSE None] = r
  BY DEF Records
<1>2. [r EXCEPT !.auth = TRUE] \in Records
  BY DEF Records
<1>3. CASE r.life = "child_reserved"
  BY <1>1, <1>2, <1>3 DEF Apply
<1>4. CASE r.life # "child_reserved"
  BY <1>4 DEF Apply
<1> QED
  BY <1>3, <1>4

\* A result is recorded in a record that may take it.
LEMMA ApplyResult ==
  ASSUME NEW r \in Records, NEW life \in {"child_terminal", "canonicalized"}, NEW t \in Truths,
         Apply(r, life, FALSE, None, t) # None
  PROVE  /\ Apply(r, life, FALSE, None, t) = [r EXCEPT !.life = life, !.res = t]
         /\ Apply(r, life, FALSE, None, t) \in Records
         /\ \/ r.life = life /\ r.res = t
            \/ CanAdvanceTo(r.life, life)
            \/ life = "canonicalized" /\ t = NoChild /\ NoChildAllowed(r)
<1>1. t # None /\ life \in Lives
  BY NoneIsNothing DEF Lives
<1>2. [r EXCEPT !.helper = IF None = None THEN @ ELSE None,
                !.res = IF t = None THEN @ ELSE t] = [r EXCEPT !.res = t]
  BY <1>1 DEF Records
<1>3. r.life = life => [r EXCEPT !.life = life, !.res = t] = [r EXCEPT !.res = t]
  BY DEF Records
<1>4. /\ [r EXCEPT !.life = life, !.res = t] \in Records
      /\ [r EXCEPT !.life = life, !.res = t] = [[r EXCEPT !.res = t] EXCEPT !.life = life]
  BY <1>1 DEF Records
<1>5. [r EXCEPT !.res = t] = r => r.res = t
  BY DEF Records
<1>6. CASE r.life = life
  BY <1>2, <1>3, <1>4, <1>6, <1>5 DEF Apply
<1>7. CASE r.life # life
  BY <1>2, <1>4, <1>7 DEF Apply
<1> QED
  BY <1>6, <1>7

\* A launch enters a record that is only reserved.
LEMMA ApplyRequest ==
  ASSUME NEW r \in Records, NEW c \in Calls, r.helper # c,
         Apply(r, "helper_requested", FALSE, c, None) # None
  PROVE  /\ Apply(r, "helper_requested", FALSE, c, None)
              = [r EXCEPT !.life = "helper_requested", !.helper = c]
         /\ Apply(r, "helper_requested", FALSE, c, None) \in Records
         /\ r.life = "reserved"
<1>1. c # None /\ r.life \in Lives /\ "helper_requested" \in Lives
  BY NoneIsNothing, Fields DEF Lives
<1>2. [r EXCEPT !.helper = IF c = None THEN @ ELSE c,
                !.res = IF None = None THEN @ ELSE None] = [r EXCEPT !.helper = c]
  BY <1>1 DEF Records
<1>3. [r EXCEPT !.helper = c] # r
  BY DEF Records
<1>4. /\ [r EXCEPT !.life = "helper_requested", !.helper = c] \in Records
      /\ [r EXCEPT !.life = "helper_requested", !.helper = c]
           = [[r EXCEPT !.helper = c] EXCEPT !.life = "helper_requested"]
  BY <1>1 DEF Records
<1>5. CASE r.life = "helper_requested"
  BY <1>2, <1>3, <1>5 DEF Apply
<1>6. CASE r.life # "helper_requested"
  <2>1. CanAdvanceTo(r.life, "helper_requested")
    BY <1>2, <1>6 DEF Apply
  <2> QED
    BY <2>1, <1>1, <1>2, <1>4, <1>6, Backward DEF Apply
<1> QED
  BY <1>5, <1>6

\* What each part of a state in the invariant is.
LEMMA Typed ==
  ASSUME IInv, NEW c \in Calls
  PROVE  /\ call[c] \in CallStates /\ serve[c] \in Serves /\ helper[c] \in Helpers
         /\ child[c] \in Children /\ wire[c] \in Seq(Frames) /\ reply[c] \in {"none", "execute"}
         /\ call[c].x \in Execs \cup {None} /\ call[c].epoch \in Nat
         /\ \A x \in Execs : rec[x] \in Records \cup {None} /\ ses[x] \in Sessions \cup {None}
BY DEF IInv, TypeOK, CallStates

\* A call that has got as far as a helper, or to serving one, has its record.
LEMMA Launched ==
  ASSUME IInv, NEW c \in Calls,
         call[c].pc \in {"arm", "shell", "fail"} \/ serve[c].pc # "off" \/ helper[c].pc # "none"
  PROVE  /\ X(c) \in Execs /\ rec[X(c)] \in Records /\ rec[X(c)].helper = c
         /\ call[c].epoch \in Epochs /\ call[c].epoch = rec[X(c)].epoch
         /\ Told(call[c].pc, serve[c], child[c], reply[c], rec[X(c)], ses[X(c)])
         /\ rec[X(c)].life # "canonicalized" => lease[rec[X(c)].epoch] = X(c)
         /\ Talk(call[c].pc, serve[c], helper[c], child[c], wire[c], reply[c])
         /\ Shown(rec[X(c)], ses[X(c)]) /\ rec[X(c)] # None
<1>1. Talk(call[c].pc, serve[c], helper[c], child[c], wire[c], reply[c])
  BY DEF IInv, Talking
<1>2. call[c].pc # "idle"
  BY <1>1 DEF Talk, Early
<1>3. X(c) \in Execs /\ call[c].epoch \in Epochs /\ rec[X(c)] # None /\ rec[X(c)].helper = c
  BY <1>2 DEF IInv, Calling, Called
<1>4. Recorded(X(c)) /\ rec[X(c)] \in Records
  BY <1>3, Typed DEF IInv, Recording
<1> QED
  BY <1>1, <1>3, <1>4, NoneIsNothing DEF Recorded

\* A step of a launch: what it does to its own record, session and conversation
\* is all that matters.
LEMMA LaunchStep ==
  ASSUME IInv, TypeOK', NEW c \in Calls,
         X(c) \in Execs, rec[X(c)] # None, rec[X(c)].helper = c,
         \A d \in Calls \ {c} : /\ call'[d] = call[d] /\ serve'[d] = serve[d]
                                /\ helper'[d] = helper[d] /\ child'[d] = child[d]
                                /\ wire'[d] = wire[d] /\ reply'[d] = reply[d],
         \A x \in Execs \ {X(c)} : rec'[x] = rec[x] /\ ses'[x] = ses[x],
         call'[c].x = call[c].x, call'[c].epoch = call[c].epoch,
         rec'[X(c)] # None, rec'[X(c)].helper = c, rec'[X(c)].epoch = rec[X(c)].epoch,
         rec[X(c)].life = "canonicalized" => rec'[X(c)].life = "canonicalized",
         call'[c].pc \in {"arm", "shell", "fail", "done"}, Owner(c)' => Owner(c),
         boot # "up" => call'[c].pc = call[c].pc /\ serve'[c].pc = serve[c].pc,
         \/ lease' = lease
         \/ /\ Owner(c) /\ ~Owner(c)' /\ rec'[X(c)].life = "canonicalized"
            /\ lease' = [lease EXCEPT ![call[c].epoch] = None],
         bind' = bind, boot' = boot, todo' = todo,
         Talk(call[c].pc, serve[c], helper[c], child[c], wire[c], reply[c])',
         Told(call'[c].pc, serve'[c], child'[c], reply'[c], rec'[X(c)], ses'[X(c)]),
         Shown(rec'[X(c)], ses'[X(c)])
  PROVE  IInv'
<1>1. \A d \in Calls : X(d)' = X(d) /\ call'[d].epoch = call[d].epoch
  BY DEF X
<1>2. Talking'
  <2> SUFFICES ASSUME NEW d \in Calls
               PROVE  Talk(call[d].pc, serve[d], helper[d], child[d], wire[d], reply[d])'
    BY DEF Talking
  <2>1. CASE d = c
    BY <2>1
  <2>2. CASE d # c
    BY <2>2 DEF IInv, Talking
  <2> QED
    BY <2>1, <2>2
<1>3. \A e \in Epochs : lease'[e] = lease[e] \/ (lease'[e] = None /\ lease[e] = X(c))
  BY DEF IInv, Leasing, TypeOK
<1>4. \A x \in Execs : rec'[x] = rec[x] \/ x = X(c)
  OBVIOUS
<1>5. Recording'
  <2> SUFFICES ASSUME NEW x \in Execs PROVE Recorded(x)'
    BY DEF Recording
  <2>1. CASE x = X(c)
    <3>1. ASSUME rec'[x].life # "canonicalized" PROVE lease'[rec'[x].epoch] = x
      <4>1. lease' = lease /\ rec[x].life # "canonicalized"
        BY <2>1, <3>1
      <4>2. Recorded(x) /\ rec[x].helper # None /\ rec[x] # None
        BY <2>1, NoneIsNothing DEF IInv, Recording
      <4> QED
        BY <2>1, <4>1, <4>2 DEF Recorded
    <3>2. call'[c].epoch = rec'[x].epoch
      BY <2>1, NoneIsNothing DEF IInv, Recording, Recorded
    <3> QED
      BY <2>1, <3>1, <3>2, <1>1, NoneIsNothing DEF Recorded
  <2>2. CASE x # X(c)
    <3>1. rec'[x] = rec[x] /\ ses'[x] = ses[x] /\ Recorded(x)
      BY <2>2 DEF IInv, Recording
    <3>2. CASE rec[x] # None /\ rec[x].helper # None
      <4> DEFINE d == rec[x].helper
      <4>1. rec[x] \in Records /\ d \in Calls /\ rec[x].epoch \in Epochs
        BY <3>2, Typed, Fields
      <4>2. X(d) = x /\ d # c
        BY <3>1, <3>2, <2>2 DEF Recorded
      <4>3. rec[x].life # "canonicalized" => lease'[rec[x].epoch] = x
        BY <4>1, <3>1, <3>2, <2>2, <1>3, NoneIsNothing DEF Recorded
      <4>4. /\ call'[d] = call[d] /\ serve'[d] = serve[d] /\ child'[d] = child[d]
            /\ reply'[d] = reply[d]
        BY <4>1, <4>2
      <4> HIDE DEF d
      <4>5. rec'[x].helper = d
        BY <3>1 DEF d
      <4>6. /\ X(d) = x /\ call[d].epoch = rec[x].epoch
            /\ Told(call[d].pc, serve[d], child[d], reply[d], rec[x], ses[x])
        BY <3>1, <3>2 DEF Recorded, d
      <4> QED
        BY <3>1, <3>2, <4>1, <4>3, <4>4, <4>5, <4>6, <1>1 DEF Recorded
    <3>3. CASE ~(rec[x] # None /\ rec[x].helper # None)
      BY <3>1, <3>3 DEF Recorded
    <3> QED
      BY <3>2, <3>3
  <2> QED
    BY <2>1, <2>2
<1>6. Calling'
  <2> SUFFICES ASSUME NEW d \in Calls PROVE Called(d)'
    BY DEF Calling
  <2>1. Called(d) /\ Called(c)
    BY DEF IInv, Calling
  <2>2. CASE d = c
    <3>1. call[c].pc # "idle"
      <4>1. Told(call[c].pc, serve[c], child[c], reply[c], rec[X(c)], ses[X(c)])
        BY NoneIsNothing DEF IInv, Recording, Recorded
      <4> QED
        BY <4>1 DEF Told
    <3> QED
      BY <2>1, <2>2, <1>1, <3>1 DEF Called
  <2>3. CASE d # c
    <3>1. call'[d] = call[d] /\ serve'[d] = serve[d] /\ helper'[d] = helper[d] /\ X(d)' = X(d)
      BY <2>3, <1>1
    <3>2. CASE call[d].pc = "idle"
      BY <3>1, <3>2, <2>1, <2>3 DEF Called, IInv, Talking, Talk, Early
    <3>3. CASE call[d].pc # "idle"
      <4>1. X(d) \in Execs
        BY <2>1, <3>3 DEF Called
      <4>2. CASE X(d) # X(c)
        BY <2>1, <3>1, <4>1, <4>2 DEF Called
      <4>3. CASE X(d) = X(c)
        BY <2>1, <2>3, <3>1, <4>1, <4>3, NoneIsNothing DEF Called
      <4> QED
        BY <4>2, <4>3
    <3> QED
      BY <3>2, <3>3
  <2> QED
    BY <2>2, <2>3
<1>7. Leasing'
  <2>1. \A d \in Calls : Owner(d)' => Owner(d)
    BY DEF Owner
  <2>2. MaxEpoch \notin bind'.logged /\ \A e \in Epochs : lease'[e] # None => Held(bind', e)
    BY <1>3 DEF IInv, Leasing
  <2>3. \A d \in Calls : call'[d].epoch = call[d].epoch
    OBVIOUS
  <2>4. \A d1, d2 \in Calls :
          Owner(d1)' /\ Owner(d2)' /\ call'[d1].epoch = call'[d2].epoch => d1 = d2
    BY <2>1, <2>3 DEF IInv, Leasing
  <2>5. ASSUME NEW d \in Calls, Owner(d)' PROVE lease'[call'[d].epoch] = X(d)'
    <3>1. Owner(d) /\ lease[call[d].epoch] = X(d)
      BY <2>1, <2>5 DEF IInv, Leasing
    <3>2. CASE lease' = lease
      BY <3>1, <3>2, <1>1
    <3>3. CASE lease' # lease
      <4>1. /\ Owner(c) /\ ~Owner(c)' /\ d # c
            /\ lease' = [lease EXCEPT ![call[c].epoch] = None]
        BY <2>5, <3>3
      <4>2. call[d].epoch # call[c].epoch
        BY <4>1, <3>1 DEF IInv, Leasing
      <4>3. call[d].epoch \in Epochs
        <5>1. CASE call[d].pc \in {"request", "give_up"}
          BY <5>1 DEF IInv, Calling, Called
        <5>2. CASE call[d].pc = "arm" \/ serve[d].pc # "off"
          BY <5>2, Launched
        <5> QED
          BY <3>1, <5>1, <5>2 DEF Owner
      <4>4. lease \in [Epochs -> Execs \cup {None}]
        BY DEF IInv, TypeOK
      <4> QED
        BY <4>1, <4>2, <4>3, <4>4, <3>1, <1>1
    <3> QED
      BY <3>2, <3>3
  <2> QED
    BY <2>2, <2>4, <2>5 DEF Leasing
<1>8. Booting'
  <2>1. ASSUME boot' # "up", NEW d \in Calls
        PROVE  call'[d].pc \in {"idle", "done"} /\ serve'[d].pc = "off"
    BY <2>1 DEF IInv, Booting
  <2>2. \A x \in todo' : boot' = "reconcile" /\ rec'[x] # None
    BY <1>4 DEF IInv, Booting, TypeOK
  <2> QED
    BY <2>1, <2>2 DEF Booting
<1> QED
  BY <1>2, <1>5, <1>6, <1>7, <1>8 DEF IInv

\* A step of a helper or of its child.
LEMMA HelperKeeps ==
  ASSUME IInv, TypeOK', NEW c \in Calls, helper[c].pc # "none",
         UNCHANGED <<disk, call, serve, daemon>>,
         \A d \in Calls \ {c} : /\ helper'[d] = helper[d] /\ child'[d] = child[d]
                                /\ wire'[d] = wire[d] /\ reply'[d] = reply[d],
         child[c].st \in Ends => child'[c] = child[c],
         child'[c].st # "none" \/ reply'[c] = "execute" =>
           child[c].st # "none" \/ reply[c] = "execute",
         Talk(call[c].pc, serve[c], helper'[c], child'[c], wire'[c], reply'[c])
  PROVE  IInv'
<1>1. /\ X(c) \in Execs /\ rec[X(c)] # None /\ rec[X(c)].helper = c
      /\ Told(call[c].pc, serve[c], child[c], reply[c], rec[X(c)], ses[X(c)])
      /\ Shown(rec[X(c)], ses[X(c)])
  BY Launched
<1>2. child'[c] \in Children /\ reply'[c] \in {"none", "execute"} /\ child[c] \in Children
      /\ reply[c] \in {"none", "execute"}
  BY DEF IInv, TypeOK
<1>3. Told(call[c].pc, serve[c], child'[c], reply'[c], rec[X(c)], ses[X(c)])
  BY <1>1, <1>2 DEF Told, Tells
<1>4. call[c].pc \in {"arm", "shell", "fail", "done"}
  BY <1>1 DEF Told
<1>5. Owner(c)' => Owner(c)
  BY DEF Owner
<1> QED
  BY <1>1, <1>3, <1>4, <1>5, LaunchStep

\* A frame more at the end.
LEMMA AppendSent ==
  ASSUME NEW w \in Seq(Frames), NEW f \in Frames, NEW s, NEW h, NEW ch, NEW rp,
         \A i \in DOMAIN w : Sent(i, w[i], s, h, ch, rp), Sent(Len(w) + 1, f, s, h, ch, rp)
  PROVE  /\ Append(w, f) \in Seq(Frames) /\ Append(w, f) # << >>
         /\ \A i \in DOMAIN Append(w, f) : Sent(i, Append(w, f)[i], s, h, ch, rp)
<1>1. /\ Append(w, f) \in Seq(Frames) /\ Append(w, f) # << >>
      /\ \A i \in DOMAIN Append(w, f) :
           \/ i \in DOMAIN w /\ Append(w, f)[i] = w[i]
           \/ i = Len(w) + 1 /\ Append(w, f)[i] = f
  OBVIOUS
<1> QED
  BY <1>1

\* What a step of the helper's pc does to its fields.
LEMMA HelperGoesTyped ==
  ASSUME IInv, NEW c \in Calls, NEW pc \in {"none", "typed", "authed", "prepared", "report",
                                            "wait", "gone"}, HelperGoes(c, pc)
  PROVE  /\ helper' \in [Calls -> Helpers]
         /\ helper'[c].pc = pc /\ helper'[c].sent = helper[c].sent
         /\ helper'[c].truncated = helper[c].truncated /\ helper'[c].lost = helper[c].lost
         /\ \A d \in Calls \ {c} : helper'[d] = helper[d]
<1>1. helper[c] \in Helpers /\ helper \in [Calls -> Helpers]
  BY DEF IInv, TypeOK
<1>2. helper' = [helper EXCEPT ![c] = [helper[c] EXCEPT !.pc = pc]]
  BY DEF HelperGoes
<1>3. [helper[c] EXCEPT !.pc = pc] \in Helpers
  BY <1>1 DEF Helpers
<1>4. helper'[c] = [helper[c] EXCEPT !.pc = pc]
  BY <1>1, <1>2
<1> QED
  BY <1>1, <1>2, <1>3, <1>4 DEF Helpers

\* What a step of the child's state does to it.
LEMMA ChildGoes ==
  ASSUME IInv, NEW c \in Calls, NEW st \in {"none", "running"} \cup Ends,
         child' = [child EXCEPT ![c].st = st]
  PROVE  /\ child' \in [Calls -> Children] /\ child'[c].st = st
         /\ child'[c].made = child[c].made /\ \A d \in Calls \ {c} : child'[d] = child[d]
<1>1. child[c] \in Children /\ child \in [Calls -> Children]
  BY DEF IInv, TypeOK
<1>2. [child[c] EXCEPT !.st = st] \in Children
  BY <1>1 DEF Children
<1>3. child'[c] = [child[c] EXCEPT !.st = st]
  BY <1>1
<1> QED
  BY <1>1, <1>2, <1>3 DEF Children

\* Every call's conversation.
LEMMA Talks ==
  ASSUME IInv, NEW c \in Calls
  PROVE  Talk(call[c].pc, serve[c], helper[c], child[c], wire[c], reply[c])
BY DEF IInv, Talking

\* The helper finds no daemon and goes; it has no child.
LEMMA HelperLeavesKeeps ==
  ASSUME IInv, NEW c \in Calls, HelperLeaves(c) PROVE IInv'
<1> USE DEF HelperLeaves
<1>1. /\ call[c] \in CallStates /\ serve[c] \in Serves /\ helper[c] \in Helpers
      /\ child[c] \in Children /\ reply[c] \in {"none", "execute"}
  BY Typed
<1>2. HelperGoes(c, "gone") /\ helper[c].pc \in {"typed", "authed", "prepared"}
  OBVIOUS
<1>3. /\ helper' \in [Calls -> Helpers] /\ helper'[c].pc = "gone"
      /\ helper'[c].sent = helper[c].sent /\ helper'[c].truncated = helper[c].truncated
      /\ helper'[c].lost = helper[c].lost /\ \A d \in Calls \ {c} : helper'[d] = helper[d]
  BY <1>2, HelperGoesTyped
<1>4. TypeOK'
  BY <1>3 DEF IInv, TypeOK
<1>5. Talk(call[c].pc, serve[c], helper'[c], child[c], wire[c], reply[c])
  BY <1>1, <1>2, <1>3, Talks DEF Talk, Sent
<1> QED
  BY <1>2, <1>3, <1>4, <1>5, HelperKeeps

\* The helper is killed, at any step; its child goes on.
LEMMA HelperDiesKeeps ==
  ASSUME IInv, NEW c \in Calls, HelperDies(c) PROVE IInv'
<1> USE DEF HelperDies
<1>1. HelperGoes(c, "gone") /\ helper[c].pc \notin {"none", "gone"}
  OBVIOUS
<1>2. /\ helper' \in [Calls -> Helpers] /\ helper'[c].pc = "gone"
      /\ helper'[c].sent = helper[c].sent /\ helper'[c].truncated = helper[c].truncated
      /\ helper'[c].lost = helper[c].lost /\ \A d \in Calls \ {c} : helper'[d] = helper[d]
  BY <1>1, HelperGoesTyped
<1>3. TypeOK'
  BY <1>2, ContextAssumption DEF IInv, TypeOK, Spend
<1>4. Talk(call[c].pc, serve[c], helper'[c], child[c], wire[c], reply[c])
  BY <1>1, <1>2, Talks DEF Talk, Sent, Early
<1> QED
  BY <1>1, <1>2, <1>3, <1>4, HelperKeeps

\* The first frame on an empty socket.
LEMMA PrepareKeeps ==
  ASSUME IInv, NEW c \in Calls, Prepare(c) PROVE IInv'
<1> USE DEF Prepare
<1>1. /\ serve[c] \in Serves /\ wire[c] \in Seq(Frames)
  BY Typed
<1>2. HelperGoes(c, "prepared") /\ helper[c].pc = "authed" /\ serve[c].pc = "authed"
      /\ wire[c] = << >> /\ child[c].st = "none" /\ reply[c] = "none"
  BY Talks DEF Talk, Connected
<1>3. /\ helper' \in [Calls -> Helpers] /\ helper'[c].pc = "prepared"
      /\ helper'[c].sent = helper[c].sent /\ helper'[c].truncated = helper[c].truncated
      /\ helper'[c].lost = helper[c].lost /\ \A d \in Calls \ {c} : helper'[d] = helper[d]
  BY <1>2, HelperGoesTyped
<1>4. PICK kind \in {"prepared", "cannot"} : Send(c, Frame(kind))
  OBVIOUS
<1>5. Frame(kind) \in Frames
  BY DEF Frame, Frames
<1>6. /\ wire' \in [Calls -> Seq(Frames)] /\ wire'[c] = <<Frame(kind)>>
      /\ \A d \in Calls \ {c} : wire'[d] = wire[d]
  BY <1>2, <1>4, <1>5 DEF IInv, TypeOK, Send
<1>7. TypeOK'
  BY <1>3, <1>6 DEF IInv, TypeOK
<1>8. /\ Len(wire'[c]) = 1 /\ DOMAIN wire'[c] = {1} /\ wire'[c][1].kind = kind
  BY <1>6 DEF Frame
<1>9. Talk(call[c].pc, serve[c], helper'[c], child[c], wire'[c], reply[c])
  BY <1>2, <1>3, <1>8, Talks DEF Talk, Sent, Early
<1> QED
  BY <1>2, <1>3, <1>6, <1>7, <1>9, HelperKeeps

\* The execute frame is consumed, so it was sent, and the record has its
\* authority.
LEMMA SpawnKeeps ==
  ASSUME IInv, NEW c \in Calls, Spawn(c) PROVE IInv'
<1> USE DEF Spawn
<1>1. HelperGoes(c, "report") /\ helper[c].pc = "prepared" /\ reply[c] = "execute"
      /\ serve[c].pc \in {"off", "ready"} /\ wire[c] = << >> /\ child[c].st = "none"
  BY Talks DEF Talk
<1>2. /\ helper' \in [Calls -> Helpers] /\ helper'[c].pc = "report"
      /\ helper'[c].sent = helper[c].sent /\ helper'[c].truncated = helper[c].truncated
      /\ helper'[c].lost = helper[c].lost /\ \A d \in Calls \ {c} : helper'[d] = helper[d]
  BY <1>1, HelperGoesTyped
<1>3. /\ child' \in [Calls -> Children] /\ child'[c].st = "running"
      /\ child'[c].made = child[c].made /\ \A d \in Calls \ {c} : child'[d] = child[d]
  BY ChildGoes
<1>4. /\ reply' \in [Calls -> {"none", "execute"}] /\ reply'[c] = "none"
      /\ \A d \in Calls \ {c} : reply'[d] = reply[d]
  BY DEF IInv, TypeOK
<1>5. TypeOK'
  BY <1>2, <1>3, <1>4 DEF IInv, TypeOK
<1>6. Talk(call[c].pc, serve[c], helper'[c], child'[c], wire[c], reply'[c])
  BY <1>1, <1>2, <1>3, <1>4, Talks DEF Talk, Sent, Early
<1>7. child[c].st \notin Ends
  BY <1>1 DEF Ends
<1> QED
  BY <1>1, <1>2, <1>3, <1>4, <1>5, <1>6, <1>7, HelperKeeps

\* The execute frame is consumed and there will be no child.
LEMMA SpawnFailsKeeps ==
  ASSUME IInv, NEW c \in Calls, SpawnFails(c) PROVE IInv'
<1> USE DEF SpawnFails
<1>1. HelperGoes(c, "gone") /\ helper[c].pc = "prepared" /\ reply[c] = "execute"
      /\ serve[c].pc \in {"off", "ready"} /\ wire[c] = << >> /\ child[c].st = "none"
  BY Talks DEF Talk
<1>2. /\ helper' \in [Calls -> Helpers] /\ helper'[c].pc = "gone"
      /\ helper'[c].sent = helper[c].sent /\ helper'[c].truncated = helper[c].truncated
      /\ helper'[c].lost = helper[c].lost /\ \A d \in Calls \ {c} : helper'[d] = helper[d]
  BY <1>1, HelperGoesTyped
<1>3. /\ reply' \in [Calls -> {"none", "execute"}] /\ reply'[c] = "none"
      /\ \A d \in Calls \ {c} : reply'[d] = reply[d]
  BY DEF IInv, TypeOK
<1>4. Frame("nospawn") \in Frames /\ Frame("nospawn").kind = "nospawn"
  BY DEF Frame, Frames
<1>5. /\ wire' \in [Calls -> Seq(Frames)]
      /\ wire'[c] = IF serve[c].pc = "ready" THEN <<Frame("nospawn")>> ELSE << >>
      /\ \A d \in Calls \ {c} : wire'[d] = wire[d]
  <2>1. CASE serve[c].pc = "ready"
    BY <1>1, <1>4, <2>1 DEF IInv, TypeOK, Connected
  <2>2. CASE serve[c].pc = "off"
    BY <1>1, <2>2 DEF IInv, TypeOK, Connected
  <2> QED
    BY <1>1, <2>1, <2>2
<1>6. TypeOK'
  BY <1>2, <1>3, <1>5 DEF IInv, TypeOK
<1>7. \A i \in DOMAIN wire'[c] : /\ serve[c].pc = "ready" /\ i = 1
                                 /\ wire'[c][i].kind = "nospawn"
  <2>1. CASE serve[c].pc = "ready"
    <3>1. wire'[c] = <<Frame("nospawn")>>
      BY <2>1, <1>5
    <3>2. DOMAIN wire'[c] = {1} /\ wire'[c][1] = Frame("nospawn")
      BY <3>1
    <3> QED
      BY <3>2, <2>1, <1>4
  <2>2. CASE serve[c].pc # "ready"
    BY <2>2, <1>5
  <2> QED
    BY <2>1, <2>2
<1>8. Talk(call[c].pc, serve[c], helper'[c], child[c], wire'[c], reply'[c])
  <2>1. serve[c].pc = "off" => wire'[c] = << >>
    BY <1>5
  <2> QED
    BY <1>1, <1>2, <1>3, <1>7, <2>1, Talks DEF Talk, Sent, Early
<1> QED
  BY <1>1, <1>2, <1>3, <1>5, <1>6, <1>8, HelperKeeps

\* The spawn is reported, or the child is killed when nobody listens.
LEMMA ReportKeeps ==
  ASSUME IInv, NEW c \in Calls, Report(c) PROVE IInv'
<1> USE DEF Report
<1>1. helper[c].pc = "report" /\ serve[c].pc \in {"off", "ready"} /\ wire[c] = << >>
      /\ child[c].st # "none" /\ reply[c] = "none" /\ child[c] \in Children
  BY Talks, Typed DEF Talk
<1>2. CASE serve[c].pc = "ready"
  <2>1. /\ Send(c, Frame("spawned")) /\ HelperGoes(c, "wait") /\ child' = child
    BY <1>2 DEF Connected
  <2>2. /\ helper' \in [Calls -> Helpers] /\ helper'[c].pc = "wait"
        /\ helper'[c].sent = helper[c].sent /\ helper'[c].truncated = helper[c].truncated
        /\ helper'[c].lost = helper[c].lost /\ \A d \in Calls \ {c} : helper'[d] = helper[d]
    BY <2>1, HelperGoesTyped
  <2>3. Frame("spawned") \in Frames /\ Frame("spawned").kind = "spawned"
    BY DEF Frame, Frames
  <2>4. /\ wire' \in [Calls -> Seq(Frames)] /\ wire'[c] = <<Frame("spawned")>>
        /\ \A d \in Calls \ {c} : wire'[d] = wire[d]
    BY <1>1, <2>1, <2>3 DEF IInv, TypeOK, Send
  <2>5. TypeOK'
    BY <2>1, <2>2, <2>4 DEF IInv, TypeOK
  <2>6. DOMAIN wire'[c] = {1} /\ wire'[c][1].kind = "spawned" /\ wire'[c] # << >>
    BY <2>3, <2>4
  <2>7. Talk(call[c].pc, serve[c], helper'[c], child[c], wire'[c], reply[c])
    BY <1>1, <1>2, <2>2, <2>6, Talks DEF Talk, Sent, Early
  <2> QED
    BY <1>1, <2>1, <2>2, <2>4, <2>5, <2>7, HelperKeeps
<1>3. CASE serve[c].pc = "off"
  <2> DEFINE st == IF child[c].st = "running" THEN "killed" ELSE child[c].st
  <2>1. /\ wire' = wire /\ HelperGoes(c, "gone") /\ child' = [child EXCEPT ![c].st = st]
    BY <1>3 DEF Connected, IInv, TypeOK
  <2>2. /\ helper' \in [Calls -> Helpers] /\ helper'[c].pc = "gone"
        /\ helper'[c].sent = helper[c].sent /\ helper'[c].truncated = helper[c].truncated
        /\ helper'[c].lost = helper[c].lost /\ \A d \in Calls \ {c} : helper'[d] = helper[d]
    BY <2>1, HelperGoesTyped
  <2>3. st \in Ends /\ (child[c].st \in Ends => st = child[c].st)
    BY <1>1 DEF Ends, Children
  <2> HIDE DEF st
  <2>4. /\ child' \in [Calls -> Children] /\ child'[c].st = st
        /\ child'[c].made = child[c].made /\ \A d \in Calls \ {c} : child'[d] = child[d]
    BY <2>1, <2>3, ChildGoes
  <2>5. child[c].st \in Ends => child'[c] = child[c]
    BY <1>1, <2>3, <2>4 DEF Children
  <2>6. TypeOK'
    BY <2>1, <2>2, <2>4 DEF IInv, TypeOK
  <2>7. st # "none"
    BY <2>3 DEF Ends
  <2>8. Talk(call[c].pc, serve[c], helper'[c], child'[c], wire[c], reply[c])
    BY <1>1, <1>3, <2>2, <2>4, <2>7, Talks DEF Talk, Sent, Early
  <2> QED
    BY <1>1, <2>1, <2>2, <2>4, <2>5, <2>6, <2>8, HelperKeeps
<1> QED
  BY <1>1, <1>2, <1>3

\* While the child runs nothing on the wire tells its end.
LEMMA RunningTalk ==
  ASSUME IInv, NEW c \in Calls, child[c].st = "running"
  PROVE  /\ helper[c].pc \in {"report", "wait", "gone"} /\ reply[c] = "none"
         /\ serve[c].pc \notin {"output", "terminal", "canonical", "publish"}
         /\ \A i \in DOMAIN wire[c] : wire[c][i].kind \notin {"terminal", "nospawn"}
<1>1. helper[c] \in Helpers /\ reply[c] \in {"none", "execute"}
  BY Typed
<1>2. "running" \notin Ends
  BY DEF Ends
<1> QED
  BY <1>1, <1>2, Talks DEF Talk, Sent, Tells, Helpers

\* No result of a running child is on the wire, so its end contradicts none.
LEMMA ChildExitsKeeps ==
  ASSUME IInv, NEW c \in Calls, ChildExits(c) PROVE IInv'
<1> USE DEF ChildExits
<1>1. PICK end \in {"zero", "other"} : child' = [child EXCEPT ![c].st = end]
  OBVIOUS
<1>2. end \in Ends /\ child[c].st \notin Ends /\ end # "none"
  BY DEF Ends
<1>3. /\ child' \in [Calls -> Children] /\ child'[c].st = end
      /\ child'[c].made = child[c].made /\ \A d \in Calls \ {c} : child'[d] = child[d]
  BY <1>1, <1>2, ChildGoes
<1>4. TypeOK'
  BY <1>3 DEF IInv, TypeOK
<1>5. /\ helper[c].pc \in {"report", "wait", "gone"} /\ reply[c] = "none"
      /\ serve[c].pc \notin {"output", "terminal", "canonical", "publish"}
      /\ \A i \in DOMAIN wire[c] : wire[c][i].kind \notin {"terminal", "nospawn"}
  BY RunningTalk
<1>6. Talk(call[c].pc, serve[c], helper[c], child'[c], wire[c], reply[c])
  BY <1>2, <1>3, <1>5, Talks DEF Talk, Sent, Early
<1> QED
  BY <1>2, <1>3, <1>4, <1>5, <1>6, HelperKeeps

\* The same for a timeout and for the end of the helper.
LEMMA KillGroupKeeps ==
  ASSUME IInv, NEW c \in Calls, KillGroup(c) PROVE IInv'
<1> DEFINE st == IF child[c].st = "running" THEN "killed" ELSE child[c].st
<1>1. /\ helper[c].pc = "wait" /\ child[c].st \in {"running", "zero", "other"}
      /\ child' = [child EXCEPT ![c].st = st]
      /\ helper' = helper \/ helper' = [helper EXCEPT ![c].timedOut = TRUE]
      /\ faults' = faults \/ Spend(1)
      /\ UNCHANGED <<disk, call, serve, links, daemon, crashes>>
  BY DEF KillGroup
<1>2. st \in Ends /\ st # "none" /\ (child[c].st \in Ends => st = child[c].st)
  BY <1>1 DEF Ends
<1> HIDE DEF st
<1>3. /\ child' \in [Calls -> Children] /\ child'[c].st = st
      /\ child'[c].made = child[c].made /\ \A d \in Calls \ {c} : child'[d] = child[d]
  BY <1>1, <1>2, ChildGoes
<1>4. child[c].st \in Ends => child'[c] = child[c]
  <2>1. child[c] \in Children /\ child'[c] \in Children
    BY <1>3, Typed
  <2> QED
    BY <1>2, <1>3, <2>1 DEF Children
<1>5. /\ helper' \in [Calls -> Helpers] /\ helper'[c].pc = helper[c].pc
      /\ helper'[c].sent = helper[c].sent /\ helper'[c].truncated = helper[c].truncated
      /\ helper'[c].lost = helper[c].lost /\ \A d \in Calls \ {c} : helper'[d] = helper[d]
  <2>1. helper[c] \in Helpers /\ helper \in [Calls -> Helpers]
    BY DEF IInv, TypeOK
  <2>2. CASE helper' = helper
    BY <2>1, <2>2
  <2>3. CASE helper' = [helper EXCEPT ![c].timedOut = TRUE]
    <3>1. [helper[c] EXCEPT !.timedOut = TRUE] \in Helpers
      BY <2>1 DEF Helpers
    <3>2. helper'[c] = [helper[c] EXCEPT !.timedOut = TRUE]
      BY <2>1, <2>3
    <3> QED
      BY <2>1, <2>3, <3>1, <3>2 DEF Helpers
  <2> QED
    BY <1>1, <2>2, <2>3
<1>6. TypeOK'
  BY <1>1, <1>3, <1>5, ContextAssumption DEF IInv, TypeOK, Spend
<1>7. /\ reply[c] = "none" /\ serve[c].pc \notin {"output", "terminal", "canonical", "publish"}
      /\ \A i \in DOMAIN wire[c] : wire[c][i].kind \notin {"terminal", "nospawn"}
  <2>1. Talk(call[c].pc, serve[c], helper[c], child[c], wire[c], reply[c])
        /\ reply[c] \in {"none", "execute"}
    BY Talks, Typed
  <2> QED
    BY <1>1, <2>1 DEF Talk, Sent
<1>8. Talk(call[c].pc, serve[c], helper'[c], child'[c], wire[c], reply[c])
  BY <1>1, <1>2, <1>3, <1>5, <1>7, Talks DEF Talk, Sent, Early
<1> QED
  BY <1>1, <1>2, <1>3, <1>5, <1>6, <1>7, <1>8, <1>4, HelperKeeps

\* A byte is sent, cut off or lost: only in the first case does the helper
\* still count all.
LEMMA OutputKeeps ==
  ASSUME IInv, NEW c \in Calls, Output(c) PROVE IInv'
<1> USE DEF Output
<1>1. /\ child[c] \in Children /\ helper[c] \in Helpers /\ wire[c] \in Seq(Frames)
      /\ child \in [Calls -> Children] /\ helper \in [Calls -> Helpers]
      /\ wire \in [Calls -> Seq(Frames)]
  BY DEF IInv, TypeOK
<1>2. child[c].st = "running" /\ child[c].st \notin Ends /\ helper[c].pc = "wait"
      /\ serve[c].pc \in {"off", "ready", "receive"} /\ (serve[c].pc = "ready" => wire[c] # << >>)
  BY Talks DEF Talk, Ends
<1>3. /\ reply[c] = "none"
      /\ \A i \in DOMAIN wire[c] : wire[c][i].kind \notin {"terminal", "nospawn"}
  BY RunningTalk
<1>4. /\ child' \in [Calls -> Children] /\ child'[c].st = "running"
      /\ child'[c].made = child[c].made + 1 /\ \A d \in Calls \ {c} : child'[d] = child[d]
  <2>1. child[c].made + 1 \in Nat
    BY <1>1 DEF Children
  <2>2. [child[c] EXCEPT !.made = child[c].made + 1] \in Children
    BY <1>1, <2>1 DEF Children
  <2>3. child'[c] = [child[c] EXCEPT !.made = child[c].made + 1]
    BY <1>1
  <2> QED
    BY <1>1, <1>2, <2>2, <2>3 DEF Children
<1>5. /\ helper' \in [Calls -> Helpers] /\ helper'[c].pc = "wait"
      /\ ~helper'[c].truncated /\ ~helper'[c].lost => helper'[c].sent = child'[c].made
      /\ \A d \in Calls \ {c} : helper'[d] = helper[d]
  <2>1. helper[c].sent + 1 \in Nat /\ helper[c].truncated \in BOOLEAN /\ helper[c].lost \in BOOLEAN
    BY <1>1 DEF Helpers
  <2>2. ~helper[c].truncated /\ ~helper[c].lost => helper[c].sent = child[c].made
    BY Talks DEF Talk
  <2>3. CASE helper' = [helper EXCEPT ![c].truncated = TRUE]
    <3>1. [helper[c] EXCEPT !.truncated = TRUE] \in Helpers
      BY <1>1 DEF Helpers
    <3>2. helper'[c] = [helper[c] EXCEPT !.truncated = TRUE]
      BY <1>1, <2>3
    <3> QED
      BY <1>1, <1>2, <2>3, <3>1, <3>2 DEF Helpers
  <2>4. CASE helper' = [helper EXCEPT ![c].sent = @ + 1]
    <3>1. [helper[c] EXCEPT !.sent = helper[c].sent + 1] \in Helpers
      BY <1>1, <2>1 DEF Helpers
    <3>2. helper'[c] = [helper[c] EXCEPT !.sent = helper[c].sent + 1]
      BY <1>1, <2>4
    <3>3. /\ helper'[c].sent = helper[c].sent + 1 /\ helper'[c].pc = "wait"
          /\ helper'[c].truncated = helper[c].truncated /\ helper'[c].lost = helper[c].lost
      BY <1>1, <1>2, <3>2 DEF Helpers
    <3> QED
      BY <1>1, <2>4, <2>2, <3>1, <3>2, <3>3, <1>4
  <2>5. CASE helper' = [helper EXCEPT ![c].lost = TRUE, ![c].sent = @ + 1]
    <3>1. [helper[c] EXCEPT !.lost = TRUE, !.sent = helper[c].sent + 1] \in Helpers
      BY <1>1, <2>1 DEF Helpers
    <3>2. helper'[c] = [helper[c] EXCEPT !.lost = TRUE, !.sent = helper[c].sent + 1]
      BY <1>1, <2>5
    <3>3. helper'[c].pc = "wait" /\ helper'[c].lost = TRUE
      BY <1>1, <1>2, <3>2 DEF Helpers
    <3> QED
      BY <1>1, <2>5, <3>1, <3>2, <3>3
  <2> QED
    BY <2>3, <2>4, <2>5
<1>6. Frame("output") \in Frames /\ Frame("output").kind = "output"
  BY DEF Frame, Frames
<1>7. \A i \in DOMAIN wire[c] : Sent(i, wire[c][i], serve[c], helper'[c], child'[c], reply[c])
  BY <1>2, <1>3, <1>4, Talks DEF Talk, Sent
<1>8. /\ wire' \in [Calls -> Seq(Frames)] /\ \A d \in Calls \ {c} : wire'[d] = wire[d]
      /\ serve[c].pc = "ready" => wire'[c] # << >>
      /\ serve[c].pc = "off" => wire'[c] = << >>
      /\ \A i \in DOMAIN wire'[c] : Sent(i, wire'[c][i], serve[c], helper'[c], child'[c], reply[c])
  <2>1. serve[c].pc = "off" => wire[c] = << >>
    BY Talks DEF Talk
  <2>2. CASE wire' = wire
    BY <1>1, <1>2, <1>7, <2>1, <2>2
  <2>3. CASE Send(c, Frame("output")) /\ Connected(c)
    <3> DEFINE f == Frame("output")
    <3>1. f \in Frames /\ f.kind = "output"
      BY <1>6
    <3>2. wire' = [wire EXCEPT ![c] = Append(wire[c], f)]
      BY <2>3 DEF Send
    <3> HIDE DEF f
    <3>3. Sent(Len(wire[c]) + 1, f, serve[c], helper'[c], child'[c], reply[c])
      BY <3>1 DEF Sent
    <3>4. /\ Append(wire[c], f) \in Seq(Frames) /\ Append(wire[c], f) # << >>
          /\ \A i \in DOMAIN Append(wire[c], f) :
               Sent(i, Append(wire[c], f)[i], serve[c], helper'[c], child'[c], reply[c])
      BY <1>1, <1>7, <3>1, <3>3, AppendSent
    <3> HIDE DEF Output
    <3> QED
      BY <1>1, <2>3, <3>4, <3>2 DEF Connected
  <2> QED
    BY <2>2, <2>3
<1>9. TypeOK'
  BY <1>4, <1>5, <1>8 DEF IInv, TypeOK
<1>10. Talk(call[c].pc, serve[c], helper'[c], child'[c], wire'[c], reply[c])
  BY <1>2, <1>3, <1>4, <1>5, <1>8, Talks DEF Talk, Early
<1> QED
  BY <1>2, <1>3, <1>4, <1>5, <1>8, <1>9, <1>10, HelperKeeps

\* The result that is sent tells what the child did.
LEMMA ReportTerminalKeeps ==
  ASSUME IInv, NEW c \in Calls, ReportTerminal(c) PROVE IInv'
<1> USE DEF ReportTerminal
<1>1. HelperGoes(c, "gone") /\ helper[c].pc = "wait" /\ child[c].st \in Ends
      /\ serve[c].pc \in {"off", "ready", "receive"} /\ (serve[c].pc = "ready" => wire[c] # << >>)
      /\ child[c].st # "none" /\ reply[c] = "none"
  BY Talks, Typed DEF Talk
<1>2. /\ helper' \in [Calls -> Helpers] /\ helper'[c].pc = "gone"
      /\ helper'[c].sent = helper[c].sent /\ helper'[c].truncated = helper[c].truncated
      /\ helper'[c].lost = helper[c].lost /\ \A d \in Calls \ {c} : helper'[d] = helper[d]
  BY <1>1, HelperGoesTyped
<1>3. helper[c] \in Helpers /\ child[c] \in Children /\ wire[c] \in Seq(Frames)
      /\ wire \in [Calls -> Seq(Frames)]
  BY DEF IInv, TypeOK
<1> DEFINE f == [kind |-> "terminal", res |-> Truth(c)]
<1>4. /\ Truth(c) \in Truths /\ Truth(c).end = child[c].st /\ Truth(c).out = helper[c].sent
      /\ Truth(c).complete = ~helper[c].truncated
  BY <1>1, <1>3 DEF Truth, Truths, Helpers
<1>5. f \in Frames /\ f.kind = "terminal" /\ f.res = Truth(c)
  BY <1>4 DEF Frames
<1>6. ~helper[c].lost => Tells(f.res, child[c])
  <2>1. ~helper[c].truncated /\ ~helper[c].lost => helper[c].sent = child[c].made
    BY Talks DEF Talk
  <2> QED
    BY <2>1, <1>1, <1>3, <1>4, <1>5 DEF Tells, Helpers
<1> HIDE DEF f
<1>7. \A i \in DOMAIN wire[c] : Sent(i, wire[c][i], serve[c], helper'[c], child[c], reply[c])
  BY <1>1, <1>2, Talks DEF Talk, Sent
<1>8. /\ wire' \in [Calls -> Seq(Frames)] /\ \A d \in Calls \ {c} : wire'[d] = wire[d]
      /\ serve[c].pc = "off" => wire'[c] = << >>
      /\ \A i \in DOMAIN wire'[c] : Sent(i, wire'[c][i], serve[c], helper'[c], child[c], reply[c])
  <2>1. serve[c].pc = "off" => wire[c] = << >>
    BY Talks DEF Talk
  <2>2. CASE wire' = wire
    BY <1>3, <1>7, <2>1, <2>2
  <2>3. CASE Connected(c) /\ ~helper[c].lost
    <3>1. Sent(Len(wire[c]) + 1, f, serve[c], helper'[c], child[c], reply[c])
      BY <1>2, <1>5, <1>6, <2>3 DEF Sent
    <3>2. /\ Append(wire[c], f) \in Seq(Frames)
          /\ \A i \in DOMAIN Append(wire[c], f) :
               Sent(i, Append(wire[c], f)[i], serve[c], helper'[c], child[c], reply[c])
      BY <1>3, <1>5, <1>7, <3>1, AppendSent
    <3>3. wire' = [wire EXCEPT ![c] = Append(wire[c], f)]
      BY <2>3 DEF f
    <3> HIDE DEF ReportTerminal
    <3> QED
      BY <1>3, <2>3, <3>2, <3>3 DEF Connected
  <2> QED
    BY <2>2, <2>3
<1>9. TypeOK'
  BY <1>2, <1>8 DEF IInv, TypeOK
<1>10. Talk(call[c].pc, serve[c], helper'[c], child[c], wire'[c], reply[c])
  BY <1>1, <1>2, <1>8, Talks DEF Talk, Early
<1> QED
  BY <1>1, <1>2, <1>8, <1>9, <1>10, HelperKeeps

\* The stages of serveOne, one by one.
LEMMA StageIs ==
  /\ DOMAIN Stage = {"listen", "authed", "child", "authorize", "ready", "receive", "output",
                     "terminal", "canonical"}
  /\ Stage["listen"] = "helper_requested" /\ Stage["authed"] = "helper_authenticated"
  /\ Stage["child"] = "helper_authenticated" /\ Stage["authorize"] = "child_reserved"
  /\ Stage["ready"] = "child_reserved" /\ Stage["receive"] = "child_spawned"
  /\ Stage["output"] = "child_spawned" /\ Stage["terminal"] = "child_spawned"
  /\ Stage["canonical"] = "child_terminal"
BY DEF Stage

\* A write costs at most one of the faults.
LEMMA WriteCounts ==
  ASSUME IInv, NEW r, Write(r)
  PROVE  faults' \in 0 .. MaxFaults /\ r \in {"ok", "none", "ambiguous"}
BY ContextAssumption DEF IInv, TypeOK, Write, Spend

\* What AdvanceContextExec leaves of the record.
LEMMA AdvanceDoes ==
  ASSUME IInv, NEW x \in Execs, NEW next \in Records \cup {None}, NEW r, Advance(x, next, r)
  PROVE  /\ faults' \in 0 .. MaxFaults /\ rec' \in [Execs -> Records \cup {None}]
         /\ rec'[x] = rec[x] \/ (next # None /\ rec'[x] = next)
         /\ Advanced(next, r) => next # None /\ rec'[x] = next
         /\ \A y \in Execs \ {x} : rec'[y] = rec[y]
<1>1. faults' \in 0 .. MaxFaults
  BY WriteCounts DEF Advance
<1>2. rec \in [Execs -> Records \cup {None}]
  BY DEF IInv, TypeOK
<1> QED
  BY <1>1, <1>2 DEF Advance, Advanced, Written

\* What a step of serveOne does to its state and its connection.
LEMMA ServingGoes ==
  ASSUME IInv, NEW c \in Calls, NEW pc \in {"off", "listen", "authed", "child", "authorize",
           "ready", "receive", "output", "terminal", "canonical", "publish", "release"},
         Serving(c, pc)
  PROVE  /\ serve' \in [Calls -> Serves] /\ wire' \in [Calls -> Seq(Frames)]
         /\ serve'[c].pc = pc /\ serve'[c].res = serve[c].res
         /\ wire'[c] = IF pc = "off" THEN << >> ELSE wire[c]
         /\ \A d \in Calls \ {c} : serve'[d] = serve[d] /\ wire'[d] = wire[d]
<1>1. /\ serve[c] \in Serves /\ serve \in [Calls -> Serves] /\ wire \in [Calls -> Seq(Frames)]
  BY DEF IInv, TypeOK
<1>2. serve' = [serve EXCEPT ![c] = [serve[c] EXCEPT !.pc = pc]]
  BY DEF Serving
<1>3. [serve[c] EXCEPT !.pc = pc] \in Serves
  BY <1>1 DEF Serves
<1>4. serve'[c] = [serve[c] EXCEPT !.pc = pc]
  BY <1>1, <1>2
<1>5. << >> \in Seq(Frames)
  OBVIOUS
<1>6. /\ wire' \in [Calls -> Seq(Frames)] /\ \A d \in Calls \ {c} : wire'[d] = wire[d]
      /\ wire'[c] = IF pc = "off" THEN << >> ELSE wire[c]
  BY <1>1, <1>5 DEF Serving
<1>7. serve'[c].pc = pc /\ serve'[c].res = serve[c].res
  BY <1>1, <1>4 DEF Serves
<1> QED
  BY <1>1, <1>2, <1>3, <1>6, <1>7

\* The same when a frame is read.
LEMMA AfterGoes ==
  ASSUME IInv, NEW c \in Calls, NEW pc \in {"off", "listen", "authed", "child", "authorize",
           "ready", "receive", "output", "terminal", "canonical", "publish", "release"},
         wire[c] # << >>, After(c, pc)
  PROVE  /\ serve' \in [Calls -> Serves] /\ wire' \in [Calls -> Seq(Frames)]
         /\ serve'[c].pc = pc /\ serve'[c].res = serve[c].res
         /\ wire'[c] = IF pc = "off" THEN << >> ELSE Tail(wire[c])
         /\ \A d \in Calls \ {c} : serve'[d] = serve[d] /\ wire'[d] = wire[d]
<1>1. /\ serve[c] \in Serves /\ serve \in [Calls -> Serves] /\ wire \in [Calls -> Seq(Frames)]
      /\ wire[c] \in Seq(Frames)
  BY DEF IInv, TypeOK
<1>2. serve' = [serve EXCEPT ![c] = [serve[c] EXCEPT !.pc = pc]]
  BY DEF After
<1>3. [serve[c] EXCEPT !.pc = pc] \in Serves
  BY <1>1 DEF Serves
<1>4. serve'[c] = [serve[c] EXCEPT !.pc = pc]
  BY <1>1, <1>2
<1>5. << >> \in Seq(Frames) /\ Tail(wire[c]) \in Seq(Frames)
  BY <1>1
<1>6. /\ wire' \in [Calls -> Seq(Frames)] /\ \A d \in Calls \ {c} : wire'[d] = wire[d]
      /\ wire'[c] = IF pc = "off" THEN << >> ELSE Tail(wire[c])
  BY <1>1, <1>5 DEF After
<1>7. serve'[c].pc = pc /\ serve'[c].res = serve[c].res
  BY <1>1, <1>4 DEF Serves
<1> QED
  BY <1>1, <1>2, <1>3, <1>6, <1>7

\* The first frame is read: the others stay as they are, one place further.
LEMMA TailIs ==
  ASSUME NEW w \in Seq(Frames), w # << >>
  PROVE  /\ Head(w) = w[1] /\ 1 \in DOMAIN w /\ Head(w) \in Frames
         /\ \A i \in DOMAIN Tail(w) : i \in Nat /\ i + 1 > 1 /\ i + 1 \in DOMAIN w
                                      /\ Tail(w)[i] = w[i + 1]
         /\ Len(w) <= 1 => Tail(w) = << >>
OBVIOUS

\* A step of serveOne.
LEMMA ServeKeeps ==
  ASSUME IInv, TypeOK', NEW c \in Calls, serve[c].pc # "off",
         UNCHANGED <<lease, bind, call, child, daemon>>,
         \A d \in Calls \ {c} : /\ serve'[d] = serve[d] /\ helper'[d] = helper[d]
                                /\ wire'[d] = wire[d] /\ reply'[d] = reply[d],
         \A x \in Execs \ {X(c)} : rec'[x] = rec[x] /\ ses'[x] = ses[x],
         rec'[X(c)] \in Records, rec'[X(c)].helper = c, rec'[X(c)].epoch = rec[X(c)].epoch,
         rec[X(c)].life = "canonicalized" => rec'[X(c)].life = "canonicalized",
         Talk(call[c].pc, serve'[c], helper'[c], child[c], wire'[c], reply'[c]),
         Told(call[c].pc, serve'[c], child[c], reply'[c], rec'[X(c)], ses'[X(c)]),
         Shown(rec'[X(c)], ses'[X(c)])
  PROVE  IInv'
<1>1. /\ X(c) \in Execs /\ rec[X(c)] # None /\ rec[X(c)].helper = c
  BY Launched
<1>2. boot = "up"
  BY DEF IInv, Booting
<1>3. Owner(c)
  BY DEF Owner
<1>4. call[c].pc \in {"arm", "shell", "fail", "done"}
  BY DEF Told
<1>5. rec'[X(c)] # None
  BY NoneIsNothing
<1> QED
  BY <1>1, <1>2, <1>3, <1>4, <1>5, LaunchStep

\* A conversation that ends keeps nothing to read.
LEMMA TalkEnds ==
  ASSUME IInv, NEW c \in Calls, serve[c].pc # "off", serve'[c].pc = "off", wire'[c] = << >>
  PROVE  /\ Talk(call[c].pc, serve'[c], helper[c], child[c], wire'[c], reply[c])
         /\ call[c].pc \notin Early
BY Talks DEF Talk, Sent

\* Hanging up changes nothing else.
LEMMA HangupKeeps ==
  ASSUME IInv, NEW c \in Calls, Hangup(c) PROVE IInv'
<1> USE DEF Hangup
<1>1. /\ serve' \in [Calls -> Serves] /\ wire' \in [Calls -> Seq(Frames)]
      /\ serve'[c].pc = "off" /\ wire'[c] = << >>
      /\ \A d \in Calls \ {c} : serve'[d] = serve[d] /\ wire'[d] = wire[d]
  BY ServingGoes
<1>2. TypeOK'
  BY <1>1 DEF IInv, TypeOK
<1>3. /\ X(c) \in Execs /\ rec[X(c)] \in Records /\ rec[X(c)].helper = c
      /\ Told(call[c].pc, serve[c], child[c], reply[c], rec[X(c)], ses[X(c)])
      /\ Shown(rec[X(c)], ses[X(c)])
  BY Launched
<1>4. /\ Talk(call[c].pc, serve'[c], helper[c], child[c], wire'[c], reply[c])
      /\ call[c].pc \notin Early
  BY <1>1, TalkEnds
<1>5. Told(call[c].pc, serve'[c], child[c], reply[c], rec[X(c)], ses[X(c)])
  BY <1>1, <1>3, <1>4, StageIs DEF Told
<1> QED
  BY <1>1, <1>2, <1>3, <1>4, <1>5, ServeKeeps

\* What the launch of a conversation holds when its record changes life, or not,
\* and the conversation ends.
LEMMA ToldEnds ==
  ASSUME IInv, NEW c \in Calls, serve[c].pc # "off", serve'[c].pc = "off",
         NEW life \in Lives \ {"reserved", "child_terminal", "canonicalized"},
         \/ rec'[X(c)] = rec[X(c)]
         \/ /\ rec'[X(c)] = [rec[X(c)] EXCEPT !.life = life]
            /\ rec[X(c)].life # "canonicalized"
  PROVE  /\ Told(call[c].pc, serve'[c], child[c], reply[c], rec'[X(c)], ses[X(c)])
         /\ Shown(rec'[X(c)], ses[X(c)]) /\ rec'[X(c)] \in Records /\ rec'[X(c)].helper = c
         /\ rec'[X(c)].epoch = rec[X(c)].epoch
         /\ rec[X(c)].life = "canonicalized" => rec'[X(c)].life = "canonicalized"
<1> DEFINE r == rec[X(c)]
           q == rec'[X(c)]
           n == serve'[c]
<1>1. /\ r \in Records /\ r.helper = c /\ Shown(r, ses[X(c)])
      /\ Told(call[c].pc, serve[c], child[c], reply[c], r, ses[X(c)])
  BY Launched
<1>2. call[c].pc # "arm" /\ n.pc = "off"
  BY Talks DEF Talk, Early
<1>3. q = r \/ (q = [r EXCEPT !.life = life] /\ r.life # "canonicalized")
  OBVIOUS
<1> HIDE DEF r, q, n
<1>4. CASE q = r
  <2>1. Told(call[c].pc, n, child[c], reply[c], r, ses[X(c)])
    BY <1>1, <1>2, StageIs DEF Told
  <2> QED
    BY <2>1, <1>1, <1>4 DEF r, q, n
<1>5. CASE q = [r EXCEPT !.life = life] /\ r.life # "canonicalized"
  <2>1. /\ q.life = life /\ q.helper = r.helper /\ q.epoch = r.epoch /\ q.auth = r.auth
        /\ q.res = r.res /\ q \in Records
    BY <1>1, <1>5 DEF Records
  <2>2. Told(call[c].pc, n, child[c], reply[c], q, ses[X(c)])
    BY <1>1, <1>2, <1>5, <2>1, StageIs DEF Told
  <2>3. Shown(q, ses[X(c)])
    BY <1>1, <1>5, <2>1 DEF Shown
  <2> QED
    BY <1>1, <1>5, <2>1, <2>2, <2>3 DEF r, q, n
<1> QED
  BY <1>3, <1>4, <1>5

\* The claim advances the record and lets the helper in.
LEMMA ClaimKeeps ==
  ASSUME IInv, NEW c \in Calls, NEW r, Claim(c, r) PROVE IInv'
<1> DEFINE x    == X(c)
           next == Apply(rec[x], "helper_authenticated", FALSE, None, None)
           ok   == rec[x].helper = c /\ bind.epoch = call[c].epoch /\ bind.owner = "agent"
           to   == IF ok THEN next ELSE None
<1>1. /\ serve[c].pc = "listen" /\ helper[c].pc = "typed" /\ Advance(x, to, r)
      /\ Serving(c, IF Advanced(to, r) THEN "authed" ELSE "off")
      /\ HelperGoes(c, IF Advanced(to, r) THEN "authed" ELSE "gone")
      /\ UNCHANGED <<lease, ses, bind, call, child, reply, daemon, crashes>>
  BY DEF Claim
<1>2. /\ x \in Execs /\ rec[x] \in Records /\ rec[x].helper = c
      /\ Told(call[c].pc, serve[c], child[c], reply[c], rec[x], ses[x])
      /\ Shown(rec[x], ses[x])
      /\ Talk(call[c].pc, serve[c], helper[c], child[c], wire[c], reply[c])
  BY <1>1, Launched
<1>3. "helper_authenticated" \in Lives
  BY DEF Lives
<1>4. rec[x].life \in {"helper_requested", "ambiguous"}
  BY <1>1, <1>2, StageIs DEF Told
<1>5. next # None => /\ next \in Records /\ next = [rec[x] EXCEPT !.life = "helper_authenticated"]
  BY <1>2, <1>3, ApplyLife
<1>6. to \in Records \cup {None} /\ (to # None => to = next)
  BY <1>5
<1> HIDE DEF to, next, ok
<1>7. /\ faults' \in 0 .. MaxFaults /\ rec' \in [Execs -> Records \cup {None}]
      /\ rec'[x] = rec[x] \/ (to # None /\ rec'[x] = to)
      /\ Advanced(to, r) => to # None /\ rec'[x] = to
      /\ \A y \in Execs \ {x} : rec'[y] = rec[y]
  BY <1>1, <1>2, <1>6, AdvanceDoes
<1>8. /\ rec'[x] \in Records
      /\ rec'[x] = rec[x] \/ rec'[x] = [rec[x] EXCEPT !.life = "helper_authenticated"]
  BY <1>2, <1>5, <1>6, <1>7
<1>9. CASE Advanced(to, r)
  <2>1. Serving(c, "authed") /\ HelperGoes(c, "authed")
    BY <1>1, <1>9
  <2>2. /\ serve' \in [Calls -> Serves] /\ wire' \in [Calls -> Seq(Frames)]
        /\ serve'[c].pc = "authed" /\ wire'[c] = wire[c]
        /\ \A d \in Calls \ {c} : serve'[d] = serve[d] /\ wire'[d] = wire[d]
    BY <2>1, ServingGoes
  <2>3. /\ helper' \in [Calls -> Helpers] /\ helper'[c].pc = "authed"
        /\ helper'[c].sent = helper[c].sent /\ helper'[c].truncated = helper[c].truncated
        /\ helper'[c].lost = helper[c].lost /\ \A d \in Calls \ {c} : helper'[d] = helper[d]
    BY <2>1, HelperGoesTyped
  <2>4. TypeOK'
    BY <1>1, <1>7, <2>2, <2>3 DEF IInv, TypeOK
  <2>5. Talk(call[c].pc, serve'[c], helper'[c], child[c], wire'[c], reply[c])
    BY <1>1, <1>2, <2>2, <2>3 DEF Talk, Sent
  <2>6. /\ rec'[x].life = "helper_authenticated" /\ rec'[x].helper = c
        /\ rec'[x].epoch = rec[x].epoch /\ rec'[x].auth = rec[x].auth
        /\ rec'[x].res = rec[x].res
    BY <1>2, <1>5, <1>6, <1>7, <1>9 DEF Records
  <2>7. call[c].pc # "arm" /\ wire[c] = << >> /\ child[c].st = "none"
    BY <1>1, <1>2 DEF Talk, Early
  <2>8. Told(call[c].pc, serve'[c], child[c], reply[c], rec'[x], ses[x])
    BY <1>1, <1>2, <1>4, <2>2, <2>6, <2>7, StageIs DEF Told
  <2>9. Shown(rec'[x], ses[x])
    BY <1>2, <1>4 DEF Shown
  <2> QED
    BY <1>1, <1>4, <1>7, <1>8, <2>2, <2>3, <2>4, <2>5, <2>6, <2>8, <2>9, ServeKeeps
<1>10. CASE ~Advanced(to, r)
  <2>1. Serving(c, "off") /\ HelperGoes(c, "gone")
    BY <1>1, <1>10
  <2>2. /\ serve' \in [Calls -> Serves] /\ wire' \in [Calls -> Seq(Frames)]
        /\ serve'[c].pc = "off" /\ wire'[c] = << >>
        /\ \A d \in Calls \ {c} : serve'[d] = serve[d] /\ wire'[d] = wire[d]
    BY <2>1, ServingGoes
  <2>3. /\ helper' \in [Calls -> Helpers] /\ helper'[c].pc = "gone"
        /\ helper'[c].sent = helper[c].sent /\ helper'[c].truncated = helper[c].truncated
        /\ helper'[c].lost = helper[c].lost /\ \A d \in Calls \ {c} : helper'[d] = helper[d]
    BY <2>1, HelperGoesTyped
  <2>4. TypeOK'
    BY <1>1, <1>7, <2>2, <2>3 DEF IInv, TypeOK
  <2>5. Talk(call[c].pc, serve'[c], helper'[c], child[c], wire'[c], reply[c])
        /\ call[c].pc \notin Early
    BY <1>1, <1>2, <2>2, <2>3 DEF Talk, Sent
  <2>6. /\ Told(call[c].pc, serve'[c], child[c], reply[c], rec'[x], ses[x])
        /\ Shown(rec'[x], ses[x]) /\ rec'[x].helper = c /\ rec'[x].epoch = rec[x].epoch
        /\ rec[x].life = "canonicalized" => rec'[x].life = "canonicalized"
    <3>1. rec'[x] = rec[x] \/ (rec'[x] = [rec[x] EXCEPT !.life = "helper_authenticated"]
                                /\ rec[x].life # "canonicalized")
      BY <1>4, <1>8
    <3>2. "helper_authenticated" \in Lives \ {"reserved", "child_terminal", "canonicalized"}
      BY DEF Lives
    <3> QED
      BY <1>1, <2>2, <3>1, <3>2, ToldEnds
  <2> QED
    BY <1>1, <1>7, <1>8, <2>2, <2>3, <2>4, <2>5, <2>6, ServeKeeps
<1> QED
  BY <1>9, <1>10

\* The child has its session before its authority.
LEMMA ReserveChildKeeps ==
  ASSUME IInv, NEW c \in Calls, NEW r, ReserveChild(c, r) PROVE IInv'
<1> DEFINE x  == X(c)
           to == IF r = "ok" /\ ses'[x].mine THEN "child" ELSE "off"
<1>1. /\ serve[c].pc = "authed" /\ wire[c] # << >> /\ Write(r) /\ After(c, to)
      /\ ses' = IF ses[x] = None /\ Written(r)
                THEN [ses EXCEPT ![x] = [mine |-> TRUE, log |-> 0,
                        receipt |-> IF r = "ok" THEN None ELSE "abandoned"]]
                ELSE ses
      /\ UNCHANGED <<rec, lease, bind, call, procs, reply, daemon, crashes>>
  BY DEF ReserveChild, Read
<1>2. /\ x \in Execs /\ rec[x] \in Records /\ rec[x].helper = c
      /\ Told(call[c].pc, serve[c], child[c], reply[c], rec[x], ses[x])
      /\ Shown(rec[x], ses[x])
      /\ Talk(call[c].pc, serve[c], helper[c], child[c], wire[c], reply[c])
  BY <1>1, Launched
<1>3. /\ serve' \in [Calls -> Serves] /\ wire' \in [Calls -> Seq(Frames)]
      /\ serve'[c].pc = to /\ wire'[c] = IF to = "off" THEN << >> ELSE Tail(wire[c])
      /\ \A d \in Calls \ {c} : serve'[d] = serve[d] /\ wire'[d] = wire[d]
  BY <1>1, AfterGoes
<1> HIDE DEF to
<1>4. wire[c] \in Seq(Frames) /\ Len(wire[c]) <= 1
  BY <1>1, <1>2, Typed DEF Talk
<1>5. wire'[c] = << >>
  BY <1>1, <1>3, <1>4, TailIs
<1>6. /\ ses' \in [Execs -> Sessions \cup {None}] /\ \A y \in Execs \ {x} : ses'[y] = ses[y]
      /\ \/ ses'[x] = ses[x]
         \/ ses[x] = None /\ ses'[x] # None /\ ses'[x].receipt \notin Receipts \ {"abandoned"}
      /\ r = "ok" => ses'[x] # None
  <2> DEFINE n == [mine |-> TRUE, log |-> 0, receipt |-> IF r = "ok" THEN None ELSE "abandoned"]
  <2>1. n \in Sessions /\ n.receipt \in {None, "abandoned"}
    BY DEF Sessions, Receipts
  <2>2. ses \in [Execs -> Sessions \cup {None}]
    BY DEF IInv, TypeOK
  <2>3. None \notin Receipts \ {"abandoned"}
    BY NoneIsNothing
  <2>4. ses' = IF ses[x] = None /\ Written(r) THEN [ses EXCEPT ![x] = n] ELSE ses
    BY <1>1
  <2>5. r = "ok" => Written(r)
    BY DEF Written
  <2> HIDE DEF n
  <2> QED
    BY <1>2, <2>1, <2>2, <2>3, <2>4, <2>5, NoneIsNothing
<1>7. TypeOK'
  BY <1>1, <1>3, <1>6, WriteCounts DEF IInv, TypeOK
<1>8. Shown(rec[x], ses'[x])
  BY <1>2, <1>6 DEF Shown
<1>9. to \in {"child", "off"} /\ (to = "child" => ses'[x] # None)
  BY <1>6 DEF to
<1>10. child[c].st = "none" /\ reply[c] = "none" /\ call[c].pc \notin Early
       /\ helper[c].pc \in {"authed", "prepared", "gone"} /\ helper[c].pc # "authed"
  <2>1. helper[c] \in Helpers
    BY Typed
  <2> QED
    BY <1>1, <1>2, <2>1 DEF Talk, Helpers
<1>11. Talk(call[c].pc, serve'[c], helper[c], child[c], wire'[c], reply[c])
  BY <1>2, <1>3, <1>5, <1>9, <1>10 DEF Talk, Sent
<1>12. Told(call[c].pc, serve'[c], child[c], reply[c], rec[x], ses'[x])
  BY <1>1, <1>2, <1>3, <1>6, <1>9, <1>10, StageIs DEF Told, Early
<1> QED
  BY <1>1, <1>2, <1>3, <1>6, <1>7, <1>8, <1>11, <1>12, ServeKeeps

\* A step of serveOne that writes the record and goes on, or ends.
LEMMA RecordStep ==
  ASSUME IInv, NEW c \in Calls, serve[c].pc # "off", NEW r, NEW next \in Records \cup {None},
         Advance(X(c), next, r), UNCHANGED <<lease, ses, bind, call, procs, daemon, crashes>>,
         serve' \in [Calls -> Serves], wire' \in [Calls -> Seq(Frames)],
         reply' \in [Calls -> {"none", "execute"}],
         \A d \in Calls \ {c} : /\ serve'[d] = serve[d] /\ wire'[d] = wire[d]
                                /\ reply'[d] = reply[d],
         ~Advanced(next, r) => serve'[c].pc = "off" /\ wire'[c] = << >> /\ reply'[c] = reply[c],
         next # None =>
           /\ next.helper = c /\ next.epoch = rec[X(c)].epoch
           /\ rec[X(c)].life # "canonicalized" /\ Shown(next, ses[X(c)])
           /\ serve'[c].pc = "off" =>
                Told(call[c].pc, serve'[c], child[c], reply[c], next, ses[X(c)]),
         Advanced(next, r) =>
           /\ Talk(call[c].pc, serve'[c], helper[c], child[c], wire'[c], reply'[c])
           /\ Told(call[c].pc, serve'[c], child[c], reply'[c], next, ses[X(c)])
  PROVE  IInv'
<1>1. /\ X(c) \in Execs /\ rec[X(c)] \in Records /\ rec[X(c)].helper = c
      /\ Told(call[c].pc, serve[c], child[c], reply[c], rec[X(c)], ses[X(c)])
      /\ Shown(rec[X(c)], ses[X(c)])
  BY Launched
<1>2. /\ faults' \in 0 .. MaxFaults /\ rec' \in [Execs -> Records \cup {None}]
      /\ rec'[X(c)] = rec[X(c)] \/ (next # None /\ rec'[X(c)] = next)
      /\ Advanced(next, r) => next # None /\ rec'[X(c)] = next
      /\ \A y \in Execs \ {X(c)} : rec'[y] = rec[y]
  BY <1>1, AdvanceDoes
<1>3. TypeOK'
  BY <1>2 DEF IInv, TypeOK
<1>4. rec'[X(c)] \in Records
  BY <1>1, <1>2
<1>5. CASE Advanced(next, r)
  BY <1>1, <1>2, <1>3, <1>4, <1>5, ServeKeeps
<1>6. CASE ~Advanced(next, r)
  <2>1. /\ Talk(call[c].pc, serve'[c], helper[c], child[c], wire'[c], reply[c])
        /\ call[c].pc \notin Early
    BY <1>6, TalkEnds
  <2>2. serve'[c].pc = "off" /\ reply'[c] = reply[c]
    BY <1>6
  <2>3. CASE rec'[X(c)] = rec[X(c)]
    <3>1. Told(call[c].pc, serve'[c], child[c], reply[c], rec[X(c)], ses[X(c)])
      BY <1>1, <2>1, <2>2, StageIs DEF Told, Early
    <3> QED
      BY <1>1, <1>2, <1>3, <1>4, <2>1, <2>2, <2>3, <3>1, ServeKeeps
  <2>4. CASE next # None /\ rec'[X(c)] = next
    BY <1>1, <1>2, <1>3, <1>4, <2>1, <2>2, <2>4, ServeKeeps
  <2> QED
    BY <1>2, <2>3, <2>4
<1> QED
  BY <1>5, <1>6

\* child_reserved, without the authority yet.
LEMMA ChildReservedKeeps ==
  ASSUME IInv, NEW c \in Calls, NEW r, ChildReserved(c, r) PROVE IInv'
<1> DEFINE x    == X(c)
           next == Apply(rec[x], "child_reserved", FALSE, None, None)
           to   == IF Advanced(next, r) THEN "authorize" ELSE "off"
<1>1. /\ serve[c].pc = "child" /\ Advance(x, next, r) /\ Serving(c, to)
      /\ UNCHANGED <<lease, ses, bind, call, procs, reply, daemon, crashes>>
  BY DEF ChildReserved
<1>2. /\ x \in Execs /\ rec[x] \in Records /\ rec[x].helper = c
      /\ Told(call[c].pc, serve[c], child[c], reply[c], rec[x], ses[x])
      /\ Shown(rec[x], ses[x])
      /\ Talk(call[c].pc, serve[c], helper[c], child[c], wire[c], reply[c])
  BY <1>1, Launched
<1>3. rec[x].life \in {"helper_authenticated", "ambiguous"} /\ "child_reserved" \in Lives
  BY <1>1, <1>2, StageIs DEF Told, Lives
<1>4. next # None => next \in Records /\ next = [rec[x] EXCEPT !.life = "child_reserved"]
  BY <1>2, <1>3, ApplyLife
<1>5. /\ serve' \in [Calls -> Serves] /\ wire' \in [Calls -> Seq(Frames)]
      /\ serve'[c].pc = to /\ wire'[c] = IF to = "off" THEN << >> ELSE wire[c]
      /\ \A d \in Calls \ {c} : serve'[d] = serve[d] /\ wire'[d] = wire[d]
  BY <1>1, ServingGoes
<1>6. /\ to \in {"authorize", "off"} /\ (to = "off" <=> ~Advanced(next, r))
  OBVIOUS
<1> HIDE DEF next, to
<1>7. next # None => /\ next.life = "child_reserved" /\ next.helper = c
                     /\ next.epoch = rec[x].epoch /\ next.auth = rec[x].auth
                     /\ next.res = rec[x].res
  BY <1>2, <1>4 DEF Records
<1>8. call[c].pc # "arm" /\ wire[c] = << >>
  BY <1>1, <1>2 DEF Talk, Early
<1>9. next # None => Told(call[c].pc, serve'[c], child[c], reply[c], next, ses[x])
  BY <1>1, <1>2, <1>3, <1>5, <1>6, <1>7, <1>8, StageIs DEF Told
<1>10. next # None => Shown(next, ses[x])
  BY <1>2, <1>3 DEF Shown
<1>11. wire'[c] = << >>
  BY <1>5, <1>8
<1>12. Talk(call[c].pc, serve'[c], helper[c], child[c], wire'[c], reply[c])
  BY <1>1, <1>2, <1>5, <1>6, <1>11 DEF Talk, Sent
<1>13. reply' \in [Calls -> {"none", "execute"}]
  BY <1>1 DEF IInv, TypeOK
<1>14. next \in Records \cup {None} /\ (Advanced(next, r) => next # None)
  BY <1>4 DEF Advanced
<1> QED
  BY <1>1, <1>3, <1>5, <1>6, <1>7, <1>9, <1>10, <1>11, <1>12, <1>13, <1>14, RecordStep

\* The authority is on disk before the execute frame is on the wire.
LEMMA AuthorizeKeeps ==
  ASSUME IInv, NEW c \in Calls, NEW r, Authorize(c, r) PROVE IInv'
<1> DEFINE x    == X(c)
           next == Apply(rec[x], "child_reserved", TRUE, None, None)
           to   == IF Advanced(next, r) THEN "ready" ELSE "off"
<1>1. /\ serve[c].pc = "authorize" /\ Advance(x, next, r) /\ Serving(c, to)
      /\ reply' = IF Advanced(next, r) THEN [reply EXCEPT ![c] = "execute"] ELSE reply
      /\ UNCHANGED <<lease, ses, bind, call, procs, daemon, crashes>>
  BY DEF Authorize
<1>2. /\ x \in Execs /\ rec[x] \in Records /\ rec[x].helper = c
      /\ Told(call[c].pc, serve[c], child[c], reply[c], rec[x], ses[x])
      /\ Shown(rec[x], ses[x])
      /\ Talk(call[c].pc, serve[c], helper[c], child[c], wire[c], reply[c])
  BY <1>1, Launched
<1>3. rec[x].life \in {"child_reserved", "ambiguous"}
  BY <1>1, <1>2, StageIs DEF Told
<1>4. next # None => /\ next \in Records /\ next = [rec[x] EXCEPT !.auth = TRUE]
                     /\ rec[x].life = "child_reserved"
  BY <1>2, ApplyAuth
<1>5. /\ serve' \in [Calls -> Serves] /\ wire' \in [Calls -> Seq(Frames)]
      /\ serve'[c].pc = to /\ wire'[c] = IF to = "off" THEN << >> ELSE wire[c]
      /\ \A d \in Calls \ {c} : serve'[d] = serve[d] /\ wire'[d] = wire[d]
  BY <1>1, ServingGoes
<1>6. /\ to \in {"ready", "off"} /\ (to = "off" <=> ~Advanced(next, r))
  OBVIOUS
<1> HIDE DEF next, to
<1>7. next # None => /\ next.life = "child_reserved" /\ next.helper = c
                     /\ next.epoch = rec[x].epoch /\ next.auth = TRUE
                     /\ next.res = rec[x].res
  BY <1>2, <1>4 DEF Records
<1>8. /\ call[c].pc \notin Early /\ wire[c] = << >> /\ child[c].st = "none" /\ reply[c] = "none"
      /\ helper[c].pc \in {"prepared", "gone"} /\ ses[x] # None
  <2>1. helper[c] \in Helpers
    BY Typed
  <2> QED
    BY <1>1, <1>2, <2>1 DEF Talk, Told, Helpers
<1>9. /\ reply' \in [Calls -> {"none", "execute"}]
      /\ \A d \in Calls \ {c} : reply'[d] = reply[d]
      /\ reply'[c] = IF to = "ready" THEN "execute" ELSE "none"
  BY <1>1, <1>6, <1>8 DEF IInv, TypeOK
<1>10. next # None => Told(call[c].pc, serve'[c], child[c], reply'[c], next, ses[x])
  BY <1>1, <1>2, <1>3, <1>5, <1>6, <1>7, <1>8, <1>9, StageIs, NoneIsNothing
  DEF Told, Early
<1>11. next # None => Shown(next, ses[x])
  BY <1>2, <1>4 DEF Shown
<1>12. wire'[c] = << >>
  BY <1>5, <1>8
<1>13. Talk(call[c].pc, serve'[c], helper[c], child[c], wire'[c], reply'[c])
  BY <1>1, <1>2, <1>5, <1>6, <1>8, <1>9, <1>12 DEF Talk, Sent
<1>14. next \in Records \cup {None} /\ (Advanced(next, r) => next # None)
  BY <1>4 DEF Advanced
<1>15. to = "off" => reply'[c] = reply[c]
  BY <1>8, <1>9
<1> QED
  BY <1>1, <1>3, <1>5, <1>6, <1>7, <1>9, <1>10, <1>11, <1>12, <1>13, <1>14, <1>15, RecordStep

\* The frame that is read tells of the child; what follows it is output or the end.
LEMMA ReadTells ==
  ASSUME IInv, NEW c \in Calls, wire[c] # << >>
  PROVE  /\ wire[c] \in Seq(Frames) /\ Head(wire[c]) \in Frames
         /\ Sent(1, Head(wire[c]), serve[c], helper[c], child[c], reply[c])
         /\ \A i \in DOMAIN Tail(wire[c]) :
              /\ Tail(wire[c])[i].kind \in {"output", "terminal"}
              /\ Tail(wire[c])[i].kind = "terminal" =>
                   Tells(Tail(wire[c])[i].res, child[c]) /\ helper[c].pc = "gone"
<1>1. wire[c] \in Seq(Frames)
  BY Typed
<1>2. /\ Head(wire[c]) = wire[c][1] /\ 1 \in DOMAIN wire[c] /\ Head(wire[c]) \in Frames
      /\ \A i \in DOMAIN Tail(wire[c]) : i \in Nat /\ i + 1 > 1 /\ i + 1 \in DOMAIN wire[c]
                                         /\ Tail(wire[c])[i] = wire[c][i + 1]
  BY <1>1, TailIs
<1>3. \A i \in DOMAIN wire[c] : Sent(i, wire[c][i], serve[c], helper[c], child[c], reply[c])
  BY Talks DEF Talk
<1> QED
  BY <1>1, <1>2, <1>3 DEF Sent

\* A canonicalized record without a child: the helper reported that there is
\* none.
LEMMA NoChildFailureKeeps ==
  ASSUME IInv, NEW c \in Calls, NEW r, NoChildFailure(c, r) PROVE IInv'
<1> DEFINE x    == X(c)
           next == Apply(rec[x], "canonicalized", FALSE, None, NoChild)
           to   == IF Advanced(next, r) THEN "release" ELSE "off"
<1>1. /\ serve[c].pc \in {"authed", "ready"} /\ wire[c] # << >>
      /\ Head(wire[c]).kind \in {"cannot", "nospawn"}
      /\ Advance(x, next, r) /\ After(c, to)
      /\ UNCHANGED <<lease, ses, bind, call, procs, reply, daemon, crashes>>
  BY DEF NoChildFailure, Read
<1>2. /\ x \in Execs /\ rec[x] \in Records /\ rec[x].helper = c
      /\ Told(call[c].pc, serve[c], child[c], reply[c], rec[x], ses[x])
      /\ Shown(rec[x], ses[x])
      /\ Talk(call[c].pc, serve[c], helper[c], child[c], wire[c], reply[c])
  BY <1>1, Launched
<1>3. rec[x].life \in {"helper_authenticated", "child_reserved", "ambiguous"}
  BY <1>1, <1>2, StageIs DEF Told
<1>4. next # None => /\ next \in Records
                     /\ next = [rec[x] EXCEPT !.life = "canonicalized", !.res = NoChild]
  BY <1>2, NoneIsNothing, ApplyResult
<1>5. /\ serve' \in [Calls -> Serves] /\ wire' \in [Calls -> Seq(Frames)]
      /\ serve'[c].pc = to /\ wire'[c] = IF to = "off" THEN << >> ELSE Tail(wire[c])
      /\ \A d \in Calls \ {c} : serve'[d] = serve[d] /\ wire'[d] = wire[d]
  BY <1>1, AfterGoes
<1>6. /\ to \in {"release", "off"} /\ (to = "off" <=> ~Advanced(next, r))
  OBVIOUS
<1> HIDE DEF next, to
<1>7. next # None => /\ next.life = "canonicalized" /\ next.helper = c
                     /\ next.epoch = rec[x].epoch /\ next.auth = rec[x].auth
                     /\ next.res = NoChild
  BY <1>2, <1>4 DEF Records
<1>8. /\ Sent(1, Head(wire[c]), serve[c], helper[c], child[c], reply[c])
      /\ \A i \in DOMAIN Tail(wire[c]) :
           /\ Tail(wire[c])[i].kind \in {"output", "terminal"}
           /\ Tail(wire[c])[i].kind = "terminal" =>
                Tells(Tail(wire[c])[i].res, child[c]) /\ helper[c].pc = "gone"
  BY <1>1, ReadTells
<1>9. /\ call[c].pc \notin Early /\ child[c].st = "none" /\ reply[c] = "none"
      /\ helper[c].pc \in {"prepared", "gone"}
  <2>1. helper[c] \in Helpers
    BY Typed
  <2> QED
    BY <1>1, <1>2, <1>8, <2>1 DEF Talk, Sent, Helpers
<1>10. next # None => Told(call[c].pc, serve'[c], child[c], reply[c], next, ses[x])
  BY <1>2, <1>5, <1>6, <1>7, <1>9, NoneIsNothing, StageIs DEF Told, Early
<1>11. next # None => Shown(next, ses[x])
  BY <1>2, <1>3 DEF Shown
<1>12. to = "off" => wire'[c] = << >>
  BY <1>5
<1>13. \A i \in DOMAIN wire'[c] : Sent(i, wire'[c][i], serve'[c], helper[c], child[c], reply[c])
  BY <1>5, <1>6, <1>8 DEF Sent
<1>14. Talk(call[c].pc, serve'[c], helper[c], child[c], wire'[c], reply[c])
  BY <1>2, <1>5, <1>6, <1>9, <1>12, <1>13 DEF Talk
<1>15. next \in Records \cup {None} /\ (Advanced(next, r) => next # None)
  BY <1>4 DEF Advanced
<1>16. reply' \in [Calls -> {"none", "execute"}]
  BY <1>1 DEF IInv, TypeOK
<1> QED
  BY <1>1, <1>3, <1>5, <1>6, <1>7, <1>10, <1>11, <1>12, <1>14, <1>15, <1>16, RecordStep

\* child_spawned is read from a helper that has its child.
LEMMA RecordSpawnKeeps ==
  ASSUME IInv, NEW c \in Calls, NEW r, RecordSpawn(c, r) PROVE IInv'
<1> DEFINE x    == X(c)
           next == Apply(rec[x], "child_spawned", FALSE, None, None)
           to   == IF Advanced(next, r) THEN "receive" ELSE "off"
<1>1. /\ serve[c].pc = "ready" /\ wire[c] # << >> /\ Head(wire[c]).kind = "spawned"
      /\ Advance(x, next, r) /\ After(c, to)
      /\ UNCHANGED <<lease, ses, bind, call, procs, reply, daemon, crashes>>
  BY DEF RecordSpawn, Read
<1>2. /\ x \in Execs /\ rec[x] \in Records /\ rec[x].helper = c
      /\ Told(call[c].pc, serve[c], child[c], reply[c], rec[x], ses[x])
      /\ Shown(rec[x], ses[x])
      /\ Talk(call[c].pc, serve[c], helper[c], child[c], wire[c], reply[c])
  BY <1>1, Launched
<1>3. rec[x].life \in {"child_reserved", "ambiguous"} /\ "child_spawned" \in Lives
  BY <1>1, <1>2, StageIs DEF Told, Lives
<1>4. next # None => next \in Records /\ next = [rec[x] EXCEPT !.life = "child_spawned"]
  BY <1>2, <1>3, ApplyLife
<1>5. /\ serve' \in [Calls -> Serves] /\ wire' \in [Calls -> Seq(Frames)]
      /\ serve'[c].pc = to /\ wire'[c] = IF to = "off" THEN << >> ELSE Tail(wire[c])
      /\ \A d \in Calls \ {c} : serve'[d] = serve[d] /\ wire'[d] = wire[d]
  BY <1>1, AfterGoes
<1>6. /\ to \in {"receive", "off"} /\ (to = "off" <=> ~Advanced(next, r))
  OBVIOUS
<1> HIDE DEF next, to
<1>7. next # None => /\ next.life = "child_spawned" /\ next.helper = c
                     /\ next.epoch = rec[x].epoch /\ next.auth = rec[x].auth
                     /\ next.res = rec[x].res
  BY <1>2, <1>4 DEF Records
<1>8. /\ Sent(1, Head(wire[c]), serve[c], helper[c], child[c], reply[c])
      /\ \A i \in DOMAIN Tail(wire[c]) :
           /\ Tail(wire[c])[i].kind \in {"output", "terminal"}
           /\ Tail(wire[c])[i].kind = "terminal" =>
                Tells(Tail(wire[c])[i].res, child[c]) /\ helper[c].pc = "gone"
  BY <1>1, ReadTells
<1>9. /\ call[c].pc \notin Early /\ child[c].st # "none" /\ reply[c] = "none"
      /\ helper[c].pc \in {"wait", "gone"} /\ ses[x] # None
  <2>1. helper[c] \in Helpers /\ reply[c] \in {"none", "execute"}
    BY Typed
  <2> QED
    BY <1>1, <1>2, <1>8, <2>1 DEF Talk, Sent, Helpers, Told
<1>10. next # None => Told(call[c].pc, serve'[c], child[c], reply[c], next, ses[x])
  BY <1>2, <1>3, <1>5, <1>6, <1>7, <1>9, StageIs DEF Told, Early
<1>11. next # None => Shown(next, ses[x])
  BY <1>2, <1>3 DEF Shown
<1>12. to = "off" => wire'[c] = << >>
  BY <1>5
<1>13. \A i \in DOMAIN wire'[c] : Sent(i, wire'[c][i], serve'[c], helper[c], child[c], reply[c])
  BY <1>5, <1>6, <1>8 DEF Sent
<1>14. Talk(call[c].pc, serve'[c], helper[c], child[c], wire'[c], reply[c])
  BY <1>2, <1>5, <1>6, <1>9, <1>12, <1>13 DEF Talk
<1>15. next \in Records \cup {None} /\ (Advanced(next, r) => next # None)
  BY <1>4 DEF Advanced
<1>16. reply' \in [Calls -> {"none", "execute"}]
  BY <1>1 DEF IInv, TypeOK
<1> QED
  BY <1>1, <1>3, <1>5, <1>6, <1>7, <1>10, <1>11, <1>12, <1>14, <1>15, <1>16, RecordStep

\* The result that was read is recorded, then canonicalized.
LEMMA RecordTerminalKeeps ==
  ASSUME IInv, NEW c \in Calls, NEW r, RecordTerminal(c, r) PROVE IInv'
<1> DEFINE x    == X(c)
           t    == serve[c].res
           life == IF serve[c].pc = "terminal" THEN "child_terminal" ELSE "canonicalized"
           next == Apply(rec[x], life, FALSE, None, t)
           then == IF serve[c].pc = "terminal" THEN "canonical" ELSE "publish"
           to   == IF Advanced(next, r) THEN then ELSE "off"
<1>1. /\ serve[c].pc \in {"terminal", "canonical"}
      /\ Advance(x, next, r) /\ Serving(c, to)
      /\ UNCHANGED <<lease, ses, bind, call, procs, reply, daemon, crashes>>
  BY DEF RecordTerminal
<1>2. /\ x \in Execs /\ rec[x] \in Records /\ rec[x].helper = c
      /\ Told(call[c].pc, serve[c], child[c], reply[c], rec[x], ses[x])
      /\ Shown(rec[x], ses[x])
      /\ Talk(call[c].pc, serve[c], helper[c], child[c], wire[c], reply[c])
  BY <1>1, Launched
<1>3. /\ rec[x].life \in {"child_spawned", "child_terminal", "ambiguous"}
      /\ ses[x] # None /\ ses[x].log = t.out
  BY <1>1, <1>2, StageIs DEF Told
<1>4. /\ Tells(t, child[c]) /\ helper[c].pc = "gone" /\ t \in Truths /\ t # None
      /\ call[c].pc \notin Early
  <2>1. Tells(t, child[c]) /\ helper[c].pc = "gone" /\ call[c].pc \notin Early
    BY <1>1, <1>2 DEF Talk
  <2> QED
    BY <2>1, NoneIsNothing DEF Tells
<1>5. life \in {"child_terminal", "canonicalized"}
  OBVIOUS
<1>6. next # None => next \in Records /\ next = [rec[x] EXCEPT !.life = life, !.res = t]
  BY <1>2, <1>4, <1>5, ApplyResult
<1>7. to \in {"canonical", "publish", "off"} /\ (to = "off" <=> ~Advanced(next, r))
      /\ (to = "canonical" => life = "child_terminal") /\ (to = "publish" => life = "canonicalized")
  BY <1>1
<1>8. /\ serve' \in [Calls -> Serves] /\ wire' \in [Calls -> Seq(Frames)]
      /\ serve'[c].pc = to /\ serve'[c].res = t
      /\ wire'[c] = IF to = "off" THEN << >> ELSE wire[c]
      /\ \A d \in Calls \ {c} : serve'[d] = serve[d] /\ wire'[d] = wire[d]
  BY <1>1, <1>7, ServingGoes
<1> HIDE DEF next, to, then, life, t
<1>9. next # None => /\ next.life = life /\ next.helper = c
                     /\ next.epoch = rec[x].epoch /\ next.auth = rec[x].auth
                     /\ next.res = t
  BY <1>2, <1>6 DEF Records
<1>10. next # None => Told(call[c].pc, serve'[c], child[c], reply[c], next, ses[x])
  BY <1>2, <1>3, <1>4, <1>5, <1>7, <1>8, <1>9, StageIs DEF Told, Early
<1>11. next # None => Shown(next, ses[x])
  BY <1>2, <1>3 DEF Shown
<1>12. to = "off" => wire'[c] = << >>
  BY <1>8
<1>13. \A i \in DOMAIN wire'[c] : Sent(i, wire'[c][i], serve'[c], helper[c], child[c], reply[c])
  <2>1. \A i \in DOMAIN wire[c] : Sent(i, wire[c][i], serve[c], helper[c], child[c], reply[c])
    BY <1>2 DEF Talk
  <2>2. \A i \in DOMAIN wire'[c] : wire'[c] = wire[c]
    BY <1>8
  <2> QED
    BY <1>1, <1>7, <1>8, <2>1, <2>2 DEF Sent
<1>14. Talk(call[c].pc, serve'[c], helper[c], child[c], wire'[c], reply[c])
  BY <1>1, <1>2, <1>4, <1>7, <1>8, <1>12, <1>13 DEF Talk
<1>15. next \in Records \cup {None} /\ (Advanced(next, r) => next # None)
  BY <1>6 DEF Advanced
<1>16. reply' \in [Calls -> {"none", "execute"}]
  BY <1>1 DEF IInv, TypeOK
<1> QED
  BY <1>1, <1>3, <1>7, <1>8, <1>9, <1>10, <1>11, <1>12, <1>14, <1>15, <1>16, RecordStep

\* A frame of output, a result that counts what was read, or one that does not.
LEMMA ReceiveKeeps ==
  ASSUME IInv, NEW c \in Calls, Receive(c) PROVE IInv'
<1> DEFINE x == X(c)
           f == Head(wire[c])
<1>1. /\ serve[c].pc = "receive" /\ wire[c] # << >>
      /\ UNCHANGED <<disk, call, procs, reply, daemon, counts>>
  BY DEF Receive
<1>2. /\ x \in Execs /\ rec[x] \in Records /\ rec[x].helper = c
      /\ Told(call[c].pc, serve[c], child[c], reply[c], rec[x], ses[x])
      /\ Shown(rec[x], ses[x])
      /\ Talk(call[c].pc, serve[c], helper[c], child[c], wire[c], reply[c])
  BY <1>1, Launched
<1>3. /\ serve[c] \in Serves /\ serve \in [Calls -> Serves] /\ wire \in [Calls -> Seq(Frames)]
      /\ wire[c] \in Seq(Frames) /\ Tail(wire[c]) \in Seq(Frames)
  BY <1>1 DEF IInv, TypeOK
<1>4. /\ Sent(1, f, serve[c], helper[c], child[c], reply[c])
      /\ \A i \in DOMAIN Tail(wire[c]) :
           /\ Tail(wire[c])[i].kind \in {"output", "terminal"}
           /\ Tail(wire[c])[i].kind = "terminal" =>
                Tells(Tail(wire[c])[i].res, child[c]) /\ helper[c].pc = "gone"
  BY <1>1, ReadTells
<1>5. call[c].pc \notin Early /\ child[c].st # "none" /\ reply[c] = "none"
      /\ helper[c].pc \in {"wait", "gone"} /\ ses[x] # None
  <2>1. helper[c] \in Helpers /\ reply[c] \in {"none", "execute"}
    BY Typed
  <2> QED
    BY <1>1, <1>2, <2>1 DEF Talk, Told, Helpers
<1>6. CASE f.kind = "output"
  <2>1. serve' = [serve EXCEPT ![c].got = @ + 1] /\ wire' = [wire EXCEPT ![c] = Tail(@)]
    BY <1>6 DEF Receive
  <2>2. serve[c].got + 1 \in Nat
    BY <1>3 DEF Serves
  <2>3. /\ [serve[c] EXCEPT !.got = serve[c].got + 1] \in Serves
        /\ serve'[c] = [serve[c] EXCEPT !.got = serve[c].got + 1]
    BY <1>3, <2>1, <2>2 DEF Serves
  <2>4. /\ serve' \in [Calls -> Serves] /\ wire' \in [Calls -> Seq(Frames)]
        /\ \A d \in Calls \ {c} : serve'[d] = serve[d] /\ wire'[d] = wire[d]
        /\ wire'[c] = Tail(wire[c])
    BY <1>3, <2>1, <2>3
  <2>5. serve'[c].pc = "receive"
    BY <1>1, <1>3, <2>3 DEF Serves
  <2>6. TypeOK'
    BY <1>1, <2>4 DEF IInv, TypeOK
  <2>7. \A i \in DOMAIN wire'[c] : Sent(i, wire'[c][i], serve'[c], helper[c], child[c], reply[c])
    BY <1>4, <2>4, <2>5 DEF Sent
  <2>8. Talk(call[c].pc, serve'[c], helper[c], child[c], wire'[c], reply[c])
    BY <1>2, <1>5, <2>5, <2>7 DEF Talk
  <2>9. Told(call[c].pc, serve'[c], child[c], reply[c], rec[x], ses[x])
    BY <1>1, <1>2, <1>5, <2>5, StageIs DEF Told
  <2> QED
    BY <1>1, <1>2, <2>4, <2>6, <2>8, <2>9, ServeKeeps
<1>7. CASE f.kind # "output" /\ f.res.out # serve[c].got
  <2>1. Serving(c, "off")
    BY <1>7 DEF Receive
  <2>2. /\ serve' \in [Calls -> Serves] /\ wire' \in [Calls -> Seq(Frames)]
        /\ serve'[c].pc = "off" /\ wire'[c] = << >>
        /\ \A d \in Calls \ {c} : serve'[d] = serve[d] /\ wire'[d] = wire[d]
    BY <2>1, ServingGoes
  <2>3. TypeOK'
    BY <1>1, <2>2 DEF IInv, TypeOK
  <2>4. Talk(call[c].pc, serve'[c], helper[c], child[c], wire'[c], reply[c])
    BY <1>1, <2>2, TalkEnds
  <2>5. Told(call[c].pc, serve'[c], child[c], reply[c], rec[x], ses[x])
    BY <1>2, <1>5, <2>2, StageIs DEF Told, Early
  <2> QED
    BY <1>1, <1>2, <2>2, <2>3, <2>4, <2>5, ServeKeeps
<1>8. CASE f.kind # "output" /\ f.res.out = serve[c].got
  <2>1. /\ serve' = [serve EXCEPT ![c].pc = "output", ![c].res = f.res]
        /\ wire' = [wire EXCEPT ![c] = Tail(@)]
    BY <1>8 DEF Receive
  <2>2. Tells(f.res, child[c]) /\ helper[c].pc = "gone" /\ f.res \in Truths
    BY <1>1, <1>4, <1>8 DEF Sent, Tells
  <2> HIDE DEF f
  <2>3. /\ [serve[c] EXCEPT !.pc = "output", !.res = f.res] \in Serves
        /\ serve'[c] = [serve[c] EXCEPT !.pc = "output", !.res = f.res]
    BY <1>3, <2>1, <2>2 DEF Serves
  <2>4. /\ serve' \in [Calls -> Serves] /\ wire' \in [Calls -> Seq(Frames)]
        /\ \A d \in Calls \ {c} : serve'[d] = serve[d] /\ wire'[d] = wire[d]
        /\ wire'[c] = Tail(wire[c])
    BY <1>3, <2>1, <2>3
  <2>5. serve'[c].pc = "output" /\ serve'[c].res = f.res
    BY <1>3, <2>3 DEF Serves
  <2>6. TypeOK'
    BY <1>1, <2>4 DEF IInv, TypeOK
  <2>7. \A i \in DOMAIN wire'[c] : Sent(i, wire'[c][i], serve'[c], helper[c], child[c], reply[c])
    BY <1>4, <2>4, <2>5 DEF Sent
  <2>8. Talk(call[c].pc, serve'[c], helper[c], child[c], wire'[c], reply[c])
    BY <1>2, <1>5, <2>2, <2>5, <2>7 DEF Talk
  <2>9. Told(call[c].pc, serve'[c], child[c], reply[c], rec[x], ses[x])
    BY <1>1, <1>2, <1>5, <2>5, StageIs DEF Told
  <2> QED
    BY <1>1, <1>2, <2>4, <2>6, <2>8, <2>9, ServeKeeps
<1> QED
  BY <1>6, <1>7, <1>8

\* What a step of serveOne that neither reads nor answers needs.
LEMMA ServingTalks ==
  ASSUME IInv, NEW c \in Calls, serve[c].pc \in {"output", "terminal", "canonical", "publish"},
         serve'[c].pc \in {"output", "terminal", "canonical", "publish", "release", "off"},
         serve'[c].res = serve[c].res,
         wire'[c] = IF serve'[c].pc = "off" THEN << >> ELSE wire[c]
  PROVE  /\ Talk(call[c].pc, serve'[c], helper[c], child[c], wire'[c], reply[c])
         /\ call[c].pc \notin Early /\ Tells(serve[c].res, child[c])
         /\ serve[c].res \in Truths /\ serve[c].res # NoChild
<1>1. Talk(call[c].pc, serve[c], helper[c], child[c], wire[c], reply[c])
  BY Talks
<1>2. /\ Tells(serve[c].res, child[c]) /\ helper[c].pc = "gone" /\ call[c].pc \notin Early
      /\ reply[c] # "execute"
  BY <1>1 DEF Talk
<1>3. \A i \in DOMAIN wire'[c] : Sent(i, wire'[c][i], serve'[c], helper[c], child[c], reply[c])
  <2>1. \A i \in DOMAIN wire[c] : Sent(i, wire[c][i], serve[c], helper[c], child[c], reply[c])
    BY <1>1 DEF Talk
  <2>2. \A i \in DOMAIN wire'[c] : wire'[c] = wire[c]
    OBVIOUS
  <2> QED
    BY <2>1, <2>2 DEF Sent
<1>4. Talk(call[c].pc, serve'[c], helper[c], child[c], wire'[c], reply[c])
  BY <1>1, <1>2, <1>3 DEF Talk
<1>5. serve[c].res \in Truths /\ serve[c].res # NoChild
  BY <1>2 DEF Tells, NoChild, Ends
<1> QED
  BY <1>2, <1>4, <1>5

\* The log gets the bytes that the result counts.
LEMMA PersistOutputKeeps ==
  ASSUME IInv, NEW c \in Calls, NEW r, PersistOutput(c, r) PROVE IInv'
<1> DEFINE x == X(c)
           t == serve[c].res
<1>1. /\ serve[c].pc = "output" /\ Write(r)
      /\ \/ ses' = ses /\ Serving(c, "off")
         \/ /\ Matches(x) /\ ses' = IF Written(r) THEN [ses EXCEPT ![x].log = t.out] ELSE ses
            /\ Serving(c, IF r = "ok" THEN "terminal" ELSE "off")
      /\ UNCHANGED <<rec, lease, bind, call, procs, reply, daemon, crashes>>
  BY DEF PersistOutput
<1>2. /\ x \in Execs /\ rec[x] \in Records /\ rec[x].helper = c
      /\ Told(call[c].pc, serve[c], child[c], reply[c], rec[x], ses[x])
      /\ Shown(rec[x], ses[x])
  BY <1>1, Launched
<1>3. rec[x].life \in {"child_spawned", "ambiguous"} /\ ses[x] # None
  BY <1>1, <1>2, StageIs DEF Told
<1>4. PICK to \in {"terminal", "off"} :
        /\ Serving(c, to) /\ (to = "terminal" => r = "ok" /\ ses' = [ses EXCEPT ![x].log = t.out])
  <2>1. CASE Serving(c, "off")
    BY <2>1
  <2>2. CASE ~Serving(c, "off")
    <3>1. r = "ok" /\ Serving(c, "terminal")
      BY <1>1, <2>2
    <3> QED
      BY <1>1, <2>2, <3>1 DEF Written
  <2> QED
    BY <2>1, <2>2
<1>5. /\ serve' \in [Calls -> Serves] /\ wire' \in [Calls -> Seq(Frames)]
      /\ serve'[c].pc = to /\ serve'[c].res = t
      /\ wire'[c] = IF to = "off" THEN << >> ELSE wire[c]
      /\ \A d \in Calls \ {c} : serve'[d] = serve[d] /\ wire'[d] = wire[d]
  BY <1>4, ServingGoes
<1>6. /\ Talk(call[c].pc, serve'[c], helper[c], child[c], wire'[c], reply[c])
      /\ call[c].pc \notin Early /\ t \in Truths
  BY <1>1, <1>5, ServingTalks
<1>7. ses \in [Execs -> Sessions \cup {None}] /\ ses[x] \in Sessions /\ t.out \in Nat
  BY <1>2, <1>3, <1>6, Fields DEF IInv, TypeOK
<1>8. /\ [ses[x] EXCEPT !.log = t.out] \in Sessions
      /\ [ses[x] EXCEPT !.log = t.out].receipt = ses[x].receipt
      /\ [ses[x] EXCEPT !.log = t.out].log = t.out
  BY <1>7 DEF Sessions
<1>9. /\ ses' \in [Execs -> Sessions \cup {None}] /\ \A y \in Execs \ {x} : ses'[y] = ses[y]
      /\ ses'[x] \in Sessions /\ ses'[x].receipt = ses[x].receipt
      /\ to = "terminal" => ses'[x].log = t.out
  <2>1. CASE ses' = ses
    <3>1. to = "terminal" => ses'[x] = [ses[x] EXCEPT !.log = t.out]
      BY <1>2, <1>4, <1>7
    <3> QED
      BY <2>1, <3>1, <1>7, <1>8
  <2>2. CASE ses' # ses
    <3>1. ses' = [ses EXCEPT ![x] = [ses[x] EXCEPT !.log = t.out]]
      BY <1>1, <2>2
    <3> QED
      BY <3>1, <1>2, <1>7, <1>8
  <2> QED
    BY <2>1, <2>2
<1>10. TypeOK'
  BY <1>1, <1>5, <1>9, WriteCounts DEF IInv, TypeOK
<1>11. Shown(rec[x], ses'[x])
  BY <1>2, <1>3, <1>9 DEF Shown
<1>12. Told(call[c].pc, serve'[c], child[c], reply[c], rec[x], ses'[x])
  BY <1>1, <1>2, <1>3, <1>5, <1>6, <1>9, StageIs, NoneIsNothing DEF Told, Early
<1> QED
  BY <1>1, <1>2, <1>5, <1>6, <1>9, <1>10, <1>11, <1>12, ServeKeeps

\* The receipt is made from the canonicalized record, with its log.
LEMMA PublishKeeps ==
  ASSUME IInv, NEW c \in Calls, NEW r, Publish(c, r) PROVE IInv'
<1> DEFINE x  == X(c)
           t  == serve[c].res
           o  == Outcome(rec[x].res)
           ok == ses[x].receipt \in {None, o}
           to == IF ok /\ r = "ok" THEN "release" ELSE "off"
<1>1. /\ serve[c].pc = "publish" /\ Write(r)
      /\ ses' = IF ok /\ Written(r) THEN [ses EXCEPT ![x].receipt = o] ELSE ses
      /\ Serving(c, to)
      /\ UNCHANGED <<rec, lease, bind, call, procs, reply, daemon, crashes>>
  BY DEF Publish
<1>2. /\ x \in Execs /\ rec[x] \in Records /\ rec[x].helper = c
      /\ Told(call[c].pc, serve[c], child[c], reply[c], rec[x], ses[x])
      /\ Shown(rec[x], ses[x])
  BY <1>1, Launched
<1>3. rec[x].life = "canonicalized" /\ ses[x] # None /\ rec[x].res = t /\ ses[x].log = t.out
  BY <1>1, <1>2 DEF Told
<1>4. to \in {"release", "off"}
  OBVIOUS
<1>5. /\ serve' \in [Calls -> Serves] /\ wire' \in [Calls -> Seq(Frames)]
      /\ serve'[c].pc = to /\ serve'[c].res = t
      /\ wire'[c] = IF to = "off" THEN << >> ELSE wire[c]
      /\ \A d \in Calls \ {c} : serve'[d] = serve[d] /\ wire'[d] = wire[d]
  BY <1>1, <1>4, ServingGoes
<1> HIDE DEF to
<1>6. /\ Talk(call[c].pc, serve'[c], helper[c], child[c], wire'[c], reply[c])
      /\ call[c].pc \notin Early /\ t \in Truths /\ t # NoChild
  BY <1>1, <1>4, <1>5, ServingTalks
<1>7. ses \in [Execs -> Sessions \cup {None}] /\ ses[x] \in Sessions
  BY <1>2, <1>3 DEF IInv, TypeOK
<1>8. o \in Receipts /\ o = Outcome(t)
  BY <1>3 DEF Outcome, Receipts
<1> HIDE DEF o
<1>9. /\ [ses[x] EXCEPT !.receipt = o] \in Sessions
      /\ [ses[x] EXCEPT !.receipt = o].receipt = o
      /\ [ses[x] EXCEPT !.receipt = o].log = ses[x].log
  BY <1>7, <1>8 DEF Sessions
<1>10. /\ ses' \in [Execs -> Sessions \cup {None}] /\ \A y \in Execs \ {x} : ses'[y] = ses[y]
       /\ ses'[x] \in Sessions /\ ses'[x].log = ses[x].log
       /\ ses'[x].receipt = ses[x].receipt \/ ses'[x].receipt = o
  <2>1. CASE ses' = ses
    BY <2>1, <1>7
  <2>2. CASE ses' = [ses EXCEPT ![x].receipt = o]
    <3>1. ses' = [ses EXCEPT ![x] = [ses[x] EXCEPT !.receipt = o]]
      BY <2>2
    <3> QED
      BY <3>1, <1>2, <1>7, <1>9
  <2> QED
    BY <1>1, <2>1, <2>2
<1>11. TypeOK'
  BY <1>1, <1>5, <1>10, WriteCounts DEF IInv, TypeOK
<1>12. Shown(rec[x], ses'[x])
  BY <1>2, <1>3, <1>6, <1>8, <1>10, NoneIsNothing DEF Shown
<1>13. Told(call[c].pc, serve'[c], child[c], reply[c], rec[x], ses'[x])
  BY <1>1, <1>2, <1>3, <1>4, <1>5, <1>6, <1>10, StageIs, NoneIsNothing DEF Told, Early
<1> QED
  BY <1>1, <1>2, <1>5, <1>6, <1>10, <1>11, <1>12, <1>13, ServeKeeps

\* The lease ends when the record is canonicalized.
LEMMA ReleaseLeaseKeeps ==
  ASSUME IInv, NEW c \in Calls, NEW r, ReleaseLease(c, r) PROVE IInv'
<1> DEFINE x == X(c)
<1>1. /\ serve[c].pc = "release" /\ Release(x, call[c].epoch, r) /\ Serving(c, "off")
      /\ UNCHANGED <<rec, ses, bind, call, procs, reply, daemon, crashes>>
  BY DEF ReleaseLease
<1>2. /\ x \in Execs /\ rec[x] \in Records /\ rec[x].helper = c /\ call[c].epoch \in Epochs
      /\ Told(call[c].pc, serve[c], child[c], reply[c], rec[x], ses[x])
      /\ Shown(rec[x], ses[x]) /\ rec[x] # None
  BY <1>1, Launched
<1>3. rec[x].life = "canonicalized" /\ boot = "up" /\ Owner(c)
  BY <1>1, <1>2 DEF Told, Owner, IInv, Booting
<1>4. /\ serve' \in [Calls -> Serves] /\ wire' \in [Calls -> Seq(Frames)]
      /\ serve'[c].pc = "off" /\ wire'[c] = << >>
      /\ \A d \in Calls \ {c} : serve'[d] = serve[d] /\ wire'[d] = wire[d]
  BY <1>1, ServingGoes
<1>5. /\ lease' \in [Epochs -> Execs \cup {None}] /\ faults' \in 0 .. MaxFaults
      /\ lease' = lease \/ lease' = [lease EXCEPT ![call[c].epoch] = None]
  BY <1>1, WriteCounts DEF Release, IInv, TypeOK
<1>6. TypeOK'
  BY <1>1, <1>4, <1>5 DEF IInv, TypeOK
<1>7. /\ Talk(call[c].pc, serve'[c], helper[c], child[c], wire'[c], reply[c])
      /\ call[c].pc \notin Early
  BY <1>1, <1>4, TalkEnds
<1>8. Told(call[c].pc, serve'[c], child[c], reply[c], rec[x], ses[x])
  BY <1>2, <1>3, <1>4, <1>7, StageIs DEF Told, Early
<1>9. ~Owner(c)'
  BY <1>1, <1>4, <1>7 DEF Owner, Early
<1>10. call[c].pc \in {"arm", "shell", "fail", "done"}
  BY <1>2 DEF Told
<1> QED
  BY <1>1, <1>2, <1>3, <1>4, <1>5, <1>6, <1>7, <1>8, <1>9, <1>10, LaunchStep

\* A call that keeps the lease has its request and its epoch.
LEMMA OwnerHas ==
  ASSUME IInv, NEW c \in Calls, Owner(c)
  PROVE  /\ X(c) \in Execs /\ call[c].epoch \in Epochs /\ boot = "up"
         /\ lease[call[c].epoch] = X(c) /\ X(c) # None
<1>1. call[c].pc # "idle"
  BY Talks DEF Talk, Early, Owner
<1>2. X(c) \in Execs /\ call[c].epoch \in Epochs
  BY <1>1 DEF IInv, Calling, Called
<1>3. lease[call[c].epoch] = X(c) /\ X(c) # None
  BY <1>2, NoneIsNothing DEF IInv, Leasing
<1>4. boot = "up"
  BY DEF IInv, Booting, Owner
<1> QED
  BY <1>2, <1>3, <1>4

\* What a call changes only in the daemon's call stack.
LEMMA GotoGoes ==
  ASSUME IInv, NEW c \in Calls, NEW pc \in {"idle", "reserve", "lease", "request", "give_up",
                                            "arm", "shell", "fail", "done"}, Goto(c, pc)
  PROVE  /\ call' \in [Calls -> CallStates] /\ call'[c].pc = pc /\ call'[c].x = call[c].x
         /\ call'[c].epoch = call[c].epoch /\ \A d \in Calls \ {c} : call'[d] = call[d]
         /\ \A d \in Calls : X(d)' = X(d)
<1>1. call[c] \in CallStates /\ call \in [Calls -> CallStates]
  BY DEF IInv, TypeOK
<1>2. call' = [call EXCEPT ![c] = [call[c] EXCEPT !.pc = pc]]
  BY DEF Goto
<1>3. [call[c] EXCEPT !.pc = pc] \in CallStates
  BY <1>1 DEF CallStates
<1>4. call'[c] = [call[c] EXCEPT !.pc = pc]
  BY <1>1, <1>2
<1>5. call'[c].pc = pc /\ call'[c].x = call[c].x /\ call'[c].epoch = call[c].epoch
  BY <1>1, <1>4 DEF CallStates
<1> QED
  BY <1>1, <1>2, <1>3, <1>5 DEF X

\* A call before its launch: nothing of it runs and no record names it.
LEMMA EarlyIs ==
  ASSUME IInv, NEW c \in Calls, call[c].pc \in Early \ {"arm"}
  PROVE  /\ serve[c].pc = "off" /\ helper[c].pc = "none" /\ child[c].st = "none"
         /\ reply[c] = "none"
         /\ \A x \in Execs : rec[x] # None => rec[x].helper # c
<1>1. /\ serve[c].pc = "off" /\ helper[c].pc = "none" /\ child[c].st = "none"
      /\ reply[c] = "none"
  BY Talks DEF Talk
<1>2. ASSUME NEW x \in Execs, rec[x] # None, rec[x].helper = c PROVE FALSE
  <2>1. Told(call[c].pc, serve[c], child[c], reply[c], rec[x], ses[x])
    BY <1>2, NoneIsNothing DEF IInv, Recording, Recorded
  <2> QED
    BY <2>1 DEF Told, Early
<1> QED
  BY <1>1, <1>2

\* A step of a call before its launch that leaves the records alone.
LEMMA EarlyKeeps ==
  ASSUME IInv, TypeOK', NEW c \in Calls, call[c].pc \in Early \ {"arm"}, boot = "up",
         UNCHANGED <<rec, ses, bind, serve, procs, links, daemon>>,
         \A d \in Calls \ {c} : call'[d] = call[d],
         call'[c].pc \in {"reserve", "lease", "request", "give_up", "done"},
         call'[c].x \in Execs, call'[c].epoch \in Epochs,
         call'[c].pc \in {"lease", "request", "give_up"} =>
           rec[call'[c].x] # None /\ rec[call'[c].x].epoch = call'[c].epoch,
         call'[c].pc = "give_up" => rec[call'[c].x].helper = None,
         \A x \in Execs : rec[x] # None /\ rec[x].helper # None /\ rec[x].life # "canonicalized"
           => lease'[rec[x].epoch] = x,
         Leasing'
  PROVE  IInv'
<1>1. /\ serve[c].pc = "off" /\ helper[c].pc = "none" /\ child[c].st = "none"
      /\ reply[c] = "none"
      /\ \A x \in Execs : rec[x] # None => rec[x].helper # c
  BY EarlyIs
<1>2. Talking'
  <2> SUFFICES ASSUME NEW d \in Calls
               PROVE  Talk(call'[d].pc, serve[d], helper[d], child[d], wire[d], reply[d])
    BY DEF Talking
  <2>1. CASE d = c
    BY <2>1, <1>1, Talks DEF Talk
  <2>2. CASE d # c
    BY <2>2, Talks
  <2> QED
    BY <2>1, <2>2
<1>3. Recording'
  <2> SUFFICES ASSUME NEW x \in Execs PROVE Recorded(x)'
    BY DEF Recording
  <2>1. Recorded(x)
    BY DEF IInv, Recording
  <2>2. CASE rec[x] # None /\ rec[x].helper # None
    <3>1. PICK d \in Calls : d = rec[x].helper
      BY <2>2, Typed, Fields
    <3>2. d # c /\ d # None
      BY <1>1, <2>2, <3>1
    <3>3. call'[d] = call[d]
      BY <3>2
    <3>4. /\ X(d) = x /\ call[d].epoch = rec[x].epoch
          /\ Told(call[d].pc, serve[d], child[d], reply[d], rec[x], ses[x])
      BY <2>1, <2>2, <3>1 DEF Recorded
    <3>5. X(d)' = X(d)
      BY <3>3 DEF X
    <3>6. rec[x].life # "canonicalized" => lease'[rec[x].epoch] = x
      BY <2>2
    <3> QED
      BY <2>1, <2>2, <3>1, <3>2, <3>3, <3>4, <3>5, <3>6 DEF Recorded
  <2>3. CASE ~(rec[x] # None /\ rec[x].helper # None)
    BY <2>1, <2>3 DEF Recorded
  <2> QED
    BY <2>2, <2>3
<1>4. Calling'
  <2> SUFFICES ASSUME NEW d \in Calls PROVE Called(d)'
    BY DEF Calling
  <2>1. CASE d = c
    BY <2>1, <1>1 DEF Called, X
  <2>2. CASE d # c
    <3>1. call'[d] = call[d]
      BY <2>2
    <3> QED
      BY <3>1 DEF IInv, Calling, Called, X
  <2> QED
    BY <2>1, <2>2
<1>5. Booting'
  BY DEF IInv, Booting
<1> QED
  BY <1>2, <1>3, <1>4, <1>5 DEF IInv

\* While the lease is as it was, so is what hangs on it.
LEMMA LeaseUnchanged ==
  ASSUME IInv, NEW c \in Calls, lease' = lease, bind' = bind, serve' = serve,
         \A d \in Calls \ {c} : call'[d] = call[d],
         Owner(c)' => Owner(c) /\ call'[c].x = call[c].x /\ call'[c].epoch = call[c].epoch
  PROVE  /\ Leasing'
         /\ \A x \in Execs : rec[x] # None /\ rec[x].helper # None /\ rec[x].life # "canonicalized"
              => lease'[rec[x].epoch] = x
<1>1. \A d \in Calls : Owner(d)' => Owner(d) /\ X(d)' = X(d) /\ call'[d].epoch = call[d].epoch
  BY DEF Owner, X
<1>2. Leasing'
  BY <1>1 DEF IInv, Leasing
<1> QED
  BY <1>2 DEF IInv, Recording, Recorded

\* A new call, which knows only the epoch.
LEMMA ExecuteKeeps ==
  ASSUME IInv, NEW c \in Calls, NEW x \in Execs, Execute(c, x) PROVE IInv'
<1> DEFINE pc == IF rec[x] = None THEN "reserve" ELSE "lease"
<1>1. /\ boot = "up" /\ call[c].pc = "idle" /\ Admitted(x)
      /\ call' = [call EXCEPT ![c] = [x |-> x, epoch |-> bind.epoch, pc |-> pc]]
      /\ UNCHANGED <<disk, serve, procs, links, daemon, counts>>
  BY DEF Execute
<1>2. bind.epoch \in Epochs /\ bind.epoch \in Nat /\ call \in [Calls -> CallStates]
  BY ContextAssumption DEF IInv, TypeOK, Epochs
<1>3. [x |-> x, epoch |-> bind.epoch, pc |-> pc] \in CallStates
  BY <1>2 DEF CallStates
<1>4. /\ call' \in [Calls -> CallStates] /\ \A d \in Calls \ {c} : call'[d] = call[d]
      /\ call'[c].x = x /\ call'[c].epoch = bind.epoch /\ call'[c].pc = pc
  BY <1>1, <1>2, <1>3
<1>5. TypeOK'
  BY <1>1, <1>4 DEF IInv, TypeOK
<1>6. /\ pc \in {"reserve", "lease"} /\ (pc = "lease" => rec[x] # None /\ rec[x].epoch = bind.epoch)
  BY <1>1 DEF Admitted
<1> HIDE DEF pc
<1>7. call[c].pc \in Early \ {"arm"}
  BY <1>1 DEF Early
<1>8. ~Owner(c)'
  BY <1>1, <1>4, <1>6, <1>7, EarlyIs DEF Owner
<1>9. /\ Leasing'
      /\ \A y \in Execs : rec[y] # None /\ rec[y].helper # None /\ rec[y].life # "canonicalized"
           => lease'[rec[y].epoch] = y
  BY <1>1, <1>4, <1>8, LeaseUnchanged
<1> QED
  BY <1>1, <1>2, <1>4, <1>5, <1>6, <1>7, <1>9, EarlyKeeps

\* A call that ends before it has a lease.
LEMMA RefuseKeeps ==
  ASSUME IInv, NEW c \in Calls, Refuse(c) PROVE IInv'
<1>1. /\ call[c].pc = "lease" /\ Goto(c, "done")
      /\ UNCHANGED <<disk, serve, procs, links, daemon, counts>>
  BY DEF Refuse
<1>2. /\ call' \in [Calls -> CallStates] /\ call'[c].pc = "done" /\ call'[c].x = call[c].x
      /\ call'[c].epoch = call[c].epoch /\ \A d \in Calls \ {c} : call'[d] = call[d]
  BY <1>1, GotoGoes
<1>3. X(c) \in Execs /\ call[c].epoch \in Epochs /\ boot = "up"
  BY <1>1 DEF IInv, Calling, Called, Booting
<1>4. TypeOK'
  BY <1>1, <1>2 DEF IInv, TypeOK
<1>5. call[c].pc \in Early \ {"arm"}
  BY <1>1 DEF Early
<1>6. ~Owner(c)'
  BY <1>1, <1>2, <1>5, EarlyIs DEF Owner
<1>7. /\ Leasing'
      /\ \A y \in Execs : rec[y] # None /\ rec[y].helper # None /\ rec[y].life # "canonicalized"
           => lease'[rec[y].epoch] = y
  BY <1>1, <1>2, <1>6, LeaseUnchanged
<1> QED
  BY <1>1, <1>2, <1>3, <1>4, <1>5, <1>7, EarlyKeeps DEF X

\* The lease file is created when nobody has one.
LEMMA AcquireKeeps ==
  ASSUME IInv, NEW c \in Calls, NEW r, Acquire(c, r) PROVE IInv'
<1> DEFINE pc == IF r = "ok" THEN "request" ELSE "done"
<1>1. /\ call[c].pc = "lease" /\ LeaseFree(c) /\ Write(r) /\ Goto(c, pc)
      /\ lease' = IF Written(r) THEN [lease EXCEPT ![call[c].epoch] = X(c)] ELSE lease
      /\ UNCHANGED <<rec, ses, bind, serve, procs, links, daemon, crashes>>
  BY DEF Acquire
<1>2. pc \in {"request", "done"} /\ (pc = "request" => Written(r))
  BY DEF Written
<1>3. /\ call' \in [Calls -> CallStates] /\ call'[c].pc = pc /\ call'[c].x = call[c].x
      /\ call'[c].epoch = call[c].epoch /\ \A d \in Calls \ {c} : call'[d] = call[d]
      /\ \A d \in Calls : X(d)' = X(d)
  BY <1>1, <1>2, GotoGoes
<1> HIDE DEF pc
<1>4. /\ X(c) \in Execs /\ call[c].epoch \in Epochs /\ boot = "up"
      /\ rec[X(c)] # None /\ rec[X(c)].epoch = call[c].epoch
  BY <1>1 DEF IInv, Calling, Called, Booting
<1>5. lease \in [Epochs -> Execs \cup {None}]
  BY DEF IInv, TypeOK
<1>6. TypeOK'
  BY <1>1, <1>3, <1>4, <1>5, WriteCounts DEF IInv, TypeOK
<1>7. call[c].pc \in Early \ {"arm"}
  BY <1>1 DEF Early
<1>8. bind.owner = "agent" /\ bind.epoch = call[c].epoch /\ lease[call[c].epoch] = None
  BY <1>1 DEF LeaseFree
<1>9. \A d \in Calls : Owner(d) => call[d].epoch # call[c].epoch
  BY <1>8, OwnerHas
<1>10. \A d \in Calls : Owner(d)' => Owner(d) \/ (d = c /\ pc = "request")
  <2>1. serve[c].pc = "off"
    BY <1>7, EarlyIs
  <2> QED
    BY <1>1, <1>2, <1>3, <2>1 DEF Owner
<1>11. pc = "request" => lease'[call'[c].epoch] = X(c)
  BY <1>1, <1>2, <1>3, <1>4, <1>5
<1>12. MaxEpoch \notin bind'.logged /\ \A e \in Epochs : lease'[e] # None => Held(bind', e)
  BY <1>1, <1>4, <1>5, <1>8 DEF IInv, Leasing, Held
<1>13. Leasing'
  <2>1. \A d \in Calls : call'[d].epoch = call[d].epoch
    BY <1>3
  <2>2. \A d1, d2 \in Calls :
          Owner(d1)' /\ Owner(d2)' /\ call'[d1].epoch = call'[d2].epoch => d1 = d2
    BY <1>9, <1>10, <2>1 DEF IInv, Leasing
  <2>3. \A d \in Calls : Owner(d) => lease'[call[d].epoch] = X(d)
    BY <1>1, <1>5, <1>9, OwnerHas
  <2>4. \A d \in Calls : Owner(d)' => lease'[call'[d].epoch] = X(d)'
    BY <1>3, <1>10, <1>11, <2>1, <2>3
  <2> QED
    BY <1>12, <2>2, <2>4 DEF Leasing
<1>14. ASSUME NEW x \in Execs, rec[x] # None, rec[x].helper # None,
              rec[x].life # "canonicalized"
       PROVE  lease'[rec[x].epoch] = x
  <2>1. lease[rec[x].epoch] = x
    BY <1>14 DEF IInv, Recording, Recorded
  <2>2. rec[x].epoch # call[c].epoch
    BY <2>1, <1>8, NoneIsNothing
  <2> QED
    BY <1>1, <1>5, <2>1, <2>2
<1> QED
  BY <1>1, <1>2, <1>3, <1>4, <1>6, <1>7, <1>13, <1>14, EarlyKeeps DEF X

\* The lease is given back: the record was not written and names no launch.
LEMMA GiveUpKeeps ==
  ASSUME IInv, NEW c \in Calls, NEW r, GiveUp(c, r) PROVE IInv'
<1>1. /\ call[c].pc = "give_up" /\ Release(X(c), call[c].epoch, r) /\ Goto(c, "done")
      /\ UNCHANGED <<rec, ses, bind, serve, procs, links, daemon, crashes>>
  BY DEF GiveUp
<1>2. /\ call' \in [Calls -> CallStates] /\ call'[c].pc = "done" /\ call'[c].x = call[c].x
      /\ call'[c].epoch = call[c].epoch /\ \A d \in Calls \ {c} : call'[d] = call[d]
      /\ \A d \in Calls : X(d)' = X(d)
  BY <1>1, GotoGoes
<1>3. Owner(c)
  BY <1>1 DEF Owner
<1>4. /\ X(c) \in Execs /\ call[c].epoch \in Epochs /\ boot = "up"
  BY <1>3, OwnerHas
<1>5. lease \in [Epochs -> Execs \cup {None}]
  BY DEF IInv, TypeOK
<1>6. TypeOK'
  BY <1>1, <1>2, <1>5, WriteCounts DEF IInv, TypeOK, Release
<1>7. call[c].pc \in Early \ {"arm"}
  BY <1>1 DEF Early
<1>8. ~Owner(c)'
  BY <1>1, <1>2, <1>7, EarlyIs DEF Owner
<1>9. \A d \in Calls : Owner(d)' => Owner(d) /\ d # c /\ call[d].epoch # call[c].epoch
  <2>1. \A d \in Calls \ {c} : Owner(d)' => Owner(d)
    BY <1>1, <1>2 DEF Owner
  <2> QED
    BY <2>1, <1>3, <1>8 DEF IInv, Leasing
<1>10. /\ \A e \in Epochs : lease'[e] # None => lease'[e] = lease[e]
       /\ \A e \in Epochs : e # call[c].epoch => lease'[e] = lease[e]
  BY <1>1, <1>5 DEF Release
<1>11. Leasing'
  <2>1. \A d \in Calls : call'[d].epoch = call[d].epoch
    BY <1>2
  <2>2. \A d \in Calls : Owner(d)' => lease'[call'[d].epoch] = X(d)'
    BY <1>2, <1>9, <1>10, <2>1, OwnerHas
  <2>3. MaxEpoch \notin bind'.logged /\ \A e \in Epochs : lease'[e] # None => Held(bind', e)
    BY <1>1, <1>10 DEF IInv, Leasing
  <2>4. \A d1, d2 \in Calls :
          Owner(d1)' /\ Owner(d2)' /\ call'[d1].epoch = call'[d2].epoch => d1 = d2
    BY <1>9, <2>1 DEF IInv, Leasing
  <2> QED
    BY <2>2, <2>3, <2>4 DEF Leasing
<1>12. rec[X(c)].helper = None
  BY <1>1 DEF IInv, Calling, Called
<1>13. ASSUME NEW x \in Execs, rec[x] # None, rec[x].helper # None,
              rec[x].life # "canonicalized"
       PROVE  lease'[rec[x].epoch] = x
  <2>1. lease[rec[x].epoch] = x /\ x # X(c)
    BY <1>12, <1>13 DEF IInv, Recording, Recorded
  <2> QED
    BY <1>1, <1>5, <2>1 DEF Release
<1> QED
  BY <1>1, <1>2, <1>4, <1>6, <1>7, <1>11, <1>13, EarlyKeeps DEF X

\* A new record: nobody has seen one for this request.
LEMMA ReserveKeeps ==
  ASSUME IInv, NEW c \in Calls, NEW r, Reserve(c, r) PROVE IInv'
<1>1. /\ call[c].pc = "reserve" /\ Write(r)
      /\ UNCHANGED <<lease, ses, bind, serve, procs, links, daemon, crashes>>
  BY DEF Reserve
<1>2. PICK pc \in {"lease", "done"} :
        Goto(c, pc) /\ (pc = "lease" => rec[X(c)] = None /\ r = "ok")
  BY DEF Reserve
<1>3. /\ call' \in [Calls -> CallStates] /\ call'[c].pc = pc /\ call'[c].x = call[c].x
      /\ call'[c].epoch = call[c].epoch /\ \A d \in Calls \ {c} : call'[d] = call[d]
      /\ \A d \in Calls : X(d)' = X(d)
  BY <1>2, GotoGoes
<1>4. /\ X(c) \in Execs /\ call[c].epoch \in Epochs /\ boot = "up"
  BY <1>1 DEF IInv, Calling, Called, Booting
<1> DEFINE n == NewRecord(call[c].epoch)
<1>5. /\ n \in Records /\ n.life = "reserved" /\ n.helper = None /\ ~n.auth /\ n.res = None
      /\ n.epoch = call[c].epoch /\ n # None
  <2>1. n \in Records
    BY <1>4 DEF NewRecord, Records, Lives
  <2> QED
    BY <2>1, NoneIsNothing DEF NewRecord
<1>6. \/ rec' = rec /\ pc = "done"
      \/ rec[X(c)] = None /\ rec' = [rec EXCEPT ![X(c)] = n]
  BY <1>2 DEF Reserve, Written, Goto
<1> HIDE DEF n
<1>7. call[c].pc \in Early \ {"arm"}
  BY <1>1 DEF Early
<1>8. /\ serve[c].pc = "off" /\ helper[c].pc = "none" /\ child[c].st = "none"
      /\ reply[c] = "none" /\ \A x \in Execs : rec[x] # None => rec[x].helper # c
  BY <1>7, EarlyIs
<1>9. ~Owner(c)'
  BY <1>1, <1>3, <1>8 DEF Owner
<1>10. /\ Leasing'
       /\ \A y \in Execs : rec[y] # None /\ rec[y].helper # None /\ rec[y].life # "canonicalized"
            => lease'[rec[y].epoch] = y
  BY <1>1, <1>3, <1>9, LeaseUnchanged
<1>11. rec \in [Execs -> Records \cup {None}]
  BY DEF IInv, TypeOK
<1>12. rec' \in [Execs -> Records \cup {None}]
  BY <1>4, <1>5, <1>6, <1>11
<1>13. TypeOK'
  BY <1>1, <1>3, <1>12, WriteCounts DEF IInv, TypeOK
<1>14. CASE rec' = rec /\ pc = "done"
  BY <1>1, <1>3, <1>4, <1>7, <1>10, <1>13, <1>14, EarlyKeeps DEF X
<1>15. CASE rec[X(c)] = None /\ rec' = [rec EXCEPT ![X(c)] = n]
  <2>1. rec'[X(c)] = n /\ \A y \in Execs \ {X(c)} : rec'[y] = rec[y]
    BY <1>4, <1>11, <1>15
  <2>2. Talking'
    <3> SUFFICES ASSUME NEW d \in Calls
                 PROVE  Talk(call'[d].pc, serve[d], helper[d], child[d], wire[d], reply[d])
      BY <1>1 DEF Talking
    <3>1. CASE d = c
      BY <3>1, <1>8, Talks DEF Talk
    <3>2. CASE d # c
      BY <3>2, <1>3, Talks
    <3> QED
      BY <3>1, <3>2
  <2>3. Recording'
    <3> SUFFICES ASSUME NEW x \in Execs PROVE Recorded(x)'
      BY DEF Recording
    <3>1. Recorded(x)
      BY DEF IInv, Recording
    <3>2. CASE x = X(c)
      <4>1. Shown(n, ses[x])
        BY <1>15, <3>1, <3>2 DEF Shown, Recorded
      <4> QED
        BY <1>1, <1>5, <2>1, <3>2, <4>1 DEF Recorded
    <3>3. CASE x # X(c) /\ rec[x] # None /\ rec[x].helper # None
      <4>1. PICK d \in Calls : d = rec[x].helper
        BY <3>3, Typed, Fields
      <4>2. d # c /\ d # None /\ rec'[x] = rec[x]
        BY <1>8, <2>1, <3>3, <4>1
      <4>3. call'[d] = call[d] /\ X(d)' = X(d)
        BY <1>3, <4>2
      <4>4. /\ X(d) = x /\ call[d].epoch = rec[x].epoch
            /\ Told(call[d].pc, serve[d], child[d], reply[d], rec[x], ses[x])
        BY <3>1, <3>3, <4>1 DEF Recorded
      <4>5. rec[x].life # "canonicalized" => lease'[rec[x].epoch] = x
        BY <1>10, <3>3
      <4> QED
        BY <1>1, <3>1, <3>3, <4>1, <4>2, <4>3, <4>4, <4>5 DEF Recorded
    <3>4. CASE x # X(c) /\ ~(rec[x] # None /\ rec[x].helper # None)
      BY <1>1, <2>1, <3>1, <3>4 DEF Recorded
    <3> QED
      BY <3>2, <3>3, <3>4
  <2>4. Calling'
    <3> SUFFICES ASSUME NEW d \in Calls PROVE Called(d)'
      BY DEF Calling
    <3>1. CASE d = c
      BY <3>1, <1>1, <1>3, <1>4, <1>5, <1>8, <2>1 DEF Called, X
    <3>2. CASE d # c
      <4>1. call'[d] = call[d] /\ X(d)' = X(d) /\ Called(d)
        BY <3>2, <1>3 DEF IInv, Calling
      <4>2. serve[d].pc # "off" \/ helper[d].pc # "none" => call[d].pc # "idle"
        BY Talks DEF Talk, Early
      <4> QED
        BY <1>1, <1>15, <2>1, <4>1, <4>2 DEF Called
    <3> QED
      BY <3>1, <3>2
  <2>5. Booting'
    BY <1>1, <1>4 DEF IInv, Booting, TypeOK
  <2> QED
    BY <1>10, <1>13, <2>2, <2>3, <2>4, <2>5 DEF IInv
<1> QED
  BY <1>6, <1>14, <1>15

\* A record that names no launch is only reserved.
LEMMA ReservedIs ==
  ASSUME IInv, NEW x \in Execs, rec[x] # None, rec[x].life = "reserved"
  PROVE  rec[x].helper = None /\ ~rec[x].auth /\ rec[x].res = None
BY DEF IInv, Recording, Recorded, Told

\* The record gets the launch of the call that has the lease; no other call has
\* it.
LEMMA RequestKeeps ==
  ASSUME IInv, NEW c \in Calls, NEW r, Request(c, r) PROVE IInv'
<1> DEFINE x    == X(c)
           next == Apply(rec[x], "helper_requested", FALSE, c, None)
           pc   == IF Advanced(next, r) THEN "arm" ELSE IF r = "none" THEN "give_up" ELSE "done"
<1>1. /\ call[c].pc = "request" /\ Advance(x, next, r) /\ Goto(c, pc)
      /\ UNCHANGED <<lease, ses, bind, serve, procs, links, daemon, crashes>>
  BY DEF Request
<1>2. pc \in {"arm", "give_up", "done"}
  OBVIOUS
<1>3. /\ call' \in [Calls -> CallStates] /\ call'[c].pc = pc /\ call'[c].x = call[c].x
      /\ call'[c].epoch = call[c].epoch /\ \A d \in Calls \ {c} : call'[d] = call[d]
      /\ \A d \in Calls : X(d)' = X(d)
  BY <1>1, <1>2, GotoGoes
<1>4. Owner(c) /\ x \in Execs /\ call[c].epoch \in Epochs /\ boot = "up"
      /\ lease[call[c].epoch] = x
  BY <1>1, OwnerHas DEF Owner
<1>5. rec[x] # None /\ rec[x] \in Records /\ rec[x].epoch = call[c].epoch
  BY <1>1, <1>4, Typed DEF IInv, Calling, Called
<1>6. call[c].pc \in Early \ {"arm"}
  BY <1>1 DEF Early
<1>7. /\ serve[c].pc = "off" /\ helper[c].pc = "none" /\ child[c].st = "none"
      /\ reply[c] = "none" /\ \A y \in Execs : rec[y] # None => rec[y].helper # c
  BY <1>6, EarlyIs
<1>8. next # None => /\ next = [rec[x] EXCEPT !.life = "helper_requested", !.helper = c]
                     /\ next \in Records /\ rec[x].life = "reserved"
  BY <1>4, <1>5, <1>7, ApplyRequest
<1>9. (pc = "arm" <=> Advanced(next, r)) /\ (pc = "give_up" => r = "none")
  OBVIOUS
<1> HIDE DEF next, pc
<1>10. next # None => /\ next.life = "helper_requested" /\ next.helper = c
                      /\ next.epoch = rec[x].epoch /\ ~next.auth /\ next.res = None
                      /\ rec[x].helper = None
  <2>1. next # None => rec[x].helper = None /\ ~rec[x].auth /\ rec[x].res = None
    BY <1>4, <1>5, <1>8, ReservedIs
  <2> QED
    BY <1>5, <1>8, <2>1 DEF Records
<1>11. /\ faults' \in 0 .. MaxFaults /\ rec' \in [Execs -> Records \cup {None}]
       /\ Advanced(next, r) => next # None /\ rec'[x] = next
       /\ \A y \in Execs \ {x} : rec'[y] = rec[y]
  BY <1>1, <1>4, <1>8, AdvanceDoes
<1>12. /\ rec' = rec \/ (next # None /\ rec'[x] = next /\ pc # "give_up")
       /\ r = "none" => next # None
  BY <1>1, <1>4, <1>9 DEF Advance, Written, IInv, TypeOK
<1>13. TypeOK'
  BY <1>1, <1>3, <1>11 DEF IInv, TypeOK
<1>14. Owner(c)' => Owner(c) /\ call'[c].x = call[c].x /\ call'[c].epoch = call[c].epoch
  BY <1>3, <1>4
<1>15. /\ Leasing'
       /\ \A y \in Execs : rec[y] # None /\ rec[y].helper # None /\ rec[y].life # "canonicalized"
            => lease'[rec[y].epoch] = y
  BY <1>1, <1>3, <1>14, LeaseUnchanged
<1>16. CASE rec' = rec
  <2>1. pc \in {"give_up", "done"}
    BY <1>2, <1>4, <1>5, <1>7, <1>9, <1>10, <1>11, <1>16
  <2>2. pc = "give_up" => rec[x].helper = None
    BY <1>9, <1>10, <1>12
  <2> QED
    BY <1>1, <1>3, <1>4, <1>5, <1>6, <1>13, <1>15, <1>16, <2>1, <2>2, EarlyKeeps DEF X
<1>17. CASE next # None /\ rec'[x] = next /\ pc # "give_up"
  <2>1. pc \in {"arm", "done"}
    BY <1>2, <1>17
  <2>2. Talking'
    <3> SUFFICES ASSUME NEW d \in Calls
                 PROVE  Talk(call'[d].pc, serve[d], helper[d], child[d], wire[d], reply[d])
      BY <1>1 DEF Talking
    <3>1. CASE d = c
      BY <3>1, <1>7, Talks DEF Talk
    <3>2. CASE d # c
      BY <3>2, <1>3, Talks
    <3> QED
      BY <3>1, <3>2
  <2>3. Recording'
    <3> SUFFICES ASSUME NEW y \in Execs PROVE Recorded(y)'
      BY DEF Recording
    <3>1. Recorded(y)
      BY DEF IInv, Recording
    <3>2. CASE y = x
      <4>1. Shown(next, ses[y])
        BY <1>8, <1>17, <3>1, <3>2 DEF Shown, Recorded
      <4>2. Told(call'[c].pc, serve[c], child[c], reply[c], next, ses[y])
        BY <1>3, <1>7, <1>10, <1>17, <2>1, StageIs DEF Told
      <4>3. call'[c].epoch = next.epoch /\ lease'[next.epoch] = y
        BY <1>1, <1>3, <1>4, <1>5, <1>10, <1>17, <3>2
      <4> QED
        BY <1>1, <1>3, <1>10, <1>17, <3>2, <4>1, <4>2, <4>3, NoneIsNothing DEF Recorded
    <3>3. CASE y # x /\ rec[y] # None /\ rec[y].helper # None
      <4>1. PICK d \in Calls : d = rec[y].helper
        BY <3>3, Typed, Fields
      <4>2. d # c /\ d # None /\ rec'[y] = rec[y]
        BY <1>7, <1>11, <3>3, <4>1
      <4>3. call'[d] = call[d] /\ X(d)' = X(d)
        BY <1>3, <4>2
      <4>4. /\ X(d) = y /\ call[d].epoch = rec[y].epoch
            /\ Told(call[d].pc, serve[d], child[d], reply[d], rec[y], ses[y])
        BY <3>1, <3>3, <4>1 DEF Recorded
      <4>5. rec[y].life # "canonicalized" => lease'[rec[y].epoch] = y
        BY <1>15, <3>3
      <4> QED
        BY <1>1, <3>1, <3>3, <4>1, <4>2, <4>3, <4>4, <4>5 DEF Recorded
    <3>4. CASE y # x /\ ~(rec[y] # None /\ rec[y].helper # None)
      BY <1>1, <1>11, <3>1, <3>4 DEF Recorded
    <3> QED
      BY <3>2, <3>3, <3>4
  <2>4. Calling'
    <3> SUFFICES ASSUME NEW d \in Calls PROVE Called(d)'
      BY DEF Calling
    <3>1. rec'[x] # None /\ rec'[x].helper = c /\ rec'[x].epoch = rec[x].epoch
      BY <1>8, <1>10, <1>17, NoneIsNothing
    <3>2. CASE d = c
      BY <3>1, <3>2, <1>1, <1>3, <1>4, <2>1 DEF Called
    <3>3. CASE d # c
      <4>1. call'[d] = call[d] /\ X(d)' = X(d) /\ Called(d)
        BY <3>3, <1>3 DEF IInv, Calling
      <4>2. serve[d].pc # "off" \/ helper[d].pc # "none" => call[d].pc # "idle"
        BY Talks DEF Talk, Early
      <4>3. X(d) = x => call[d].pc # "give_up"
        <5>1. SUFFICES ASSUME X(d) = x, call[d].pc = "give_up" PROVE FALSE
          OBVIOUS
        <5>2. call[d].epoch = rec[x].epoch /\ Owner(d)
          BY <4>1, <5>1 DEF Called, Owner
        <5>3. call[c].epoch = rec[x].epoch /\ Owner(c)
          BY <1>1, <1>4 DEF IInv, Calling, Called, Owner
        <5> QED
          BY <3>3, <5>2, <5>3 DEF IInv, Leasing
      <4>4. CASE X(d) = x
        BY <1>1, <1>10, <1>17, <3>1, <4>1, <4>2, <4>3, <4>4, NoneIsNothing DEF Called
      <4>5. CASE X(d) # x
        BY <1>1, <1>11, <4>1, <4>2, <4>5 DEF Called
      <4> QED
        BY <4>4, <4>5
    <3> QED
      BY <3>2, <3>3
  <2>5. Booting'
    BY <1>1, <1>4 DEF IInv, Booting
  <2> QED
    BY <1>13, <1>15, <2>2, <2>3, <2>4, <2>5 DEF IInv
<1> QED
  BY <1>12, <1>16, <1>17

\* The listener is there before the command is typed; the typing may fail.
LEMMA ArmKeeps ==
  ASSUME IInv, NEW c \in Calls, Arm(c) PROVE IInv'
<1>1. /\ call[c].pc = "arm" /\ Goto(c, "shell") /\ serve' = [serve EXCEPT ![c].pc = "listen"]
      /\ UNCHANGED <<disk, child, links, daemon, crashes>>
  BY DEF Arm
<1>2. PICK typed \in {"typed", "none"} :
        helper' = [helper EXCEPT ![c].pc = typed] /\ Spend(IF typed = "none" THEN 1 ELSE 0)
  BY DEF Arm
<1>3. /\ call' \in [Calls -> CallStates] /\ call'[c].pc = "shell" /\ call'[c].x = call[c].x
      /\ call'[c].epoch = call[c].epoch /\ \A d \in Calls \ {c} : call'[d] = call[d]
  BY <1>1, GotoGoes
<1>4. /\ helper' \in [Calls -> Helpers]
      /\ helper'[c].pc = typed /\ helper'[c].sent = helper[c].sent
      /\ helper'[c].truncated = helper[c].truncated /\ helper'[c].lost = helper[c].lost
      /\ \A d \in Calls \ {c} : helper'[d] = helper[d]
  BY <1>2, HelperGoesTyped DEF HelperGoes
<1>5. /\ serve' \in [Calls -> Serves] /\ serve'[c].pc = "listen"
      /\ \A d \in Calls \ {c} : serve'[d] = serve[d]
  <2>1. serve[c] \in Serves /\ serve \in [Calls -> Serves]
    BY DEF IInv, TypeOK
  <2>2. [serve[c] EXCEPT !.pc = "listen"] \in Serves
        /\ [serve[c] EXCEPT !.pc = "listen"].pc = "listen"
    BY <2>1 DEF Serves
  <2>3. serve' = [serve EXCEPT ![c] = [serve[c] EXCEPT !.pc = "listen"]]
    BY <1>1
  <2> QED
    BY <2>1, <2>2, <2>3
<1>6. faults' \in 0 .. MaxFaults
  BY <1>2, ContextAssumption DEF Spend, IInv, TypeOK
<1>7. TypeOK'
  BY <1>1, <1>3, <1>4, <1>5, <1>6 DEF IInv, TypeOK
<1>8. /\ X(c) \in Execs /\ rec[X(c)] \in Records /\ rec[X(c)].helper = c /\ rec[X(c)] # None
      /\ Told(call[c].pc, serve[c], child[c], reply[c], rec[X(c)], ses[X(c)])
      /\ Shown(rec[X(c)], ses[X(c)])
      /\ Talk(call[c].pc, serve[c], helper[c], child[c], wire[c], reply[c])
  BY <1>1, Launched
<1>9. /\ serve[c].pc = "off" /\ helper[c].pc = "none" /\ child[c].st = "none"
      /\ reply[c] = "none" /\ wire[c] = << >>
  BY <1>1, <1>8 DEF Talk, Early
<1>10. Talk(call'[c].pc, serve'[c], helper'[c], child[c], wire[c], reply[c])
  BY <1>3, <1>4, <1>5, <1>8, <1>9 DEF Talk, Early
<1>11. Told(call'[c].pc, serve'[c], child[c], reply[c], rec[X(c)], ses[X(c)])
  BY <1>1, <1>3, <1>5, <1>8, <1>9, StageIs DEF Told
<1>12. Owner(c) /\ boot = "up"
  BY <1>1 DEF Owner, IInv, Booting
<1> QED
  BY <1>1, <1>3, <1>4, <1>5, <1>7, <1>8, <1>10, <1>11, <1>12, LaunchStep

\* A call that goes on after its launch, with the records as they were.
LEMMA AfterLaunchKeeps ==
  ASSUME IInv, TypeOK', NEW c \in Calls, NEW pc \in {"fail", "done"},
         call[c].pc \in {"shell", "fail"}, Goto(c, pc),
         UNCHANGED <<lease, ses, bind, procs, reply, daemon>>,
         \A d \in Calls \ {c} : serve'[d] = serve[d] /\ wire'[d] = wire[d],
         \/ serve'[c] = serve[c] /\ wire'[c] = wire[c]
         \/ serve[c].pc # "off" /\ serve'[c].pc = "off" /\ wire'[c] = << >>,
         \A x \in Execs \ {X(c)} : rec'[x] = rec[x],
         \/ rec'[X(c)] = rec[X(c)]
         \/ /\ rec'[X(c)] = [rec[X(c)] EXCEPT !.life = "ambiguous"]
            /\ ~Terminal(rec[X(c)].life)
  PROVE  IInv'
<1>1. /\ call'[c].pc = pc /\ call'[c].x = call[c].x
      /\ call'[c].epoch = call[c].epoch /\ \A d \in Calls \ {c} : call'[d] = call[d]
  BY GotoGoes
<1>2. /\ X(c) \in Execs /\ rec[X(c)] \in Records /\ rec[X(c)].helper = c /\ rec[X(c)] # None
      /\ Told(call[c].pc, serve[c], child[c], reply[c], rec[X(c)], ses[X(c)])
      /\ Shown(rec[X(c)], ses[X(c)])
      /\ Talk(call[c].pc, serve[c], helper[c], child[c], wire[c], reply[c])
  BY Launched
<1>3. boot = "up"
  BY DEF IInv, Booting
<1>4. Talk(call'[c].pc, serve'[c], helper[c], child[c], wire'[c], reply[c])
  <2>1. pc \notin Early
    BY DEF Early
  <2>2. CASE serve'[c] = serve[c] /\ wire'[c] = wire[c]
    BY <1>1, <1>2, <2>1, <2>2 DEF Talk
  <2>3. CASE serve[c].pc # "off" /\ serve'[c].pc = "off" /\ wire'[c] = << >>
    BY <1>1, <1>2, <2>1, <2>3 DEF Talk, Sent
  <2> QED
    BY <2>2, <2>3
<1> DEFINE x == X(c)
           q == rec'[x]
<1>5. /\ q \in Records /\ q.helper = c /\ q.epoch = rec[x].epoch /\ q.auth = rec[x].auth
      /\ q.res = rec[x].res
      /\ q.life = rec[x].life \/ (q.life = "ambiguous" /\ ~Terminal(rec[x].life))
  BY <1>2 DEF Records, Lives
<1> HIDE DEF q
<1>6. Told(call'[c].pc, serve'[c], child[c], reply[c], q, ses[x])
  <2>1. Told(call'[c].pc, serve[c], child[c], reply[c], rec[x], ses[x])
    BY <1>1, <1>2 DEF Told
  <2>2. Told(call'[c].pc, serve[c], child[c], reply[c], q, ses[x])
    BY <2>1, <1>1, <1>5 DEF Told, Terminal
  <2>3. CASE serve'[c] = serve[c]
    BY <2>2, <2>3
  <2>4. CASE serve'[c].pc = "off"
    BY <2>2, <2>4, StageIs DEF Told
  <2> QED
    BY <2>3, <2>4
<1>7. Shown(q, ses[x])
  BY <1>2, <1>5, NoneIsNothing DEF Shown, Terminal
<1>8. rec[x].life = "canonicalized" => q.life = "canonicalized"
  BY <1>5 DEF Terminal
<1>9. Owner(c)' => Owner(c)
  BY <1>1 DEF Owner
<1>10. q # None
  BY <1>5, NoneIsNothing
<1> QED
  BY <1>1, <1>2, <1>3, <1>4, <1>5, <1>6, <1>7, <1>8, <1>9, <1>10, LaunchStep DEF q

\* Execute returns; serveOne goes on.
LEMMA ArmedKeeps ==
  ASSUME IInv, NEW c \in Calls, Armed(c) PROVE IInv'
<1>1. /\ call[c].pc = "shell" /\ Goto(c, "done")
      /\ UNCHANGED <<disk, serve, procs, links, daemon, counts>>
  BY DEF Armed
<1>2. TypeOK'
  BY <1>1, GotoGoes DEF IInv, TypeOK
<1> QED
  BY <1>1, <1>2, AfterLaunchKeeps

\* The shell reports a failure while the helper may already be talking.
LEMMA ArmFailsKeeps ==
  ASSUME IInv, NEW c \in Calls, ArmFails(c) PROVE IInv'
<1>1. /\ call[c].pc = "shell" /\ Goto(c, "fail") /\ Spend(IF helper[c].pc = "none" THEN 0 ELSE 1)
      /\ IF serve[c].pc = "listen" THEN Serving(c, "off") ELSE UNCHANGED <<serve, wire>>
      /\ UNCHANGED <<disk, procs, reply, daemon, crashes>>
  BY DEF ArmFails
<1>2. faults' \in 0 .. MaxFaults
  BY <1>1, ContextAssumption DEF Spend, IInv, TypeOK
<1>3. /\ serve' \in [Calls -> Serves] /\ wire' \in [Calls -> Seq(Frames)]
      /\ \A d \in Calls \ {c} : serve'[d] = serve[d] /\ wire'[d] = wire[d]
      /\ \/ serve'[c] = serve[c] /\ wire'[c] = wire[c]
         \/ serve[c].pc # "off" /\ serve'[c].pc = "off" /\ wire'[c] = << >>
  <2>1. CASE serve[c].pc = "listen"
    BY <1>1, <2>1, ServingGoes
  <2>2. CASE serve[c].pc # "listen"
    BY <1>1, <2>2 DEF IInv, TypeOK
  <2> QED
    BY <2>1, <2>2
<1>4. TypeOK'
  BY <1>1, <1>2, <1>3, GotoGoes DEF IInv, TypeOK
<1> QED
  BY <1>1, <1>3, <1>4, AfterLaunchKeeps

\* A launch whose typing failed is ambiguous, whatever its helper does later.
LEMMA DeclareAmbiguousKeeps ==
  ASSUME IInv, NEW c \in Calls, NEW r, DeclareAmbiguous(c, r) PROVE IInv'
<1> DEFINE next == Apply(rec[X(c)], "ambiguous", FALSE, None, None)
<1>1. /\ call[c].pc = "fail" /\ Goto(c, "done") /\ Advance(X(c), next, r)
      /\ UNCHANGED <<lease, ses, bind, serve, procs, links, daemon, crashes>>
  BY DEF DeclareAmbiguous
<1>2. X(c) \in Execs /\ rec[X(c)] \in Records
  BY <1>1, Launched
<1>3. "ambiguous" \in Lives /\ rec[X(c)].life \in Lives
  BY <1>2, Fields DEF Lives
<1>4. next # None => /\ next \in Records /\ next = [rec[X(c)] EXCEPT !.life = "ambiguous"]
                     /\ next = rec[X(c)] \/ ~Terminal(rec[X(c)].life)
  <2>1. next # None => /\ next \in Records /\ next = [rec[X(c)] EXCEPT !.life = "ambiguous"]
          /\ (rec[X(c)].life = "ambiguous" \/ CanAdvanceTo(rec[X(c)].life, "ambiguous"))
    BY <1>2, <1>3, ApplyLife
  <2>2. rec[X(c)].life = "ambiguous" => [rec[X(c)] EXCEPT !.life = "ambiguous"] = rec[X(c)]
    BY <1>2 DEF Records
  <2>3. CanAdvanceTo(rec[X(c)].life, "ambiguous") => ~Terminal(rec[X(c)].life)
    BY DEF CanAdvanceTo
  <2> HIDE DEF next
  <2> QED
    BY <2>1, <2>2, <2>3
<1> HIDE DEF next
<1>5. /\ faults' \in 0 .. MaxFaults /\ rec' \in [Execs -> Records \cup {None}]
      /\ rec'[X(c)] = rec[X(c)] \/ (next # None /\ rec'[X(c)] = next)
      /\ \A y \in Execs \ {X(c)} : rec'[y] = rec[y]
  BY <1>1, <1>2, <1>4, AdvanceDoes
<1>6. TypeOK'
  BY <1>1, <1>5, GotoGoes DEF IInv, TypeOK
<1>7. \/ rec'[X(c)] = rec[X(c)]
      \/ /\ rec'[X(c)] = [rec[X(c)] EXCEPT !.life = "ambiguous"] /\ ~Terminal(rec[X(c)].life)
  BY <1>4, <1>5
<1> QED
  BY <1>1, <1>5, <1>6, <1>7, AfterLaunchKeeps

\* A change of the binding that keeps what the leases need.
LEMMA BindKeeps ==
  ASSUME IInv, TypeOK', UNCHANGED <<rec, lease, ses, call, serve, procs, links, daemon>>,
         MaxEpoch \notin bind'.logged, \A e \in Epochs : lease[e] # None => Held(bind', e)
  PROVE  IInv'
<1>1. Talking'
  BY DEF IInv, Talking
<1>2. Recording'
  BY DEF IInv, Recording, Recorded, X
<1>3. Calling'
  BY DEF IInv, Calling, Called, X
<1>4. Leasing'
  BY DEF IInv, Leasing, Owner, X
<1>5. Booting'
  BY DEF IInv, Booting
<1> QED
  BY <1>1, <1>2, <1>3, <1>4, <1>5 DEF IInv

\* A handoff is logged, or it leaves an epoch that no lease needs: there is
\* none, or the handoff was logged before.
LEMMA HandoffMoves ==
  ASSUME IInv, bind.epoch < MaxEpoch,
         \/ bind' = Logged
         \/ bind' = Moved /\ bind.owner = "agent"
            /\ (lease[bind.epoch] = None \/ bind.epoch \in bind.logged)
  PROVE  /\ bind' \in [epoch : Epochs, owner : {"agent", "human"}, logged : SUBSET Epochs]
         /\ MaxEpoch \notin bind'.logged
         /\ \A e \in Epochs : lease[e] # None => Held(bind', e)
<1>1. /\ bind \in [epoch : Epochs, owner : {"agent", "human"}, logged : SUBSET Epochs]
      /\ bind.epoch \in 1 .. MaxEpoch /\ MaxEpoch \in Nat
  BY ContextAssumption DEF IInv, TypeOK, Epochs
<1>2. \A e \in Epochs : lease[e] # None => Held(bind, e)
  BY DEF IInv, Leasing
<1>3. MaxEpoch \notin bind.logged
  BY DEF IInv, Leasing
<1>4. CASE bind' = Logged
  <2>1. /\ bind' \in [epoch : Epochs, owner : {"agent", "human"}, logged : SUBSET Epochs]
        /\ bind'.epoch = bind.epoch /\ bind'.owner = bind.owner
        /\ bind'.logged = bind.logged \cup {bind.epoch}
    BY <1>1, <1>4 DEF Logged
  <2> QED
    BY <1>1, <1>2, <1>3, <2>1 DEF Held
<1>5. CASE bind' # Logged
  <2>1. bind.epoch + 1 \in Epochs
    BY <1>1, <1>5 DEF Epochs
  <2>2. /\ bind' \in [epoch : Epochs, owner : {"agent", "human"}, logged : SUBSET Epochs]
        /\ bind'.logged = bind.logged
    BY <1>1, <1>5, <2>1 DEF Moved
  <2> QED
    BY <1>2, <1>5, <1>3, <2>2 DEF Held
<1> QED
  BY <1>4, <1>5

\* The lease is looked at first: no lease is of the epoch that is left.
LEMMA HandOverKeeps ==
  ASSUME IInv, HandOver PROVE IInv'
<1>1. /\ CanHandOver /\ bind' \in {Moved, Logged} /\ faults' \in {faults, faults + 1}
      /\ faults' # faults => faults' <= MaxFaults
      /\ UNCHANGED <<rec, lease, ses, call, serve, procs, links, daemon, crashes>>
  BY DEF HandOver, Spend
<1>2. /\ bind' \in [epoch : Epochs, owner : {"agent", "human"}, logged : SUBSET Epochs]
      /\ MaxEpoch \notin bind'.logged
      /\ \A e \in Epochs : lease[e] # None => Held(bind', e)
  BY <1>1, HandoffMoves DEF CanHandOver
<1>3. faults' \in 0 .. MaxFaults
  BY <1>1, ContextAssumption DEF IInv, TypeOK
<1>4. TypeOK'
  BY <1>1, <1>2, <1>3 DEF IInv, TypeOK
<1> QED
  BY <1>1, <1>2, <1>4, BindKeeps

\* A pending handoff leaves room for its epoch.
LEMMA PendingHas ==
  ASSUME IInv, Pending
  PROVE  bind.epoch < MaxEpoch /\ bind.owner = "agent" /\ bind.epoch \in bind.logged
BY ContextAssumption DEF IInv, TypeOK, Leasing, Pending, Epochs

\* The handoff was logged before, so its epoch may be left with a lease in it.
LEMMA FinishHandOverKeeps ==
  ASSUME IInv, FinishHandOver PROVE IInv'
<1>1. /\ Pending /\ bind' = Moved
      /\ UNCHANGED <<rec, lease, ses, call, serve, procs, links, daemon, counts>>
  BY DEF FinishHandOver
<1>2. /\ bind' \in [epoch : Epochs, owner : {"agent", "human"}, logged : SUBSET Epochs]
      /\ MaxEpoch \notin bind'.logged
      /\ \A e \in Epochs : lease[e] # None => Held(bind', e)
  BY <1>1, PendingHas, HandoffMoves
<1>3. TypeOK'
  BY <1>1, <1>2 DEF IInv, TypeOK
<1> QED
  BY <1>1, <1>2, <1>3, BindKeeps

\* The owner is the human, so the leases are of epochs left by logged handoffs.
LEMMA HandBackKeeps ==
  ASSUME IInv, HandBack PROVE IInv'
<1> USE DEF HandBack
<1>1. /\ bind \in [epoch : Epochs, owner : {"agent", "human"}, logged : SUBSET Epochs]
      /\ bind.epoch \in 1 .. MaxEpoch /\ MaxEpoch \in Nat
  BY ContextAssumption DEF IInv, TypeOK, Epochs
<1>2. bind.epoch + 1 \in Epochs
  BY <1>1 DEF Epochs
<1>3. /\ bind' \in [epoch : Epochs, owner : {"agent", "human"}, logged : SUBSET Epochs]
      /\ bind'.logged = bind.logged
  BY <1>1, <1>2
<1>4. TypeOK'
  BY <1>3 DEF IInv, TypeOK
<1>5. MaxEpoch \notin bind'.logged /\ \A e \in Epochs : lease[e] # None => Held(bind', e)
  BY <1>3 DEF IInv, Leasing, Held
<1> QED
  BY <1>4, <1>5, BindKeeps

\* The daemon forgets its calls and connections; an execute frame that was sent
\* stays readable.
LEMMA CrashKeeps ==
  ASSUME IInv, Crash PROVE IInv'
<1>1. /\ crashes < MaxCrashes /\ crashes' = crashes + 1 /\ boot' = "down" /\ todo' = {}
      /\ call' = [c \in Calls |-> [call[c] EXCEPT !.pc = IF @ = "idle" THEN @ ELSE "done"]]
      /\ serve' = [c \in Calls |-> Off] /\ wire' = [c \in Calls |-> << >>]
      /\ bind' = bind \/ (CanHandOver /\ bind' = Logged)
      /\ UNCHANGED <<rec, lease, ses, helper, child, reply, faults>>
  BY DEF Crash
<1>2. /\ bind' \in [epoch : Epochs, owner : {"agent", "human"}, logged : SUBSET Epochs]
      /\ MaxEpoch \notin bind'.logged
      /\ \A e \in Epochs : lease[e] # None => Held(bind', e)
  <2>1. CASE bind' = bind
    BY <2>1 DEF IInv, TypeOK, Leasing
  <2>2. CASE CanHandOver /\ bind' = Logged
    BY <2>2, HandoffMoves DEF CanHandOver
  <2> QED
    BY <1>1, <2>1, <2>2
<1>3. \A c \in Calls : /\ call'[c] \in CallStates /\ call'[c].x = call[c].x
                       /\ call'[c].epoch = call[c].epoch
                       /\ call'[c].pc = IF call[c].pc = "idle" THEN "idle" ELSE "done"
  <2> SUFFICES ASSUME NEW c \in Calls
               PROVE  /\ call'[c] \in CallStates /\ call'[c].x = call[c].x
                      /\ call'[c].epoch = call[c].epoch
                      /\ call'[c].pc = IF call[c].pc = "idle" THEN "idle" ELSE "done"
    OBVIOUS
  <2>1. call[c] \in CallStates
    BY Typed
  <2>2. call'[c] = [call[c] EXCEPT !.pc = IF call[c].pc = "idle" THEN call[c].pc ELSE "done"]
    BY <1>1
  <2> QED
    BY <2>1, <2>2 DEF CallStates
<1>4. \A c \in Calls : serve'[c] = Off /\ serve'[c].pc = "off" /\ wire'[c] = << >>
  BY <1>1 DEF Off
<1>5. Off \in Serves /\ << >> \in Seq(Frames)
  BY DEF Off, Serves
<1>6. call' \in [Calls -> CallStates]
  BY <1>1, <1>3
<1>7. serve' \in [Calls -> Serves] /\ wire' \in [Calls -> Seq(Frames)]
  BY <1>1, <1>5
<1>8. crashes' \in 0 .. MaxCrashes
  BY <1>1, ContextAssumption DEF IInv, TypeOK
<1>9. TypeOK'
  BY <1>1, <1>6, <1>7, <1>8, <1>2 DEF IInv, TypeOK
<1>10. Talking'
  <2> SUFFICES ASSUME NEW c \in Calls
               PROVE  Talk(call'[c].pc, serve'[c], helper[c], child[c], wire'[c], reply[c])
    BY <1>1 DEF Talking
  <2>1. Talk(call[c].pc, serve[c], helper[c], child[c], wire[c], reply[c])
    BY Talks
  <2> QED
    BY <1>3, <1>4, <2>1 DEF Talk, Early
<1>11. Recording'
  <2> SUFFICES ASSUME NEW x \in Execs PROVE Recorded(x)'
    BY DEF Recording
  <2>1. Recorded(x)
    BY DEF IInv, Recording
  <2>2. CASE rec[x] # None /\ rec[x].helper # None
    <3>1. PICK d \in Calls : d = rec[x].helper
      BY <2>2, Fields DEF IInv, TypeOK
    <3>2. /\ X(d) = x /\ call[d].epoch = rec[x].epoch
          /\ Told(call[d].pc, serve[d], child[d], reply[d], rec[x], ses[x])
          /\ rec[x].life # "canonicalized" => lease[rec[x].epoch] = x
      BY <2>1, <2>2, <3>1 DEF Recorded
    <3>3. call'[d].pc = "done"
      BY <1>3, <3>2 DEF Told
    <3>4. Told(call'[d].pc, serve'[d], child[d], reply[d], rec[x], ses[x])
      BY <1>4, <3>2, <3>3, StageIs DEF Told
    <3>5. X(d)' = X(d) /\ call'[d].epoch = call[d].epoch
      BY <1>3 DEF X
    <3> QED
      BY <1>1, <2>1, <2>2, <3>1, <3>2, <3>4, <3>5 DEF Recorded
  <2>3. CASE ~(rec[x] # None /\ rec[x].helper # None)
    BY <1>1, <2>1, <2>3 DEF Recorded
  <2> QED
    BY <2>2, <2>3
<1>12. Calling'
  <2> SUFFICES ASSUME NEW c \in Calls PROVE Called(c)'
    BY DEF Calling
  <2>1. Called(c) /\ X(c)' = X(c)
    BY <1>3 DEF IInv, Calling, X
  <2> QED
    BY <1>1, <1>3, <1>4, <2>1 DEF Called
<1>13. Leasing'
  <2>1. \A c \in Calls : ~Owner(c)'
    BY <1>3, <1>4 DEF Owner
  <2> QED
    BY <1>1, <1>2, <2>1 DEF Leasing
<1>14. Booting'
  BY <1>1, <1>3, <1>4 DEF Booting
<1> QED
  BY <1>9, <1>10, <1>11, <1>12, <1>13, <1>14 DEF IInv

\* A step of the startup: no call is under way.
LEMMA BootKeeps ==
  ASSUME IInv, TypeOK', boot # "up", UNCHANGED <<call, serve, procs, links>>,
         MaxEpoch \notin bind'.logged, \A e \in Epochs : lease[e] # None => Held(bind', e),
         \A x \in Execs : /\ Recorded(x)'
                          /\ rec[x] # None => rec'[x] # None /\ rec'[x].helper = rec[x].helper,
         \A e \in Epochs : lease'[e] # None => lease'[e] = lease[e],
         \A x \in todo' : boot' = "reconcile" /\ rec'[x] # None
  PROVE  IInv'
<1>1. \A c \in Calls : call[c].pc \in {"idle", "done"} /\ serve[c].pc = "off"
  BY DEF IInv, Booting
<1>2. Talking'
  BY DEF IInv, Talking
<1>3. Recording'
  BY DEF Recording
<1>4. Calling'
  <2> SUFFICES ASSUME NEW c \in Calls PROVE Called(c)'
    BY DEF Calling
  <2>1. Called(c) /\ X(c)' = X(c)
    BY DEF IInv, Calling, X
  <2>2. helper[c].pc # "none" => call[c].pc # "idle"
    BY Talks DEF Talk, Early
  <2> QED
    BY <1>1, <2>1, <2>2 DEF Called
<1>5. Leasing'
  <2>1. \A c \in Calls : ~Owner(c)'
    BY <1>1 DEF Owner
  <2> QED
    BY <2>1 DEF Leasing
<1>6. Booting'
  BY <1>1 DEF Booting
<1> QED
  BY <1>2, <1>3, <1>4, <1>5, <1>6 DEF IInv

\* The same when the binding stays.
LEMMA BindStays ==
  ASSUME IInv, bind' = bind
  PROVE  MaxEpoch \notin bind'.logged /\ \A e \in Epochs : lease[e] # None => Held(bind', e)
BY DEF IInv, Leasing

\* A record that names a launch, seen by the startup.
LEMMA BootRecord ==
  ASSUME IInv, boot # "up", NEW x \in Execs, rec[x] # None, rec[x].helper # None
  PROVE  /\ rec[x] \in Records /\ rec[x].helper \in Calls
         /\ X(rec[x].helper) = x /\ call[rec[x].helper].epoch = rec[x].epoch
         /\ Told(call[rec[x].helper].pc, serve[rec[x].helper], child[rec[x].helper],
                 reply[rec[x].helper], rec[x], ses[x])
         /\ rec[x].life # "canonicalized" => lease[rec[x].epoch] = x
         /\ serve[rec[x].helper].pc = "off" /\ call[rec[x].helper].pc = "done"
<1>1. rec[x] \in Records /\ rec[x].helper \in Calls
  BY Fields DEF IInv, TypeOK
<1>2. /\ X(rec[x].helper) = x /\ call[rec[x].helper].epoch = rec[x].epoch
      /\ Told(call[rec[x].helper].pc, serve[rec[x].helper], child[rec[x].helper],
              reply[rec[x].helper], rec[x], ses[x])
      /\ rec[x].life # "canonicalized" => lease[rec[x].epoch] = x
  BY DEF IInv, Recording, Recorded
<1>3. call[rec[x].helper].pc \in {"arm", "shell", "fail", "done"}
  BY <1>2 DEF Told
<1>4. call[rec[x].helper].pc \in {"idle", "done"} /\ serve[rec[x].helper].pc = "off"
  BY <1>1 DEF IInv, Booting
<1> QED
  BY <1>1, <1>2, <1>3, <1>4

\* A receipt that was not there becomes the abandoned one; nothing else changes.
LEMMA SessionKeeps ==
  ASSUME IInv, boot # "up", NEW x \in Execs,
         UNCHANGED <<rec, lease, call, serve, procs, links>>,
         ses[x] = None <=> ses'[x] = None, ses[x] # None => ses'[x].log = ses[x].log,
         ses[x] # None => ses'[x].receipt = ses[x].receipt \/ ses'[x].receipt = "abandoned"
  PROVE  Recorded(x)'
<1>1. Recorded(x)
  BY DEF IInv, Recording
<1>2. Shown(rec[x], ses'[x])
  BY <1>1 DEF Recorded, Shown
<1>3. CASE rec[x] # None /\ rec[x].helper # None
  <2>1. PICK d \in Calls : d = rec[x].helper
    BY <1>3, BootRecord
  <2>2. /\ X(d) = x /\ call[d].epoch = rec[x].epoch
        /\ Told(call[d].pc, serve[d], child[d], reply[d], rec[x], ses[x])
        /\ rec[x].life # "canonicalized" => lease[rec[x].epoch] = x
        /\ serve[d].pc = "off"
    BY <1>3, <2>1, BootRecord
  <2>3. Told(call[d].pc, serve[d], child[d], reply[d], rec[x], ses'[x])
    BY <2>2, StageIs DEF Told
  <2>4. X(d)' = X(d)
    BY DEF X
  <2> QED
    BY <1>2, <1>3, <2>1, <2>2, <2>3, <2>4 DEF Recorded
<1>4. CASE ~(rec[x] # None /\ rec[x].helper # None)
  BY <1>1, <1>2, <1>4 DEF Recorded
<1> QED
  BY <1>3, <1>4

\* A new incarnation owns no session.
LEMMA RestartKeeps ==
  ASSUME IInv, Restart PROVE IInv'
<1> USE DEF Restart
<1>1. \A x \in Execs : /\ ses'[x] \in Sessions \cup {None}
                       /\ ses[x] = None <=> ses'[x] = None
                       /\ ses[x] # None => ses'[x].log = ses[x].log
                                           /\ ses'[x].receipt = ses[x].receipt
  <2> SUFFICES ASSUME NEW x \in Execs
               PROVE  /\ ses'[x] \in Sessions \cup {None}
                      /\ ses[x] = None <=> ses'[x] = None
                      /\ ses[x] # None => ses'[x].log = ses[x].log
                                          /\ ses'[x].receipt = ses[x].receipt
    OBVIOUS
  <2>1. ses'[x] = IF ses[x] = None THEN None ELSE [ses[x] EXCEPT !.mine = FALSE]
    OBVIOUS
  <2>2. ses[x] \in Sessions \cup {None}
    BY DEF IInv, TypeOK
  <2>3. CASE ses[x] = None
    BY <2>1, <2>3
  <2>4. CASE ses[x] \in Sessions /\ ses[x] # None
    <3>1. [ses[x] EXCEPT !.mine = FALSE] \in Sessions
      BY <2>4 DEF Sessions
    <3> QED
      BY <2>1, <2>4, <3>1, NoneIsNothing DEF Sessions
  <2> QED
    BY <2>2, <2>3, <2>4
<1>2. ses' \in [Execs -> Sessions \cup {None}]
  BY <1>1
<1>3. TypeOK'
  BY <1>2 DEF IInv, TypeOK
<1>4. \A x \in Execs : Recorded(x)'
  BY <1>1, SessionKeeps
<1>5. todo = {}
  BY DEF IInv, Booting
<1> QED
  BY <1>3, <1>4, <1>5, BindStays, BootKeeps

\* Sessions without a receipt get the abandoned one.
LEMMA AbandonKeeps ==
  ASSUME IInv, Abandon PROVE IInv'
<1> USE DEF Abandon
<1>1. \A x \in Execs : /\ ses'[x] \in Sessions \cup {None}
                       /\ ses[x] = None <=> ses'[x] = None
                       /\ ses[x] # None =>
                            /\ ses'[x].log = ses[x].log
                            /\ ses'[x].receipt = ses[x].receipt \/ ses'[x].receipt = "abandoned"
  <2> SUFFICES ASSUME NEW x \in Execs
               PROVE  /\ ses'[x] \in Sessions \cup {None}
                      /\ ses[x] = None <=> ses'[x] = None
                      /\ ses[x] # None =>
                           /\ ses'[x].log = ses[x].log
                           /\ ses'[x].receipt = ses[x].receipt \/ ses'[x].receipt = "abandoned"
    OBVIOUS
  <2>1. ses'[x] = IF ses[x] # None /\ ses[x].receipt = None
                  THEN [ses[x] EXCEPT !.receipt = "abandoned"] ELSE ses[x]
    OBVIOUS
  <2>2. ses[x] \in Sessions \cup {None}
    BY DEF IInv, TypeOK
  <2>3. CASE ses'[x] = ses[x]
    BY <2>2, <2>3
  <2>4. CASE ses'[x] # ses[x]
    <3>1. ses[x] \in Sessions /\ ses'[x] = [ses[x] EXCEPT !.receipt = "abandoned"]
      BY <2>1, <2>2, <2>4
    <3>2. [ses[x] EXCEPT !.receipt = "abandoned"] \in Sessions
      BY <3>1 DEF Sessions, Receipts
    <3> QED
      BY <3>1, <3>2, NoneIsNothing DEF Sessions
  <2> QED
    BY <2>3, <2>4
<1>2. ses' \in [Execs -> Sessions \cup {None}]
  BY <1>1
<1>3. todo' \subseteq Execs /\ \A x \in todo' : rec[x] # None
  BY DEF Candidates
<1>4. /\ bind' \in [epoch : Epochs, owner : {"agent", "human"}, logged : SUBSET Epochs]
      /\ MaxEpoch \notin bind'.logged
      /\ \A e \in Epochs : lease[e] # None => Held(bind', e)
  <2>1. CASE Pending
    BY <2>1, PendingHas, HandoffMoves
  <2>2. CASE ~Pending
    BY <2>2 DEF IInv, TypeOK, Leasing
  <2> QED
    BY <2>1, <2>2
<1>5. TypeOK'
  BY <1>2, <1>3, <1>4 DEF IInv, TypeOK
<1>6. \A x \in Execs : Recorded(x)'
  BY <1>1, SessionKeeps
<1> QED
  BY <1>3, <1>5, <1>6, <1>4, BootKeeps

\* Recovery writes a life that keeps the lease and claims no result.
LEMMA ReconcileKeeps ==
  ASSUME IInv, NEW x \in Execs, NEW r, Reconcile(x, r) PROVE IInv'
<1> PICK life : life = Reconciled(rec[x])
  OBVIOUS
<1>1. /\ boot = "reconcile" /\ x \in todo /\ Write(r)
      /\ rec[x].life \notin {"child_terminal", "canonicalized"}
      /\ rec' = IF Written(r) THEN [rec EXCEPT ![x].life = life] ELSE rec
      /\ \/ todo' = todo \ {x} /\ boot' = boot
         \/ todo' = {} /\ boot' = "down"
      /\ UNCHANGED <<lease, ses, bind, call, serve, procs, links, crashes>>
  BY DEF Reconcile
<1>2. rec[x] # None /\ rec[x] \in Records /\ rec \in [Execs -> Records \cup {None}]
  BY <1>1 DEF IInv, TypeOK, Booting
<1>3. /\ life \in Lives \ {"child_terminal", "canonicalized"}
      /\ rec[x].life = "reserved" <=> life = "reserved"
  BY <1>1, <1>2, Fields DEF Reconciled, Lives
<1> PICK q : q = [rec[x] EXCEPT !.life = life]
  OBVIOUS
<1>4. /\ q \in Records /\ q.life = life /\ q.helper = rec[x].helper /\ q.epoch = rec[x].epoch
      /\ q.auth = rec[x].auth /\ q.res = rec[x].res /\ q # None
  BY <1>2, <1>3, NoneIsNothing DEF Records
<1>5. /\ rec' \in [Execs -> Records \cup {None}] /\ \A y \in Execs \ {x} : rec'[y] = rec[y]
      /\ rec'[x] = rec[x] \/ rec'[x] = q
  <2>1. CASE rec' = rec
    BY <1>2, <2>1
  <2>2. CASE rec' = [rec EXCEPT ![x] = q]
    BY <1>2, <1>4, <2>2
  <2> QED
    BY <1>1, <2>1, <2>2
<1>6. TypeOK'
  BY <1>1, <1>5, WriteCounts DEF IInv, TypeOK
<1>7. boot # "up"
  BY <1>1
<1>8. ASSUME NEW y \in Execs, rec'[y] = rec[y] PROVE Recorded(y)'
  <2>1. Recorded(y)
    BY DEF IInv, Recording
  <2>2. \A d \in Calls : X(d)' = X(d)
    BY <1>1 DEF X
  <2> QED
    BY <1>1, <1>8, <2>1, <2>2 DEF Recorded, X
<1>9. ASSUME rec'[x] = q PROVE Recorded(x)'
  <2>1. Recorded(x)
    BY DEF IInv, Recording
  <2>2. Shown(q, ses[x])
    BY <1>1, <2>1 DEF Recorded, Shown
  <2>3. CASE rec[x].helper # None
    <3>1. PICK d \in Calls : d = rec[x].helper
      BY <1>2, <1>7, <2>3, BootRecord
    <3>2. /\ X(d) = x /\ call[d].epoch = rec[x].epoch
          /\ Told(call[d].pc, serve[d], child[d], reply[d], rec[x], ses[x])
          /\ rec[x].life # "canonicalized" => lease[rec[x].epoch] = x
          /\ serve[d].pc = "off" /\ call[d].pc = "done"
      BY <1>2, <1>7, <2>3, <3>1, BootRecord
    <3>3. Told(call[d].pc, serve[d], child[d], reply[d], q, ses[x])
      BY <1>1, <1>3, <1>4, <3>2, StageIs DEF Told
    <3>4. X(d)' = X(d)
      BY <1>1 DEF X
    <3> QED
      BY <1>1, <1>4, <1>9, <2>2, <2>3, <3>1, <3>2, <3>3, <3>4 DEF Recorded
  <2>4. CASE rec[x].helper = None
    BY <1>1, <1>2, <1>3, <1>4, <1>9, <2>1, <2>2, <2>4 DEF Recorded
  <2> QED
    BY <2>3, <2>4
<1>10. \A y \in Execs : /\ Recorded(y)'
                        /\ rec[y] # None => rec'[y] # None /\ rec'[y].helper = rec[y].helper
  <2>1. ASSUME NEW y \in Execs, rec'[y] = rec[y]
        PROVE  /\ Recorded(y)'
               /\ rec[y] # None => rec'[y] # None /\ rec'[y].helper = rec[y].helper
    BY <1>8, <2>1
  <2>2. ASSUME rec'[x] = q
        PROVE  /\ Recorded(x)'
               /\ rec[x] # None => rec'[x] # None /\ rec'[x].helper = rec[x].helper
    BY <1>4, <1>9, <2>2
  <2> QED
    BY <1>5, <2>1, <2>2
<1>11. \A y \in todo' : boot' = "reconcile" /\ rec'[y] # None
  BY <1>1, <1>10 DEF IInv, Booting, TypeOK
<1>12. UNCHANGED <<bind, call, serve, procs, links>> /\ lease' = lease
  BY <1>1
<1> QED
  BY <1>6, <1>7, <1>10, <1>11, <1>12, BindStays, BootKeeps

\* Recovery finishes what has a result: the receipt is that of the record, and
\* the lease goes.
LEMMA RecoverKeeps ==
  ASSUME IInv, NEW x \in Execs, Recover(x) PROVE IInv'
<1> DEFINE proven == rec[x].res # NoChild
           ok == proven => /\ Matches(x) /\ ses[x].log = rec[x].res.out
                           /\ ses[x].receipt \in {None, Outcome(rec[x].res)}
<1>1. /\ boot = "reconcile" /\ x \in todo /\ boot # "up"
      /\ rec[x].life \in {"child_terminal", "canonicalized"}
      /\ UNCHANGED <<bind, call, serve, procs, links, counts>>
  BY DEF Recover
<1>2. rec[x] # None /\ rec[x] \in Records /\ rec \in [Execs -> Records \cup {None}]
      /\ ses \in [Execs -> Sessions \cup {None}] /\ lease \in [Epochs -> Execs \cup {None}]
  BY <1>1 DEF IInv, TypeOK, Booting
<1>3. rec[x].helper # None /\ Recorded(x)
  BY <1>1, <1>2 DEF IInv, Recording, Recorded
<1>4. PICK d \in Calls : d = rec[x].helper
  BY <1>1, <1>2, <1>3, BootRecord
<1>5. /\ X(d) = x /\ call[d].epoch = rec[x].epoch
      /\ Told(call[d].pc, serve[d], child[d], reply[d], rec[x], ses[x])
      /\ serve[d].pc = "off" /\ call[d].pc = "done"
  BY <1>1, <1>2, <1>3, <1>4, BootRecord
<1>6. /\ rec[x].res \in Truths
      /\ ~proven => rec[x].life = "canonicalized"
  <2>1. rec[x].res # None /\ rec[x].res \in Truths
    BY <1>1, <1>2, <1>5, Fields DEF Told
  <2>2. ASSUME rec[x].res = NoChild PROVE ~Tells(rec[x].res, child[d])
    BY <2>2 DEF Tells, NoChild, Ends
  <2> QED
    BY <1>5, <2>1, <2>2 DEF Told
<1>7. ASSUME NEW y \in Execs, rec'[y] = rec[y], ses'[y] = ses[y],
             \A e \in Epochs : lease[e] = y => lease'[e] = y
      PROVE  Recorded(y)'
  <2>1. Recorded(y)
    BY DEF IInv, Recording
  <2>2. CASE rec[y] # None /\ rec[y].helper # None
    <3>1. PICK b \in Calls : b = rec[y].helper
      BY <1>1, <2>2, BootRecord
    <3>2. /\ X(b) = y /\ call[b].epoch = rec[y].epoch /\ rec[y].epoch \in Epochs
          /\ Told(call[b].pc, serve[b], child[b], reply[b], rec[y], ses[y])
          /\ rec[y].life # "canonicalized" => lease[rec[y].epoch] = y
      BY <1>1, <2>2, <3>1, BootRecord, Fields
    <3>3. X(b)' = X(b)
      BY <1>1 DEF X
    <3> QED
      BY <1>1, <1>7, <2>1, <2>2, <3>1, <3>2, <3>3 DEF Recorded
  <2>3. CASE ~(rec[y] # None /\ rec[y].helper # None)
    BY <1>7, <2>1, <2>3 DEF Recorded
  <2> QED
    BY <2>2, <2>3
<1>8. CASE ~ok
  <2>1. todo' = {} /\ boot' = "down" /\ UNCHANGED <<rec, ses, lease>>
    BY <1>8 DEF Recover
  <2>2. TypeOK'
    BY <1>1, <2>1 DEF IInv, TypeOK
  <2>3. \A y \in Execs : Recorded(y)'
    BY <1>7, <2>1
  <2> QED
    BY <1>1, <2>1, <2>2, <2>3, BindStays, BootKeeps
<1>9. CASE ok
  <2>1. /\ rec' = [rec EXCEPT ![x].life = "canonicalized"]
        /\ ses' = IF proven THEN [ses EXCEPT ![x].receipt = Outcome(rec[x].res)] ELSE ses
        /\ lease' = [lease EXCEPT ![rec[x].epoch] = IF @ = x THEN None ELSE @]
        /\ todo' = todo \ {x} /\ boot' = boot
    BY <1>9 DEF Recover
  <2> PICK q : q = [rec[x] EXCEPT !.life = "canonicalized"]
    OBVIOUS
  <2> PICK n : n = [ses[x] EXCEPT !.receipt = Outcome(rec[x].res)]
    OBVIOUS
  <2>2. /\ q \in Records /\ q.life = "canonicalized" /\ q.helper = rec[x].helper
        /\ q.epoch = rec[x].epoch /\ q.auth = rec[x].auth /\ q.res = rec[x].res /\ q # None
        /\ rec[x].epoch \in Epochs
    BY <1>2, NoneIsNothing DEF Records, Lives
  <2>3. rec' = [rec EXCEPT ![x] = q]
    BY <2>1
  <2>4. proven => /\ n \in Sessions /\ n.receipt = Outcome(rec[x].res) /\ n # None
                  /\ n.log = rec[x].res.out /\ ses[x] # None
    <3>1. Outcome(rec[x].res) \in Receipts
      BY DEF Outcome, Receipts
    <3>2. proven => ses[x] \in Sessions /\ ses[x] # None /\ ses[x].log = rec[x].res.out
      BY <1>2, <1>9 DEF Matches
    <3> QED
      BY <3>1, <3>2, NoneIsNothing DEF Sessions
  <2>5. /\ ses' \in [Execs -> Sessions \cup {None}] /\ \A y \in Execs \ {x} : ses'[y] = ses[y]
        /\ ses'[x] = IF proven THEN n ELSE ses[x]
    <3>1. CASE proven
      <4>1. ses' = [ses EXCEPT ![x] = n]
        BY <2>1, <3>1
      <4> QED
        BY <1>2, <2>4, <3>1, <4>1
    <3>2. CASE ~proven
      BY <1>2, <2>1, <3>2
    <3> QED
      BY <3>1, <3>2
  <2>6. /\ rec' \in [Execs -> Records \cup {None}] /\ rec'[x] = q
        /\ \A y \in Execs \ {x} : rec'[y] = rec[y]
    BY <1>2, <2>2, <2>3
  <2>7. /\ lease' \in [Epochs -> Execs \cup {None}]
        /\ \A e \in Epochs : lease'[e] # None => lease'[e] = lease[e]
        /\ \A e \in Epochs, y \in Execs \ {x} : lease[e] = y => lease'[e] = y
    BY <1>2, <2>1, <2>2
  <2>8. TypeOK'
    BY <1>1, <2>1, <2>5, <2>6, <2>7 DEF IInv, TypeOK
  <2>9. Shown(q, ses'[x])
    <3>1. CASE proven
      BY <1>6, <2>2, <2>4, <2>5, <3>1 DEF Shown
    <3>2. CASE ~proven
      <4>1. Shown(rec[x], ses[x])
        BY <1>3 DEF Recorded
      <4> QED
        BY <2>2, <2>5, <3>2, <4>1 DEF Shown
    <3> QED
      BY <3>1, <3>2
  <2>10. Told(call[d].pc, serve[d], child[d], reply[d], q, ses'[x])
    <3>1. /\ q.life = "canonicalized" /\ q.auth = rec[x].auth /\ q.res = rec[x].res
          /\ serve[d].pc = "off" /\ call[d].pc = "done" /\ "off" \notin DOMAIN Stage
          /\ ses[x] # None => ses'[x] # None
      BY <1>5, <2>2, <2>4, <2>5 DEF Stage
    <3>2. rec[x].res # None
      BY <1>1, <1>5 DEF Told
    <3> QED
      BY <1>5, <3>1, <3>2 DEF Told
  <2>11. Recorded(x)'
    <3>1. X(d)' = X(d)
      BY <1>1 DEF X
    <3> QED
      BY <1>1, <1>3, <1>4, <1>5, <2>2, <2>6, <2>9, <2>10, <3>1 DEF Recorded
  <2>12. \A y \in Execs : /\ Recorded(y)'
                          /\ rec[y] # None => rec'[y] # None /\ rec'[y].helper = rec[y].helper
    <3>1. ASSUME NEW y \in Execs \ {x} PROVE Recorded(y)' /\ rec'[y] = rec[y]
      BY <1>7, <2>5, <2>6, <2>7
    <3>2. rec'[x] # None /\ rec'[x].helper = rec[x].helper
      BY <2>2, <2>6
    <3> QED
      BY <2>11, <3>1, <3>2
  <2>13. \A y \in todo' : boot' = "reconcile" /\ rec'[y] # None
    BY <1>1, <2>1, <2>12 DEF IInv, Booting, TypeOK
  <2> QED
    BY <1>1, <2>7, <2>8, <2>12, <2>13, BindStays, BootKeeps
<1> QED
  BY <1>8, <1>9

\* The daemon is up when nothing is left to recover.
LEMMA MarkReadyKeeps ==
  ASSUME IInv, MarkReady PROVE IInv'
<1> USE DEF MarkReady
<1>1. TypeOK'
  BY DEF IInv, TypeOK
<1>2. Talking' /\ Calling' /\ Leasing'
  BY DEF IInv, Talking, Calling, Called, Leasing, Owner, X
<1>3. Recording'
  BY DEF IInv, Recording, Recorded, X
<1>4. Booting'
  BY DEF Booting
<1> QED
  BY <1>1, <1>2, <1>3, <1>4 DEF IInv

\* The initial state.
LEMMA InitHolds ==
  ASSUME Init PROVE IInv
<1> USE DEF Init
<1>1. Asleep \in Helpers /\ Off \in Serves /\ NotStarted \in Children /\ << >> \in Seq(Frames)
  BY DEF Asleep, Helpers, Off, Serves, NotStarted, Children
<1>2. 1 \in Epochs /\ [pc |-> "idle", x |-> None, epoch |-> 0] \in CallStates
  BY ContextAssumption DEF Epochs, CallStates
<1>3. TypeOK
  BY <1>1, <1>2, ContextAssumption DEF TypeOK
<1>4. \A c \in Calls : /\ call[c].pc = "idle" /\ serve[c].pc = "off" /\ helper[c].pc = "none"
                       /\ child[c].st = "none" /\ wire[c] = << >> /\ reply[c] = "none"
                       /\ helper[c].sent = child[c].made
  BY DEF Off, Asleep, NotStarted
<1>5. Talking
  BY <1>4 DEF Talking, Talk
<1>6. Recording
  BY DEF Recording, Recorded, Shown
<1>7. Calling
  BY <1>4 DEF Calling, Called
<1>8. Leasing
  BY <1>4 DEF Leasing, Owner
<1>9. Booting
  BY DEF Booting
<1> QED
  BY <1>3, <1>5, <1>6, <1>7, <1>8, <1>9 DEF IInv

\* A step that changes nothing.
LEMMA StutterKeeps ==
  ASSUME IInv, UNCHANGED vars PROVE IInv'
<1> USE DEF vars
<1>1. TypeOK'
  BY DEF IInv, TypeOK
<1>2. Talking' /\ Calling' /\ Leasing'
  BY DEF IInv, Talking, Calling, Called, Leasing, Owner, X
<1>3. Recording'
  BY DEF IInv, Recording, Recorded, X
<1>4. Booting'
  BY DEF IInv, Booting
<1> QED
  BY <1>1, <1>2, <1>3, <1>4 DEF IInv

\* Every step keeps the invariant.
LEMMA NextKeeps ==
  ASSUME IInv, [Next]_vars PROVE IInv'
<1>1. ASSUME NEW c \in Calls, CallStep(c) PROVE IInv'
  BY <1>1, ReserveKeeps, AcquireKeeps, RequestKeeps, GiveUpKeeps, DeclareAmbiguousKeeps,
     RefuseKeeps, ArmKeeps, ArmedKeeps, ArmFailsKeeps DEF CallStep
<1>2. ASSUME NEW c \in Calls, HelperStep(c) PROVE IInv'
  BY <1>2, HelperLeavesKeeps, PrepareKeeps, SpawnKeeps, SpawnFailsKeeps, ReportKeeps,
     ReportTerminalKeeps DEF HelperStep
<1>3. ASSUME NEW c \in Calls, ServeStep(c) PROVE IInv'
  BY <1>3, ClaimKeeps, ReserveChildKeeps, ChildReservedKeeps, AuthorizeKeeps,
     NoChildFailureKeeps, RecordSpawnKeeps, PersistOutputKeeps, RecordTerminalKeeps,
     PublishKeeps, ReleaseLeaseKeeps, HangupKeeps, ReceiveKeeps DEF ServeStep
<1>4. ASSUME BootStep PROVE IInv'
  BY <1>4, RestartKeeps, AbandonKeeps, MarkReadyKeeps, ReconcileKeeps, RecoverKeeps
  DEF BootStep
<1>5. CASE Next
  BY <1>1, <1>2, <1>3, <1>4, <1>5, HelperDiesKeeps, OutputKeeps, ChildExitsKeeps,
     KillGroupKeeps, ExecuteKeeps, HandOverKeeps, FinishHandOverKeeps, HandBackKeeps,
     CrashKeeps DEF Next
<1>6. CASE UNCHANGED vars
  BY <1>6, StutterKeeps
<1> QED
  BY <1>5, <1>6

\* The inductive invariant holds throughout.
THEOREM InvariantHolds == Spec => []IInv
<1>1. Init => IInv
  BY InitHolds
<1>2. IInv /\ [Next]_vars => IInv'
  BY NextKeeps
<1> QED
  BY <1>1, <1>2, PTL DEF Spec

\* A launch whose child was spawned has its record, its authority and its session.
LEMMA SpawnedHas ==
  ASSUME IInv, NEW c \in Calls, Spawned(c)
  PROVE  /\ X(c) \in Execs /\ rec[X(c)] # None /\ rec[X(c)].helper = c /\ rec[X(c)].auth
         /\ ses[X(c)] # None /\ call[c].epoch \in Epochs /\ call[c].epoch = rec[X(c)].epoch
         /\ Shown(rec[X(c)], ses[X(c)])
         /\ rec[X(c)].life # "canonicalized" => lease[call[c].epoch] = X(c)
         /\ rec[X(c)].res # None => Tells(rec[X(c)].res, child[c])
         /\ rec[X(c)].life = "canonicalized" => rec[X(c)].res # None
<1>1. helper[c].pc # "none"
  BY Talks DEF Talk, Spawned
<1>2. /\ X(c) \in Execs /\ rec[X(c)] # None /\ rec[X(c)].helper = c
      /\ call[c].epoch \in Epochs /\ call[c].epoch = rec[X(c)].epoch
      /\ Told(call[c].pc, serve[c], child[c], reply[c], rec[X(c)], ses[X(c)])
      /\ Shown(rec[X(c)], ses[X(c)])
      /\ rec[X(c)].life # "canonicalized" => lease[rec[X(c)].epoch] = X(c)
  BY <1>1, Launched
<1> QED
  BY <1>2 DEF Told, Spawned

\* A context_exec_id runs at most one child, and only under a record that names
\* its launch and was authorized before, however calls, lost answers, stops of
\* the daemon and late frames fall.
THEOREM OneChild == Spec => []ChildRunsOnce
<1>1. ASSUME IInv PROVE ChildRunsOnce
  BY <1>1, SpawnedHas DEF ChildRunsOnce
<1> QED
  BY <1>1, InvariantHolds, PTL

\* While a context child runs, the session belongs to the agent in the epoch of
\* the request, through stops of daemon and helper, unless a handoff had been
\* logged to leave that epoch before: only its replay passes the lease by.
THEOREM NoTransferUnderChild == Spec => []TransferWaitsForChild
<1>1. ASSUME IInv PROVE TransferWaitsForChild
  <2> SUFFICES ASSUME NEW c \in Calls, child[c].st = "running"
               PROVE  Held(bind, call[c].epoch)
    BY DEF TransferWaitsForChild, Held
  <2>1. Spawned(c)
    BY DEF Spawned
  <2>2. rec[X(c)].life # "canonicalized"
    BY <1>1, <2>1, SpawnedHas DEF Tells, Ends
  <2>3. lease[call[c].epoch] = X(c) /\ X(c) # None /\ call[c].epoch \in Epochs
    BY <1>1, <2>1, <2>2, SpawnedHas, NoneIsNothing
  <2> QED
    BY <1>1, <2>3 DEF IInv, Leasing
<1> QED
  BY <1>1, InvariantHolds, PTL

\* A receipt that is not the abandoned one tells what the child did: it is
\* over, its record is canonicalized, the log holds the bytes counted, and
\* success means exit zero with everything the child wrote.
THEOREM ReceiptsAreTrue == Spec => []ReceiptIsTrue
<1>1. ASSUME IInv PROVE ReceiptIsTrue
  <2> SUFFICES ASSUME NEW c \in Calls, Spawned(c),
                      ses[X(c)].receipt \in Receipts \ {"abandoned"}
               PROVE  /\ child[c].st \in Ends /\ rec[X(c)].life = "canonicalized"
                      /\ rec[X(c)].res.end = child[c].st /\ ses[X(c)].log = rec[X(c)].res.out
                      /\ ses[X(c)].receipt = "completed" =>
                           child[c].st = "zero" /\ ses[X(c)].log = child[c].made
    BY DEF ReceiptIsTrue
  <2>1. /\ rec[X(c)].life = "canonicalized" /\ ses[X(c)].log = rec[X(c)].res.out
        /\ ses[X(c)].receipt = Outcome(rec[X(c)].res)
    BY <1>1, SpawnedHas DEF Shown
  <2>2. Tells(rec[X(c)].res, child[c])
    BY <1>1, <2>1, SpawnedHas
  <2> QED
    BY <2>1, <2>2 DEF Tells, Outcome
<1> QED
  BY <1>1, InvariantHolds, PTL
=============================================================================
