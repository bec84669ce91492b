------------------------- MODULE ExecutionContract -------------------------
(***************************************************************************)
(* What Start, poll and retry promise a client, with no disk, daemon or    *)
(* crash in sight.  An operation id may be tried under several session     *)
(* ids, but one of them at most runs the command, at most once; a client   *)
(* is given at most one answer about a session, the answer never changes,  *)
(* and an answer that claims an exit is only given for a session that ran. *)
(* The promise ends for a session that the service has released: its       *)
(* history was removed, or was never safely stored.                        *)
(***************************************************************************)
CONSTANTS Ops, Sessions, None, Verdicts

VARIABLES opOf,    \* the operation a session was drawn for, or None
          ran,     \* the sessions whose command was started
          verdict, \* the terminal answer clients have been given, or None
          released \* the sessions nothing is promised of any more

contract == <<opOf, ran, verdict, released>>

ContractInit ==
  /\ opOf = [s \in Sessions |-> None]
  /\ ran = {}
  /\ verdict = [s \in Sessions |-> None]
  /\ released = {}

\* An operation is tried under a fresh session.
Reserve(o, s) ==
  /\ opOf[s] = None
  /\ opOf' = [opOf EXCEPT ![s] = o]
  /\ UNCHANGED <<ran, verdict, released>>

\* The command starts: never twice for one operation, and never after the
\* client was told how the session ended.
Run(s) ==
  /\ opOf[s] # None /\ verdict[s] = None
  /\ \A t \in ran : opOf[t] # opOf[s] \/ {s, t} \cap released # {}
  /\ ran' = ran \cup {s}
  /\ UNCHANGED <<opOf, verdict, released>>

\* Answers that do not prove an exit: a failed start and an unresolved one.
Inconclusive == {"failed", "abandoned"}

\* The client is told how the session ended.
Answer(s, v) ==
  /\ opOf[s] # None /\ (verdict[s] = None \/ s \in released)
  /\ v \in Inconclusive \/ s \in ran
  /\ verdict' = [verdict EXCEPT ![s] = v]
  /\ UNCHANGED <<opOf, ran, released>>

\* The history of the session is gone, or may go.
Release(s) ==
  /\ released' = released \cup {s}
  /\ UNCHANGED <<opOf, ran, verdict>>

ContractNext ==
  \E s \in Sessions : \/ \E o \in Ops : Reserve(o, s)
                      \/ Run(s) \/ Release(s)
                      \/ \E v \in Verdicts : Answer(s, v)

ContractSpec == ContractInit /\ [][ContractNext]_contract
=============================================================================
