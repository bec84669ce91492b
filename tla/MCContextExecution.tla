------------------------ MODULE MCContextExecution ------------------------
(* Instances of ContextExecution for TLC: calls and context_exec_ids are   *)
(* interchangeable.                                                        *)
EXTENDS ContextExecution, TLC

CallSymmetry == Permutations(Calls) \cup Permutations(Execs)
=============================================================================
