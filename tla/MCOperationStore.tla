------------------------- MODULE MCOperationStore -------------------------
(* Instances of OperationStore for TLC.  Operation and session ids are     *)
(* interchangeable, so both are symmetric.                                 *)
EXTENDS OperationStore, TLC

IdSymmetry == Permutations(Ops) \cup Permutations(Sessions)
=============================================================================
