-------------------------- MODULE MCAdmissionIndex --------------------------
(* Instances of AdmissionIndex for TLC: session ids and writers are        *)
(* interchangeable.                                                        *)
EXTENDS AdmissionIndex, TLC

Ids == Permutations(Sessions) \cup Permutations(Writers)
=============================================================================
