--------------------------- MODULE MC_JobManager ---------------------------
(* Small instances of JobManager for TLC. *)
EXTENDS JobManager, TLC

Symmetry == Permutations(Workers) \cup Permutations(Requests)
=============================================================================
