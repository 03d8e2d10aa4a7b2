---------------------------- MODULE MCActivityLog ----------------------------
(* Small instances of ActivityLog for TLC. *)
EXTENDS ActivityLog, TLC

Interchangeable == Permutations(Worker)
=============================================================================
