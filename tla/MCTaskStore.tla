---------------------------- MODULE MCTaskStore ----------------------------
(* Small instances of TaskStore for TLC. *)
EXTENDS TaskStore, TLC

\* Nothing distinguishes one task id from another, nor one worker id.
Interchangeable == Permutations(Task) \cup Permutations(Worker)
=============================================================================
