--------------------------- MODULE MCTaskParameters ---------------------------
(* Small instances of TaskParameters for TLC. *)
EXTENDS TaskParameters, TLC

CONSTANTS v1, v2

\* "" is not one of the interchangeable values.
ModelValues == {EmptyText, v1, v2}
Interchangeable == Permutations(Worker) \cup Permutations({v1, v2})
=============================================================================
