---------------------------- MODULE MCWorkerSystem ----------------------------
(* Small instances of WorkerSystem for TLC. *)
EXTENDS WorkerSystem, TLC

\* The two processes were started with the same -id.
SharedId == [p \in Process |-> CHOOSE w \in Worker : TRUE]
=============================================================================
