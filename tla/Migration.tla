------------------------------ MODULE Migration ------------------------------
(***************************************************************************)
(* How the database gets its schema: every server and every worker starts  *)
(* with store.Open and Store.Migrate (internal/store/store.go), which      *)
(* applies the files of internal/store/migrations one after the other      *)
(* under an advisory lock. The database is new, or holds tasks of the      *)
(* first file's schema; the table is used, by TaskStore's transactions, as *)
(* soon as somebody serves.                                                *)
(*                                                                         *)
(* A statement of Migrate is an action. Between two of them the process    *)
(* can die (its session, and the lock with it, lives on until PostgreSQL   *)
(* notices), or a statement can fail, the unlock too. compose restarts     *)
(* what has stopped.                                                       *)
(***************************************************************************)
EXTENDS TaskStore

CONSTANTS
  Starter,      \* the processes that open the database
  MigrateOnly,  \* those that stop once the schema is there: -migrate-only
  Nobody,       \* the advisory lock is free
  DeadSession,  \* it is held by a session that no process uses any more
  MaxFaults     \* bound on crashes and errors

ASSUME MigrationConstants ==
  /\ MigrateOnly \subseteq Starter
  /\ Nobody # DeadSession
  /\ {Nobody, DeadSession} \cap Starter = {}
  /\ MaxFaults \in Nat

VARIABLES
  pc,         \* where each process is
  file,       \* the loop variable of Migrate, by number
  lock,       \* the session that holds pg_advisory_lock
  schema,     \* the files whose statements are committed
  ledger,     \* schema_migrations
  faults,     \* how many things went wrong
  old_status  \* history: the status of each task under the first schema

migrationVars == <<vars, pc, file, lock, schema, ledger, faults, old_status>>
database == <<schema, ledger, old_status>>

\* 001_init.sql and 002_operations.sql
File == 1..2
Where == {"down", "waiting", "checking", "applying", "recording", "committing",
          "unlocking", "failing", "serving", "stopped"}
OldStatus == {"absent", "pending", "claimed", "running", "done", "failed"}

MigrationTypeOK ==
  /\ TypeOK
  /\ pc \in [Starter -> Where]
  /\ file \in [Starter -> 1..3]
  /\ lock \in Starter \cup {Nobody, DeadSession}
  /\ schema \in SUBSET File
  /\ ledger \in SUBSET File
  /\ faults \in 0..MaxFaults
  /\ old_status \in [Task -> OldStatus]

-----------------------------------------------------------------------------
(* The database before the first start *)

(* A task of the first schema with n steps, of which those before `at' are
   done. current_step is NULL until the first step has begun. *)
OldTask(s, w, n, at) ==
  [status |-> s,
   claimed_by |-> IF s = "pending" THEN NoWorker ELSE w,
   current_step |-> IF s \in {"pending", "claimed"} /\ at = 1 THEN 0 ELSE at,
   step_status |-> [p \in Position |->
     CASE p > n -> "absent"
       [] p <= n /\ (p < at \/ s = "done") -> "done"
       [] p = at /\ s \in {"running", "failed"} -> s
       [] OTHER -> "pending"],
   step_log |-> [p \in Position |->
     CASE p < at \/ (p = at /\ s = "done") -> "success"
       [] p = at /\ s = "failed" -> "failure"
       [] OTHER -> "none"]]

OldTasks ==
  {OldTask("pending", NoWorker, n, 1) : n \in Position}
    \cup {OldTask("done", w, n, n) : w \in Worker, n \in Position}
    \cup UNION {{OldTask(s, w, n, at) : s \in {"claimed", "running", "failed"},
                                        w \in Worker, at \in 1..n} : n \in Position}

NewDatabase ==
  /\ schema = {} /\ ledger = {}
  /\ Init
  /\ old_status = [t \in Task |-> "absent"]

\* 002_operations.sql will add the token as 0 and the lease as NULL.
OldDatabase ==
  /\ schema = {1} /\ ledger = {1}
  /\ \E old \in [Task -> OldTasks] :
       /\ status = [t \in Task |-> old[t].status]
       /\ claimed_by = [t \in Task |-> old[t].claimed_by]
       /\ current_step = [t \in Task |-> old[t].current_step]
       /\ step_status = [t \in Task |-> old[t].step_status]
       /\ step_log = [t \in Task |-> old[t].step_log]
  /\ ownership_version = [t \in Task |-> 0]
  /\ lease_left = [t \in Task |-> NoLease]
  /\ victims = {}
  /\ old_status = status

MigrationInit ==
  /\ NewDatabase \/ OldDatabase
  /\ pc = [p \in Starter |-> "down"]
  /\ file = [p \in Starter |-> 1]
  /\ lock = Nobody
  /\ faults = 0

-----------------------------------------------------------------------------
(* Migrate *)

FaultyLockIsFree == TRUE
LockIsFree == lock = Nobody

\* `continue' when the ledger has the file.
FaultyAfterApplied(p) == 3
AfterApplied(p) == file[p] + 1

\* The file runs inside the transaction that records it.
FaultySchemaWhenApplied(p) == schema \cup {file[p]}
SchemaWhenApplied(p) == schema

\* UPDATE tasks SET lease_expires_at = now() WHERE status IN ('claimed', 'running')
FaultyUpgradedLease(t) ==
  IF status[t] = "running" /\ lease_left[t] = NoLease THEN 0 ELSE lease_left[t]
UpgradedLease(t) ==
  IF status[t] \in Active /\ lease_left[t] = NoLease THEN 0 ELSE lease_left[t]

\* A process that stops gives the lock back in any case, with its session.
FaultyLockAfterUnlock(p) ==
  IF pc[p] = "failing" \/ p \in MigrateOnly THEN Nobody ELSE lock
LockAfterUnlock(p) == IF lock = p THEN Nobody ELSE lock

\* What becomes of the lock if the session is lost with it.
LockLeftBehind(p) == IF lock = p THEN DeadSession ELSE lock

Goto(p, there) == pc' = [pc EXCEPT ![p] = there]

\* Open and Ping
Start(p) ==
  /\ pc[p] = "down"
  /\ Goto(p, "waiting")
  /\ UNCHANGED <<vars, database, file, lock, faults>>

\* SELECT pg_advisory_lock(...) answers.
TakeLock(p) ==
  /\ pc[p] = "waiting"
  /\ LockIsFree
  /\ lock' = p
  /\ file' = [file EXCEPT ![p] = 1]
  /\ Goto(p, "checking")
  /\ UNCHANGED <<vars, database, faults>>

\* SELECT EXISTS ... FROM schema_migrations, for the next file if there is one
CheckFile(p) ==
  /\ pc[p] = "checking"
  /\ \/ file[p] \notin File /\ Goto(p, "unlocking") /\ UNCHANGED file
     \/ file[p] \in ledger /\ file' = [file EXCEPT ![p] = AfterApplied(p)] /\ UNCHANGED pc
     \/ file[p] \in File \ ledger /\ Goto(p, "applying") /\ UNCHANGED file
  /\ UNCHANGED <<vars, database, lock, faults>>

ApplyFile(p) ==
  /\ pc[p] = "applying"
  /\ schema' = SchemaWhenApplied(p)
  /\ Goto(p, "recording")
  /\ UNCHANGED <<vars, ledger, old_status, file, lock, faults>>

\* INSERT INTO schema_migrations fails if another process recorded the file.
RecordFile(p) ==
  /\ pc[p] = "recording"
  /\ Goto(p, IF file[p] \in ledger THEN "failing" ELSE "committing")
  /\ UNCHANGED <<vars, database, file, lock, faults>>

CommitFile(p) ==
  /\ pc[p] = "committing"
  /\ schema' = schema \cup {file[p]}
  /\ ledger' = ledger \cup {file[p]}
  /\ lease_left' = [t \in Task |-> IF file[p] = 2 THEN UpgradedLease(t) ELSE lease_left[t]]
  /\ UNCHANGED <<status, claimed_by, ownership_version, current_step, step_status, step_log,
                 victims, old_status, lock>>

NextFile(p) ==
  /\ CommitFile(p)
  /\ file' = [file EXCEPT ![p] = @ + 1]
  /\ Goto(p, "checking")
  /\ UNCHANGED faults

\* Migrate returns: the caller exits after an error and goes on otherwise.
Return(p) ==
  \/ pc[p] = "failing" /\ Goto(p, "down")
  \/ pc[p] = "unlocking" /\ Goto(p, IF p \in MigrateOnly THEN "stopped" ELSE "serving")

\* The deferred pg_advisory_unlock, on every return
Unlock(p) ==
  /\ Return(p)
  /\ lock' = LockAfterUnlock(p)
  /\ UNCHANGED <<vars, database, file, faults>>

-----------------------------------------------------------------------------
(* What can go wrong *)

Fault == faults < MaxFaults /\ faults' = faults + 1

\* A statement answers with an error: the transaction is rolled back.
StatementFails(p) ==
  /\ Fault
  /\ \/ pc[p] = "waiting" /\ Goto(p, "down")
     \/ pc[p] \in {"checking", "applying", "recording", "committing"} /\ Goto(p, "failing")
  /\ UNCHANGED <<vars, database, file, lock>>

\* The error of the deferred unlock is ignored: the process goes on, and its broken
\* connection keeps the lock until the session ends.
UnlockFails(p) ==
  /\ Fault
  /\ Return(p)
  /\ lock' = LockLeftBehind(p)
  /\ UNCHANGED <<vars, database, file>>

CommitAnswerLost(p) ==
  /\ Fault
  /\ CommitFile(p)
  /\ Goto(p, "failing")
  /\ UNCHANGED file

\* Its transaction is lost with it; its session is not noticed to be dead yet.
Crash(p) ==
  /\ Fault
  /\ pc[p] \notin {"down", "stopped"}
  /\ Goto(p, "down")
  /\ lock' = LockLeftBehind(p)
  /\ UNCHANGED <<vars, database, file>>

EndDeadSession ==
  /\ lock = DeadSession
  /\ lock' = Nobody
  /\ UNCHANGED <<vars, database, pc, file, faults>>

-----------------------------------------------------------------------------
\* The transactions of the processes that serve.
Serving == {p \in Starter : pc[p] = "serving"}
Use(A) == Serving # {} /\ A /\ UNCHANGED <<database, pc, file, lock, faults>>

Migrate(p) ==
  CheckFile(p) \/ ApplyFile(p) \/ RecordFile(p) \/ NextFile(p) \/ Unlock(p)

MigrationNext ==
  \/ \E p \in Starter : \/ Start(p) \/ TakeLock(p) \/ Migrate(p)
                        \/ StatementFails(p) \/ UnlockFails(p) \/ CommitAnswerLost(p)
                        \/ Crash(p)
  \/ EndDeadSession
  \/ Use(Next)

MigrationSpec == MigrationInit /\ [][MigrationNext]_migrationVars

(* compose restarts servers and workers, PostgreSQL grants the advisory lock in
   the order of the requests and ends sessions whose client is gone, and the
   workers among those that serve poll for claimable tasks. *)
MigrationFairness ==
  /\ \A p \in Starter \ MigrateOnly : WF_migrationVars(Start(p))
  /\ \A p \in Starter : SF_migrationVars(TakeLock(p)) /\ WF_migrationVars(Migrate(p))
  /\ WF_migrationVars(EndDeadSession)
  /\ WF_migrationVars(Use(Tick))
  /\ \A t \in Task : WF_migrationVars(\E w \in Worker : Use(ClaimNext(w, t, 0)))

FairMigrationSpec == MigrationSpec /\ MigrationFairness

-----------------------------------------------------------------------------
(* Properties *)

(* The ledger never lies: a file is in schema_migrations exactly if its
   statements took effect, and no file took effect before an earlier one,
   wherever a process died. *)
LedgerTellsSchema ==
  /\ ledger = schema
  /\ \A f \in schema : 1..f \subseteq schema

(* A process that starts finds no file recorded by somebody else between its
   look at the ledger and its own record: the INSERT cannot fail on the primary
   key, and a start fails only if a statement does. *)
NobodyOvertakes == \A p \in Starter : pc[p] = "recording" => file[p] \notin ledger

(* Nobody serves, and so no transaction of the store runs, before all files
   have taken effect: every column the queries name exists. *)
ServingHasSchema == Serving # {} => schema = File

(* ActiveHasLease for tasks of the first schema. The upgrade gives a lease to
   those that were active. One that was failed, and is revived by a success its
   owner reports with the token 0, stays without: it is out of ClaimNext's reach
   and only CancelTask can end it. No other task gets there. *)
OldActiveHasLease ==
  \A t \in Task : 2 \in schema /\ status[t] \in Active /\ lease_left[t] = NoLease =>
    old_status[t] = "failed" /\ ownership_version[t] = 0

(* The inductive invariant behind these three: whoever is inside Migrate holds
   the lock, so what it has read of the ledger is still true. *)
Inside == {"checking", "applying", "recording", "committing", "unlocking", "failing"}

InsideHoldsLock == \A p \in Starter : pc[p] \in Inside => lock = p

FilesSeen(p) ==
  /\ pc[p] \in {"checking", "applying", "recording", "committing"} =>
       \A f \in File : f < file[p] => f \in ledger
  /\ pc[p] \in {"applying", "recording", "committing"} => file[p] \in File \ ledger
  /\ pc[p] \in {"unlocking", "serving"} => ledger = File

MigrationIInv ==
  /\ MigrationTypeOK
  /\ LedgerTellsSchema
  /\ InsideHoldsLock
  /\ \A p \in Starter : FilesSeen(p)

(* What OldActiveHasLease rests on, for one task: a failed one without a lease is
   of the first schema too, and a done one is never revived, because its current
   step is done. *)
LeaseAccounted(t) ==
  LET neverClaimed == old_status[t] = "failed" /\ ownership_version[t] = 0 IN
  /\ lease_left[t] = NoLease =>
       /\ status[t] \in Active => 2 \notin schema \/ neverClaimed
       /\ status[t] = "failed" => neverClaimed
  /\ status[t] = "done" =>
       \A p \in Position : current_step[t] = p => step_status[t][p] = "done"

LeasesAccounted == \A t \in Task : LeaseAccounted(t)

(* However many start at once, die half way or lose an answer, every server and
   worker serves at last: no lock is left behind and no file is stuck. *)
EveryoneServes == \A p \in Starter \ MigrateOnly : <>[](pc[p] = "serving")

(* A task that was active under the first schema, whose owner has no token, is
   handed over after the upgrade unless it is cancelled first. *)
OldTasksAreTakenOver ==
  \A t \in Task : old_status[t] \in Active =>
    <>(ownership_version[t] > 0 \/ status[t] \notin Active)
=============================================================================
