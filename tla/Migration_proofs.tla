-------------------------- MODULE Migration_proofs --------------------------
(***************************************************************************)
(* Proofs about Migration, for any number of processes that start and fail *)
(* and any tasks of the first schema.                                      *)
(***************************************************************************)
EXTENDS Migration, TaskStore_proofs

(* The types: the tasks of the first schema have the columns of TaskStore, the
   upgrade gives them a lease, and a transaction of the store keeps them. *)

LEMMA OldTaskType ==
  ASSUME NEW old \in OldTasks
  PROVE  /\ old.status \in OldStatus /\ old.claimed_by \in Worker \cup {NoWorker}
         /\ old.current_step \in 0..MaxSteps
         /\ old.step_status \in [Position -> StepStatus]
         /\ old.step_log \in [Position -> {"none", "failure", "success"}]
<1>1. PICK s \in {"pending", "done", "claimed", "running", "failed"},
           w \in Worker \cup {NoWorker}, n \in Position, at \in Position :
        old = OldTask(s, w, n, at)
  BY StoreConstants DEF OldTasks, Position
<1>2. /\ old.status = s /\ old.claimed_by \in {NoWorker, w} /\ old.current_step \in {0, at}
      /\ old.step_status = [p \in Position |->
           CASE p > n -> "absent"
             [] p <= n /\ (p < at \/ s = "done") -> "done"
             [] p = at /\ s \in {"running", "failed"} -> s
             [] OTHER -> "pending"]
      /\ old.step_log = [p \in Position |->
           CASE p < at \/ (p = at /\ s = "done") -> "success"
             [] p = at /\ s = "failed" -> "failure"
             [] OTHER -> "none"]
  BY <1>1 DEF OldTask
<1>3. old.status \in OldStatus /\ old.claimed_by \in Worker \cup {NoWorker}
  BY <1>2 DEF OldStatus
<1>4. old.current_step \in 0..MaxSteps
  BY <1>2, StoreConstants DEF Position
<1>5. \A p \in Position : old.step_status[p] \in StepStatus
  BY <1>2 DEF StepStatus
<1>6. \A p \in Position : old.step_log[p] \in {"none", "failure", "success"}
  BY <1>2
<1> QED
  BY <1>2, <1>3, <1>4, <1>5, <1>6

LEMMA MigrationTypeInit == MigrationInit => MigrationTypeOK
<1> SUFFICES ASSUME MigrationInit PROVE MigrationTypeOK
  OBVIOUS
<1>1. CASE NewDatabase
  <2>1. TypeOK
    BY <1>1, TypeInit DEF NewDatabase
  <2>2. /\ old_status \in [Task -> OldStatus] /\ schema \in SUBSET File /\ ledger \in SUBSET File
    BY <1>1 DEF NewDatabase, OldStatus
  <2> QED
    BY <2>1, <2>2, MigrationConstants DEF MigrationInit, MigrationTypeOK, Where
<1>2. CASE OldDatabase
  <2>1. PICK old \in [Task -> OldTasks] :
          /\ status = [t \in Task |-> old[t].status]
          /\ claimed_by = [t \in Task |-> old[t].claimed_by]
          /\ current_step = [t \in Task |-> old[t].current_step]
          /\ step_status = [t \in Task |-> old[t].step_status]
          /\ step_log = [t \in Task |-> old[t].step_log]
    BY <1>2 DEF OldDatabase
  <2>2. TypeOK
    <3>1. /\ status \in [Task -> OldStatus] /\ claimed_by \in [Task -> Worker \cup {NoWorker}]
          /\ current_step \in [Task -> 0..MaxSteps]
          /\ step_status \in [Task -> [Position -> StepStatus]]
          /\ step_log \in [Task -> [Position -> {"none", "failure", "success"}]]
      BY <2>1, OldTaskType
    <3>2. /\ ownership_version \in [Task -> Version] /\ lease_left \in [Task -> LeaseLeft]
          /\ victims \in SUBSET Task
      BY <1>2, StoreConstants DEF OldDatabase, Version, LeaseLeft
    <3>3. OldStatus \subseteq TaskStatus
      BY DEF OldStatus, TaskStatus, Active, Terminal
    <3> QED
      BY <3>1, <3>2, <3>3 DEF TypeOK
  <2>3. old_status \in [Task -> OldStatus]
    BY <1>2, <2>1, OldTaskType DEF OldDatabase
  <2> QED
    BY <1>2, <2>2, <2>3, MigrationConstants
    DEF MigrationInit, OldDatabase, MigrationTypeOK, Where, File
<1> QED
  BY <1>1, <1>2 DEF MigrationInit

LEMMA CommitType ==
  ASSUME MigrationTypeOK, NEW p \in Starter, CommitFile(p), file[p] \in File
  PROVE  /\ TypeOK' /\ schema' \in SUBSET File /\ ledger' \in SUBSET File
         /\ old_status' = old_status /\ lock' = lock
<1>1. \A t \in Task : UpgradedLease(t) \in LeaseLeft
  BY StoreConstants DEF UpgradedLease, MigrationTypeOK, TypeOK, LeaseLeft, LongExpired
<1>2. lease_left' \in [Task -> LeaseLeft]
  BY <1>1 DEF CommitFile, MigrationTypeOK, TypeOK
<1> QED
  BY <1>2 DEF CommitFile, MigrationTypeOK, TypeOK

LEMMA MigrationTypeNext == MigrationIInv /\ [MigrationNext]_migrationVars => MigrationTypeOK'
<1> SUFFICES ASSUME MigrationIInv, [MigrationNext]_migrationVars PROVE MigrationTypeOK'
  OBVIOUS
<1>0. MigrationTypeOK
  BY DEF MigrationIInv
<1> USE <1>0, MigrationConstants DEF Goto, database, Where
<1>1. ASSUME UNCHANGED vars PROVE TypeOK'
  BY <1>1 DEF MigrationTypeOK, TypeOK, vars
<1>2. ASSUME NEW p \in Starter, Start(p) PROVE MigrationTypeOK'
  BY <1>1, <1>2 DEF Start, MigrationTypeOK
<1>3. ASSUME NEW p \in Starter, TakeLock(p) PROVE MigrationTypeOK'
  BY <1>1, <1>3 DEF TakeLock, MigrationTypeOK
<1>4. ASSUME NEW p \in Starter, CheckFile(p) PROVE MigrationTypeOK'
  BY <1>1, <1>4 DEF CheckFile, AfterApplied, File, MigrationTypeOK
<1>5. ASSUME NEW p \in Starter, ApplyFile(p) PROVE MigrationTypeOK'
  BY <1>1, <1>5 DEF ApplyFile, SchemaWhenApplied, MigrationTypeOK
<1>6. ASSUME NEW p \in Starter, RecordFile(p) PROVE MigrationTypeOK'
  BY <1>1, <1>6 DEF RecordFile, MigrationTypeOK
<1>7. ASSUME NEW p \in Starter, CommitFile(p) PROVE file[p] \in File
  BY <1>7 DEF CommitFile, MigrationIInv, FilesSeen
<1>8. ASSUME NEW p \in Starter, NextFile(p) PROVE MigrationTypeOK'
  <2>1. CommitFile(p) /\ file[p] \in File
    BY <1>7, <1>8 DEF NextFile
  <2> QED
    BY <1>8, <2>1, CommitType DEF NextFile, MigrationTypeOK, File
<1>9. ASSUME NEW p \in Starter, Unlock(p) PROVE MigrationTypeOK'
  BY <1>1, <1>9 DEF Unlock, Return, LockAfterUnlock, MigrationTypeOK
<1>10. ASSUME NEW p \in Starter, StatementFails(p) PROVE MigrationTypeOK'
  BY <1>1, <1>10 DEF StatementFails, Fault, MigrationTypeOK
<1>11. ASSUME NEW p \in Starter, CommitAnswerLost(p) PROVE MigrationTypeOK'
  <2>1. CommitFile(p) /\ file[p] \in File
    BY <1>7, <1>11 DEF CommitAnswerLost
  <2> QED
    BY <1>11, <2>1, CommitType DEF CommitAnswerLost, Fault, MigrationTypeOK
<1>12. ASSUME NEW p \in Starter, Crash(p) PROVE MigrationTypeOK'
  BY <1>1, <1>12 DEF Crash, LockLeftBehind, Fault, MigrationTypeOK
<1>13. CASE EndDeadSession
  BY <1>1, <1>13 DEF EndDeadSession, MigrationTypeOK
<1>14. CASE Use(Next)
  BY <1>14, TypeNext DEF Use, MigrationTypeOK
<1>15. CASE UNCHANGED migrationVars
  BY <1>1, <1>15 DEF migrationVars, MigrationTypeOK
<1>16. ASSUME NEW p \in Starter, UnlockFails(p) PROVE MigrationTypeOK'
  BY <1>1, <1>16 DEF UnlockFails, Return, LockLeftBehind, Fault, MigrationTypeOK
<1> QED
  BY <1>2, <1>3, <1>4, <1>5, <1>6, <1>8, <1>9, <1>10, <1>11, <1>12, <1>13, <1>14, <1>15, <1>16
  DEF MigrationNext, Migrate

-----------------------------------------------------------------------------
(* The inductive invariant *)

LEMMA MigrationIInvInit == MigrationInit => MigrationIInv
<1> SUFFICES ASSUME MigrationInit PROVE MigrationIInv
  OBVIOUS
<1>1. MigrationTypeOK
  BY MigrationTypeInit
<1>2. LedgerTellsSchema
  <2>1. \/ schema = {} /\ ledger = {}
        \/ schema = {1} /\ ledger = {1}
    BY DEF MigrationInit, NewDatabase, OldDatabase
  <2>2. 1..1 = {1}
    OBVIOUS
  <2> QED
    BY <2>1, <2>2 DEF LedgerTellsSchema
<1>3. InsideHoldsLock /\ \A p \in Starter : FilesSeen(p)
  BY DEF MigrationInit, InsideHoldsLock, Inside, FilesSeen
<1> QED
  BY <1>1, <1>2, <1>3 DEF MigrationIInv

\* Nobody but the holder of the lock is inside Migrate.
LEMMA OutsideUntouched ==
  ASSUME MigrationIInv, NEW p \in Starter, pc[p] \in Inside, NEW q \in Starter, q # p
  PROVE  pc[q] \notin Inside
BY DEF MigrationIInv, InsideHoldsLock

\* What a process outside Migrate has seen stays true as the ledger grows.
LEMMA OutsideSeen ==
  ASSUME NEW q \in Starter, FilesSeen(q), pc[q] \notin Inside, pc'[q] = pc[q],
         ledger \subseteq ledger', ledger' \subseteq File
  PROVE  FilesSeen(q)'
BY DEF FilesSeen, Inside

LEMMA SameSeen ==
  ASSUME NEW q \in Starter, FilesSeen(q), pc'[q] = pc[q], file'[q] = file[q], ledger' = ledger
  PROVE  FilesSeen(q)'
BY DEF FilesSeen

LEMMA CommitLedger ==
  ASSUME MigrationIInv, NEW p \in Starter, CommitFile(p)
  PROVE  /\ LedgerTellsSchema' /\ ledger \subseteq ledger' /\ ledger' \subseteq File
         /\ lock' = lock /\ \A f \in File : f < file[p] + 1 => f \in ledger'
<1>1. /\ file[p] \in File \ ledger /\ \A f \in File : f < file[p] => f \in ledger
      /\ ledger = schema /\ ledger \subseteq File
  BY DEF MigrationIInv, FilesSeen, LedgerTellsSchema, MigrationTypeOK, CommitFile
<1>2. ledger' = ledger \cup {file[p]} /\ schema' = ledger'
  BY <1>1 DEF CommitFile
<1>3. ledger \subseteq ledger' /\ ledger' \subseteq File
  BY <1>1, <1>2
<1>4. \A f \in File : f < file[p] + 1 => f \in ledger'
  <2>1. \A f \in File : f < file[p] + 1 => f < file[p] \/ f = file[p]
    BY <1>1 DEF File
  <2> QED
    BY <1>1, <1>2, <2>1
<1>5. \A f \in ledger' : 1..f \subseteq ledger'
  <2>1. \A f \in ledger : 1..f \subseteq ledger
    BY <1>1 DEF MigrationIInv, LedgerTellsSchema
  <2>2. 1..file[p] \subseteq ledger'
    BY <1>1, <1>4 DEF File
  <2> QED
    BY <1>2, <1>3, <2>1, <2>2
<1>6. LedgerTellsSchema'
  BY <1>2, <1>5 DEF LedgerTellsSchema
<1>7. lock' = lock
  BY DEF CommitFile
<1> QED
  BY <1>3, <1>4, <1>6, <1>7

LEMMA MigrationIInvNext == MigrationIInv /\ [MigrationNext]_migrationVars => MigrationIInv'
<1> SUFFICES ASSUME MigrationIInv, [MigrationNext]_migrationVars PROVE MigrationIInv'
  OBVIOUS
<1>0. /\ MigrationTypeOK /\ MigrationTypeOK' /\ LedgerTellsSchema /\ InsideHoldsLock
      /\ \A q \in Starter : FilesSeen(q)
  BY MigrationTypeNext DEF MigrationIInv
<1> DEFINE Rest == LedgerTellsSchema' /\ InsideHoldsLock' /\ \A q \in Starter : FilesSeen(q)'
<1> SUFFICES Rest
  BY <1>0 DEF MigrationIInv
<1>a. pc \in [Starter -> Where] /\ file \in [Starter -> 1..3] /\ ledger \in SUBSET File
  BY <1>0 DEF MigrationTypeOK
<1>b. UNCHANGED <<schema, ledger>> => LedgerTellsSchema'
  BY <1>0 DEF LedgerTellsSchema
<1> USE <1>a, MigrationConstants DEF Goto, database
<1>1. ASSUME NEW p \in Starter, Start(p) PROVE Rest
  <2>1. pc'[p] = "waiting" /\ (\A q \in Starter \ {p} : pc'[q] = pc[q])
        /\ file' = file /\ lock' = lock /\ ledger' = ledger /\ schema' = schema
    BY <1>1 DEF Start
  <2>2. InsideHoldsLock'
    BY <1>0, <2>1 DEF InsideHoldsLock, Inside
  <2>3. FilesSeen(p)'
    BY <2>1 DEF FilesSeen
  <2> QED
    BY <1>0, <1>b, <2>1, <2>2, <2>3, SameSeen
<1>2. ASSUME NEW p \in Starter, TakeLock(p) PROVE Rest
  <2>1. pc'[p] = "checking" /\ file'[p] = 1 /\ (\A q \in Starter \ {p} : pc'[q] = pc[q] /\ file'[q] = file[q])
        /\ lock = Nobody /\ lock' = p /\ ledger' = ledger /\ schema' = schema
    BY <1>2 DEF TakeLock, LockIsFree
  <2>2. \A q \in Starter \ {p} : pc[q] \notin Inside
    BY <1>0, <2>1 DEF InsideHoldsLock
  <2>3. InsideHoldsLock'
    BY <2>1, <2>2 DEF InsideHoldsLock
  <2>4. FilesSeen(p)'
    BY <2>1 DEF FilesSeen, File
  <2> QED
    BY <1>0, <1>b, <2>1, <2>3, <2>4, SameSeen
<1>3. ASSUME NEW p \in Starter, CheckFile(p) PROVE Rest
  <2>1. /\ pc[p] = "checking" /\ (\A q \in Starter \ {p} : pc'[q] = pc[q] /\ file'[q] = file[q])
        /\ lock' = lock /\ ledger' = ledger /\ schema' = schema
        /\ \A f \in File : f < file[p] => f \in ledger
    BY <1>0, <1>3 DEF CheckFile, FilesSeen
  <2>2. \/ file[p] \notin File /\ pc'[p] = "unlocking"
        \/ file[p] \in ledger /\ file'[p] = file[p] + 1 /\ pc'[p] = "checking"
        \/ file[p] \in File \ ledger /\ pc'[p] = "applying" /\ file'[p] = file[p]
    BY <1>3 DEF CheckFile, AfterApplied
  <2>3. InsideHoldsLock'
    BY <1>0, <2>1, <2>2 DEF InsideHoldsLock, Inside
  <2>4. CASE file[p] \notin File /\ pc'[p] = "unlocking"
    <3>1. file[p] = 3 /\ File = {1, 2}
      BY <2>4 DEF File
    <3>2. 1 \in ledger /\ 2 \in ledger
      BY <2>1, <3>1
    <3>3. ledger = File
      BY <3>1, <3>2
    <3> QED
      BY <1>0, <1>b, <2>1, <2>3, <2>4, <3>3, SameSeen DEF FilesSeen
  <2>5. CASE file[p] \in ledger /\ file'[p] = file[p] + 1 /\ pc'[p] = "checking"
    <3>1. FilesSeen(p)'
      BY <2>1, <2>5 DEF FilesSeen, File
    <3> QED
      BY <1>0, <1>b, <2>1, <2>3, <3>1, SameSeen
  <2>6. CASE file[p] \in File \ ledger /\ pc'[p] = "applying" /\ file'[p] = file[p]
    <3>1. FilesSeen(p)'
      BY <2>1, <2>6 DEF FilesSeen
    <3> QED
      BY <1>0, <1>b, <2>1, <2>3, <3>1, SameSeen
  <2> QED
    BY <2>2, <2>4, <2>5, <2>6
<1>4. ASSUME NEW p \in Starter, ApplyFile(p) \/ RecordFile(p) PROVE Rest
  <2>1. /\ pc[p] \in {"applying", "recording"} /\ pc'[p] \in {"recording", "committing"}
        /\ (\A q \in Starter \ {p} : pc'[q] = pc[q])
        /\ file' = file /\ lock' = lock /\ ledger' = ledger /\ schema' = schema
    BY <1>0, <1>4 DEF ApplyFile, SchemaWhenApplied, RecordFile, FilesSeen
  <2>2. InsideHoldsLock'
    BY <1>0, <2>1 DEF InsideHoldsLock, Inside
  <2>3. FilesSeen(p)'
    BY <1>0, <2>1 DEF FilesSeen
  <2> QED
    BY <1>0, <1>b, <2>1, <2>2, <2>3, SameSeen
<1>5. ASSUME NEW p \in Starter, CommitFile(p), \A q \in Starter \ {p} : pc'[q] = pc[q],
             \/ pc'[p] = "failing"
             \/ pc'[p] = "checking" /\ file'[p] = file[p] + 1
      PROVE Rest
  <2>1. /\ LedgerTellsSchema' /\ ledger \subseteq ledger' /\ ledger' \subseteq File
        /\ lock' = lock /\ \A f \in File : f < file[p] + 1 => f \in ledger'
    BY <1>5, CommitLedger
  <2>2. pc[p] = "committing"
    BY <1>5 DEF CommitFile
  <2>3. \A q \in Starter \ {p} : pc[q] \notin Inside
    BY <2>2, OutsideUntouched DEF Inside
  <2>4. InsideHoldsLock'
    BY <1>0, <1>5, <2>1, <2>2, <2>3 DEF InsideHoldsLock, Inside
  <2>5. FilesSeen(p)'
    BY <1>5, <2>1 DEF FilesSeen
  <2> QED
    BY <1>0, <1>5, <2>1, <2>3, <2>4, <2>5, OutsideSeen
<1>6. ASSUME NEW p \in Starter, NextFile(p) PROVE Rest
  BY <1>5, <1>6 DEF NextFile
<1>7. ASSUME NEW p \in Starter, CommitAnswerLost(p) PROVE Rest
  BY <1>5, <1>7 DEF CommitAnswerLost
<1>8. ASSUME NEW p \in Starter, Unlock(p) \/ UnlockFails(p) PROVE Rest
  <2>1. /\ pc[p] \in {"unlocking", "failing"} /\ (\A q \in Starter \ {p} : pc'[q] = pc[q])
        /\ file' = file /\ ledger' = ledger /\ schema' = schema
        /\ pc'[p] \notin Inside /\ (pc'[p] = "serving" => pc[p] = "unlocking")
    BY <1>8 DEF Unlock, UnlockFails, Return, Inside
  <2>2. \A q \in Starter \ {p} : pc[q] \notin Inside
    BY <2>1, OutsideUntouched DEF Inside
  <2>3. InsideHoldsLock'
    BY <2>1, <2>2 DEF InsideHoldsLock
  <2>4. FilesSeen(p)'
    BY <1>0, <2>1 DEF FilesSeen, Inside
  <2> QED
    BY <1>0, <1>b, <2>1, <2>3, <2>4, SameSeen
<1>9. ASSUME NEW p \in Starter, StatementFails(p) PROVE Rest
  <2>1. /\ (\A q \in Starter \ {p} : pc'[q] = pc[q]) /\ file' = file /\ lock' = lock
        /\ ledger' = ledger /\ schema' = schema
        /\ pc'[p] \in {"down", "failing"} /\ (pc'[p] = "failing" => pc[p] \in Inside)
    BY <1>9 DEF StatementFails, Inside
  <2>2. InsideHoldsLock'
    BY <1>0, <2>1 DEF InsideHoldsLock, Inside
  <2>3. FilesSeen(p)'
    BY <2>1 DEF FilesSeen
  <2> QED
    BY <1>0, <1>b, <2>1, <2>2, <2>3, SameSeen
<1>10. ASSUME NEW p \in Starter, Crash(p) PROVE Rest
  <2>1. /\ (\A q \in Starter \ {p} : pc'[q] = pc[q]) /\ file' = file /\ pc'[p] = "down"
        /\ lock' = (IF lock = p THEN DeadSession ELSE lock)
        /\ ledger' = ledger /\ schema' = schema
    BY <1>10 DEF Crash, LockLeftBehind
  <2>2. InsideHoldsLock'
    BY <1>0, <2>1 DEF InsideHoldsLock, Inside
  <2>3. FilesSeen(p)'
    BY <2>1 DEF FilesSeen
  <2> QED
    BY <1>0, <1>b, <2>1, <2>2, <2>3, SameSeen
<1>11. CASE EndDeadSession
  <2>1. pc' = pc /\ file' = file /\ ledger' = ledger /\ schema' = schema /\ lock = DeadSession
    BY <1>11 DEF EndDeadSession
  <2>2. InsideHoldsLock'
    BY <1>0, <2>1 DEF InsideHoldsLock
  <2> QED
    BY <1>0, <1>b, <2>1, <2>2, SameSeen
<1>12. CASE Use(Next) \/ UNCHANGED migrationVars
  <2>1. UNCHANGED <<pc, file, lock, ledger, schema>>
    BY <1>12 DEF Use, migrationVars
  <2> QED
    BY <1>0, <1>b, <2>1, SameSeen DEF InsideHoldsLock
<1> QED
  BY <1>1, <1>2, <1>3, <1>4, <1>6, <1>7, <1>8, <1>9, <1>10, <1>11, <1>12
  DEF MigrationNext, Migrate

(* The inductive invariant holds. *)
THEOREM MigrationWellFormedAlways == MigrationSpec => []MigrationIInv
BY MigrationIInvInit, MigrationIInvNext, PTL DEF MigrationSpec

(* A file is in the ledger exactly if its statements took effect, in order. *)
THEOREM LedgerTellsSchemaAlways == MigrationSpec => []LedgerTellsSchema
<1>1. MigrationIInv => LedgerTellsSchema
  BY DEF MigrationIInv
<1> QED
  BY <1>1, MigrationWellFormedAlways, PTL

(* No migration fails on the ledger's primary key. *)
THEOREM NobodyOvertakesAlways == MigrationSpec => []NobodyOvertakes
<1>1. MigrationIInv => NobodyOvertakes
  BY DEF MigrationIInv, FilesSeen, NobodyOvertakes
<1> QED
  BY <1>1, MigrationWellFormedAlways, PTL

(* The whole schema is there before anybody serves. *)
THEOREM ServingHasSchemaAlways == MigrationSpec => []ServingHasSchema
<1>1. MigrationIInv => ServingHasSchema
  BY DEF MigrationIInv, FilesSeen, LedgerTellsSchema, ServingHasSchema, Serving
<1> QED
  BY <1>1, MigrationWellFormedAlways, PTL

-----------------------------------------------------------------------------
(* The leases of the tasks of the first schema *)

LEMMA OldDoneTask ==
  ASSUME NEW old \in OldTasks, old.status = "done", NEW p \in Position, old.current_step = p
  PROVE  old.step_status[p] = "done"
<1>1. \E w \in Worker, n \in Position : old = OldTask("done", w, n, n)
  <2>1. \A s, w, n, at : OldTask(s, w, n, at).status = s
    BY DEF OldTask
  <2> QED
    BY <2>1 DEF OldTasks
<1>2. PICK w \in Worker, n \in Position : old = OldTask("done", w, n, n)
  BY <1>1
<1>3. old.current_step = n
  BY <1>2 DEF OldTask
<1>4. old.step_status[n] = "done"
  BY <1>2, StoreConstants DEF OldTask, Position
<1> QED
  BY <1>3, <1>4

LEMMA LeasesInit == MigrationInit => LeasesAccounted
<1> SUFFICES ASSUME MigrationInit, NEW t \in Task PROVE LeaseAccounted(t)
  BY DEF LeasesAccounted
<1>1. CASE NewDatabase
  BY <1>1 DEF NewDatabase, Init, LeaseAccounted, Active
<1>2. CASE OldDatabase
  <2>1. PICK old \in [Task -> OldTasks] :
          /\ status = [u \in Task |-> old[u].status]
          /\ current_step = [u \in Task |-> old[u].current_step]
          /\ step_status = [u \in Task |-> old[u].step_status]
    BY <1>2 DEF OldDatabase
  <2>2. schema = {1} /\ ownership_version[t] = 0 /\ old_status = status
    BY <1>2 DEF OldDatabase
  <2>3. status[t] = "done" =>
          \A p \in Position : current_step[t] = p => step_status[t][p] = "done"
    BY <2>1, OldDoneTask
  <2> QED
    BY <2>2, <2>3 DEF LeaseAccounted
<1> QED
  BY <1>1, <1>2 DEF MigrationInit

\* A task whose status and rows stay, and whose lease is not taken away.
LEMMA LeaseKept ==
  ASSUME NEW t \in Task, LeaseAccounted(t),
         status'[t] = status[t], ownership_version'[t] = ownership_version[t],
         current_step'[t] = current_step[t], step_status'[t] = step_status[t],
         lease_left'[t] # NoLease \/ lease_left[t] = NoLease,
         old_status' = old_status, 2 \in schema' => 2 \in schema
  PROVE  LeaseAccounted(t)'
BY DEF LeaseAccounted

LEMMA CommitLeases ==
  ASSUME MigrationTypeOK, LeasesAccounted, NEW p \in Starter, CommitFile(p)
  PROVE  LeasesAccounted'
<1> SUFFICES ASSUME NEW t \in Task PROVE LeaseAccounted(t)'
  BY DEF LeasesAccounted
<1>1. /\ LeaseAccounted(t)
      /\ UNCHANGED <<status, ownership_version, current_step, step_status, old_status>>
      /\ lease_left'[t] = IF file[p] = 2 THEN UpgradedLease(t) ELSE lease_left[t]
      /\ schema' = schema \cup {file[p]}
  BY DEF CommitFile, LeasesAccounted
<1>2. CASE file[p] = 2
  <2>1. status[t] \in Active => lease_left'[t] # NoLease
    BY <1>1, <1>2, StoreConstants DEF UpgradedLease
  <2>2. status[t] \notin Active => lease_left'[t] = lease_left[t]
    BY <1>1, <1>2 DEF UpgradedLease
  <2>3. status[t] \in {"failed", "done"} => status[t] \notin Active
    BY DEF Active
  <2> QED
    BY <1>1, <2>1, <2>2, <2>3 DEF LeaseAccounted
<1>3. CASE file[p] # 2
  BY <1>1, <1>3, LeaseKept
<1> QED
  BY <1>2, <1>3

\* The report is where a task without a lease can become active.
LEMMA ReportLeases ==
  ASSUME TypeOK, 2 \in schema, UNCHANGED <<schema, old_status>>,
         NEW w \in Worker, NEW t \in Task, NEW k \in Version, NEW p \in Position,
         NEW ok \in BOOLEAN, NEW age \in Age, CompleteStep(w, t, k, p, ok, age),
         LeaseAccounted(t)
  PROVE  LeaseAccounted(t)'
<1>1. /\ status[t] \in {"done", "failed"} \/ lease_left[t] # NoLease
      /\ step_status[t][p] = "done" \/ current_step[t] = p
      /\ ownership_version' = ownership_version
  BY DEF CompleteStep, CanReport, LiveAt, AcceptsReport
<1>3. CASE AdvanceTask(t, p, ok)
  <2>1. status'[t] = "claimed" /\ lease_left' = lease_left /\ step_status[t][p] # "done"
    BY <1>3 DEF AdvanceTask, IsFirstSuccess, TypeOK
  <2>2. status[t] # "done"
    BY <1>1, <2>1 DEF LeaseAccounted
  <2> QED
    BY <1>1, <2>1, <2>2 DEF LeaseAccounted, Active
<1>4. CASE FinishTask(t, p, ok)
  BY <1>4 DEF FinishTask, TypeOK, LeaseAccounted, Active
<1>5. CASE FailTask(t, p, ok)
  <2>1. status'[t] = "failed" /\ lease_left'[t] = lease_left[t] /\ step_status[t][p] # "done"
    BY <1>5 DEF FailTask, IsFirstFailure, LeaseAfterFailure, TypeOK
  <2>2. status[t] # "done"
    BY <1>1, <2>1 DEF LeaseAccounted
  <2> QED
    BY <1>1, <2>1, <2>2 DEF LeaseAccounted, Active
<1>6. CASE KeepTask(t, p, ok)
  BY <1>1, <1>6, LeaseKept DEF KeepTask
<1> QED
  BY <1>3, <1>4, <1>5, <1>6 DEF CompleteStep

LEMMA StoreLeases ==
  ASSUME TypeOK, LeasesAccounted, 2 \in schema, UNCHANGED <<schema, old_status>>, Next
  PROVE  LeasesAccounted'
<1> SUFFICES ASSUME NEW x \in Task PROVE LeaseAccounted(x)'
  BY DEF LeasesAccounted
<1>0. LeaseAccounted(x)
  BY DEF LeasesAccounted
<1>1. ASSUME NEW t \in Task, NEW n \in Position, CreateTask(t, n) PROVE LeaseAccounted(x)'
  BY <1>0, <1>1, LeaseKept DEF CreateTask, TypeOK, LeaseAccounted, Active
<1>2. ASSUME NEW w \in Worker, NEW t \in Task, NEW age \in Age, ClaimNext(w, t, age)
      PROVE LeaseAccounted(x)'
  <2>1. CASE x = t
    <3>1. lease_left'[t] # NoLease /\ status'[t] = "claimed"
      BY <1>2, StoreConstants DEF ClaimNext, NewLease, TypeOK, Age
    <3> QED
      BY <2>1, <3>1 DEF LeaseAccounted
  <2>2. CASE x # t
    BY <1>0, <1>2, <2>2, LeaseKept DEF ClaimNext, TypeOK
  <2> QED
    BY <2>1, <2>2
<1>3. ASSUME NEW w \in Worker, NEW t \in Task, NEW k \in Version, NEW age \in Age,
             RenewLease(w, t, k, age)
      PROVE LeaseAccounted(x)'
  <2>1. lease_left'[x] # NoLease \/ lease_left[x] = NoLease
    BY <1>3, StoreConstants DEF RenewLease, NewLease, TypeOK, Age
  <2> QED
    BY <1>0, <1>3, <2>1, LeaseKept DEF RenewLease
<1>4. ASSUME NEW w \in Worker, NEW t \in Task, NEW k \in Version, NEW age \in Age,
             StartCurrentStep(w, t, k, age)
      PROVE LeaseAccounted(x)'
  <2>1. CASE x = t
    <3>1. status'[t] = "running" /\ lease_left'[t] = lease_left[t] /\ lease_left[t] # NoLease
      BY <1>4 DEF StartCurrentStep, CanStart, LiveAt, TypeOK
    <3> QED
      BY <2>1, <3>1 DEF LeaseAccounted
  <2>2. CASE x # t
    BY <1>0, <1>4, <2>2, LeaseKept DEF StartCurrentStep, ResumeStep, BeginStep, TypeOK
  <2> QED
    BY <2>1, <2>2
<1>5. ASSUME NEW w \in Worker, NEW t \in Task, NEW k \in Version, NEW p \in Position,
             NEW ok \in BOOLEAN, NEW age \in Age, CompleteStep(w, t, k, p, ok, age)
      PROVE LeaseAccounted(x)'
  <2>1. CASE x = t
    BY <1>0, <1>5, <2>1, ReportLeases
  <2>2. CASE x # t
    BY <1>0, <1>5, <2>2, LeaseKept
    DEF CompleteStep, AdvanceTask, FinishTask, FailTask, KeepTask, TypeOK
  <2> QED
    BY <2>1, <2>2
<1>6. ASSUME NEW t \in Task, CancelTask(t) PROVE LeaseAccounted(x)'
  BY <1>0, <1>6, LeaseKept DEF CancelTask, TypeOK, LeaseAccounted, Active
<1>7. CASE PruneDelete
  <2>1. CASE x \in victims
    BY <1>7, <2>1 DEF PruneDelete, LeaseAccounted, Active
  <2>2. CASE x \notin victims
    BY <1>0, <1>7, <2>2, LeaseKept DEF PruneDelete
  <2> QED
    BY <2>1, <2>2
<1>8. CASE PruneAbort \/ \E V \in SUBSET Task : PruneSnapshot(V)
  BY <1>0, <1>8, LeaseKept DEF PruneAbort, PruneSnapshot
<1>9. CASE Tick
  <2>1. lease_left'[x] # NoLease \/ lease_left[x] = NoLease
    BY <1>9, StoreConstants DEF Tick, TypeOK, LeaseLeft
  <2> QED
    BY <1>0, <1>9, <2>1, LeaseKept DEF Tick
<1> QED
  BY <1>1, <1>2, <1>3, <1>4, <1>5, <1>6, <1>7, <1>8, <1>9 DEF Next, Prune

LEMMA LeasesNext ==
  MigrationIInv /\ LeasesAccounted /\ [MigrationNext]_migrationVars => LeasesAccounted'
<1> SUFFICES ASSUME MigrationIInv, LeasesAccounted, [MigrationNext]_migrationVars
             PROVE  LeasesAccounted'
  OBVIOUS
<1>1. ASSUME NEW p \in Starter, NextFile(p) \/ CommitAnswerLost(p) PROVE LeasesAccounted'
  BY <1>1, CommitLeases DEF NextFile, CommitAnswerLost, MigrationIInv
<1>2. CASE Use(Next)
  <2>1. 2 \in schema
    BY <1>2 DEF Use, Serving, MigrationIInv, FilesSeen, LedgerTellsSchema, File
  <2> QED
    BY <1>2, <2>1, StoreLeases DEF Use, database, MigrationIInv, MigrationTypeOK
<1>3. ASSUME UNCHANGED <<vars, schema, old_status>> PROVE LeasesAccounted'
  BY <1>3 DEF vars, LeasesAccounted, LeaseAccounted
<1>4. ASSUME NEW p \in Starter,
             \/ Start(p) \/ TakeLock(p) \/ CheckFile(p) \/ ApplyFile(p) \/ RecordFile(p)
             \/ Unlock(p) \/ UnlockFails(p) \/ StatementFails(p) \/ Crash(p)
      PROVE  LeasesAccounted'
  <2>1. UNCHANGED <<vars, schema, old_status>>
    BY <1>4 DEF Start, TakeLock, CheckFile, ApplyFile, SchemaWhenApplied, RecordFile, Unlock,
                UnlockFails, StatementFails, Crash, database
  <2> QED
    BY <1>3, <2>1
<1>5. CASE EndDeadSession \/ UNCHANGED migrationVars
  BY <1>3, <1>5 DEF EndDeadSession, migrationVars, database
<1> QED
  BY <1>1, <1>2, <1>4, <1>5 DEF MigrationNext, Migrate

(* After the upgrade an active task without a lease is one of the first schema
   that was failed then and was never claimed since. *)
THEOREM OldActiveHasLeaseAlways == MigrationSpec => []OldActiveHasLease
<1>1. LeasesAccounted => OldActiveHasLease
  BY DEF LeasesAccounted, LeaseAccounted, OldActiveHasLease
<1> QED
  BY <1>1, LeasesInit, LeasesNext, MigrationWellFormedAlways, PTL DEF MigrationSpec
=============================================================================
