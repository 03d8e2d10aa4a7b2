------------------------------ MODULE TaskStore ------------------------------
(***************************************************************************)
(* The task queue kept in PostgreSQL by internal/store/store.go: the rows  *)
(* of tasks, steps and step_logs that are not demo tasks, and the          *)
(* transactions of the Store that read and write them.                     *)
(*                                                                         *)
(* Every transaction starts by locking the task's row (SELECT ... FOR      *)
(* UPDATE, or the row lock of a single UPDATE) and nothing else writes the *)
(* task's steps and logs, so a transaction is one action, taken when it    *)
(* commits. Two things do escape the row lock and are modelled:            *)
(*   - now() is the time the transaction BEGAN; a transaction that waited  *)
(*     for the lock judges the lease by an older clock. `age' is how long  *)
(*     ago it began;                                                       *)
(*   - PruneTerminalTasks chooses its victims before it locks them.        *)
(* A call that answers with an error rolls back: it is a stuttering step.  *)
(*                                                                         *)
(* The parameter columns are added by TaskParameters.                      *)
(***************************************************************************)
EXTENDS Integers, FiniteSets

CONSTANTS
  Task,           \* the ids the tasks table can hand out
  Worker,         \* worker ids
  NoWorker,       \* claimed_by IS NULL
  NoLease,        \* lease_expires_at IS NULL
  MaxSteps,       \* bound on the steps of a task
  LeaseDuration,  \* leaseDuration, in ticks
  MaxVersion,     \* bound on ownership_version
  MaxAge          \* bound on how long a transaction waits for a row lock

ASSUME StoreConstants ==
  /\ MaxSteps \in Nat \ {0}
  /\ LeaseDuration \in Nat \ {0}
  /\ MaxVersion \in Nat
  /\ MaxAge \in Nat
  /\ NoWorker \notin Worker
  /\ NoLease \notin Int

VARIABLES
  status,             \* tasks.status, "absent" before the INSERT
  claimed_by,         \* tasks.claimed_by
  ownership_version,  \* tasks.ownership_version, the fencing token
  lease_left,         \* tasks.lease_expires_at, as the time left to it
  current_step,       \* tasks.current_step, 0 for NULL
  step_status,        \* steps.status by position
  step_log,           \* step_logs.success by position
  victims             \* the tasks a running PruneTerminalTasks has selected

vars == <<status, claimed_by, ownership_version, lease_left, current_step,
          step_status, step_log, victims>>

Position == 1..MaxSteps
Version == 0..MaxVersion
Age == 0..MaxAge

Active == {"claimed", "running"}
Terminal == {"done", "failed", "cancelled"}
TaskStatus == {"absent", "pending", "pruned"} \cup Active \cup Terminal
StepStatus == {"absent", "pending", "running", "done", "failed", "cancelled"}

(* A lease expired by more than MaxAge is expired for every transaction, so
   lease_left stops there. *)
LongExpired == -(MaxAge + 1)
LeaseLeft == (LongExpired..LeaseDuration) \cup {NoLease}

TypeOK ==
  /\ status \in [Task -> TaskStatus]
  /\ claimed_by \in [Task -> Worker \cup {NoWorker}]
  /\ ownership_version \in [Task -> Version]
  /\ lease_left \in [Task -> LeaseLeft]
  /\ current_step \in [Task -> 0..MaxSteps]
  /\ step_status \in [Task -> [Position -> StepStatus]]
  /\ step_log \in [Task -> [Position -> {"none", "failure", "success"}]]
  /\ victims \in SUBSET Task

-----------------------------------------------------------------------------
(* What the transactions look up.

   An operator named Faulty<Name> is a wrong version of <Name>, the bug a
   change to the code could bring in. The specification uses none of them: they
   are swapped in to see that a property would notice. *)

Exists(t) == status[t] \notin {"absent", "pruned"}
Rows(t) == {p \in Position : step_status[t][p] # "absent"}

\* StartCurrentStep reads a NULL current_step as the first position.
CurrentPosition(t) == IF current_step[t] = 0 THEN 1 ELSE current_step[t]

\* lease_expires_at > now(), and <, in a transaction that began `age' ago.
LiveAt(t, age) == lease_left[t] # NoLease /\ lease_left[t] > -age
ExpiredAt(t, age) == lease_left[t] # NoLease /\ lease_left[t] < -age

\* now() + leaseDuration
NewLease(age) == LeaseDuration - age

FaultyOwns(t, w, k) == claimed_by[t] = w
Owns(t, w, k) == claimed_by[t] = w /\ ownership_version[t] = k

FaultyClaimable(t, age) == status[t] \in Active \cup {"pending"}
Claimable(t, age) ==
  \/ status[t] = "pending"
  \/ status[t] \in Active /\ ExpiredAt(t, age)

FaultyNextToken(t) == ownership_version[t]
NextToken(t) == ownership_version[t] + 1

CanRenew(t, w, k, age) ==
  /\ Owns(t, w, k)
  /\ status[t] \in Active
  /\ LiveAt(t, age)

CanStart(t, w, k, age) ==
  /\ Exists(t) /\ status[t] \notin Terminal
  /\ Owns(t, w, k)
  /\ LiveAt(t, age)

\* The owner of a finished task may still report: there is no lease to check.
FaultyCanReport(t, w, k, age) ==
  /\ Exists(t)
  /\ Owns(t, w, k)
  /\ status[t] \in Terminal \/ LiveAt(t, age)
CanReport(t, w, k, age) ==
  /\ Exists(t) /\ status[t] # "cancelled"
  /\ Owns(t, w, k)
  /\ status[t] \in {"done", "failed"} \/ LiveAt(t, age)

FaultyAcceptsReport(t, p) ==
  p \in Rows(t) /\ (step_status[t][p] = "done" \/ CurrentPosition(t) = p)
AcceptsReport(t, p) ==
  /\ p \in Rows(t)
  /\ step_status[t][p] # "pending"
  /\ step_status[t][p] = "done" \/ current_step[t] = p

\* success = step_logs.success OR EXCLUDED.success
FaultyMergedLog(t, p, ok) == IF ok THEN "success" ELSE "failure"
MergedLog(t, p, ok) ==
  IF ok \/ step_log[t][p] = "success" THEN "success" ELSE "failure"

\* finalSuccess && stepStatus != "done"
FaultyIsFirstSuccess(t, p, ok) == MergedLog(t, p, ok) = "success"
IsFirstSuccess(t, p, ok) ==
  MergedLog(t, p, ok) = "success" /\ step_status[t][p] # "done"

\* !finalSuccess && stepStatus == "running"
IsFirstFailure(t, p, ok) ==
  MergedLog(t, p, ok) = "failure" /\ step_status[t][p] = "running"

\* SELECT position FROM steps WHERE position > p
FaultyLaterRows(t, p) == {q \in Rows(t) : q >= p}
LaterRows(t, p) == {q \in Rows(t) : q > p}

FaultyLeaseAfterFailure(t) == NoLease
LeaseAfterFailure(t) == lease_left[t]

\* UPDATE steps SET status = 'cancelled' WHERE status IN ('pending', 'running')
FaultyUnfinishedCancelled(t) ==
  [p \in Position |-> IF step_status[t][p] = "running"
                        THEN "cancelled" ELSE step_status[t][p]]
UnfinishedCancelled(t) ==
  [p \in Position |-> IF step_status[t][p] \in {"pending", "running"}
                        THEN "cancelled" ELSE step_status[t][p]]

-----------------------------------------------------------------------------
Init ==
  /\ status = [t \in Task |-> "absent"]
  /\ claimed_by = [t \in Task |-> NoWorker]
  /\ ownership_version = [t \in Task |-> 0]
  /\ lease_left = [t \in Task |-> NoLease]
  /\ current_step = [t \in Task |-> 0]
  /\ step_status = [t \in Task |-> [p \in Position |-> "absent"]]
  /\ step_log = [t \in Task |-> [p \in Position |-> "none"]]
  /\ victims = {}

CreateTask(t, n) ==
  /\ status[t] = "absent"
  /\ status' = [status EXCEPT ![t] = "pending"]
  /\ step_status' = [step_status EXCEPT
       ![t] = [p \in Position |-> IF p <= n THEN "pending" ELSE "absent"]]
  /\ UNCHANGED <<claimed_by, ownership_version, lease_left, current_step, step_log, victims>>

\* The query takes the first claimable task that no other transaction has
\* locked (SKIP LOCKED), which can be any of them.
ClaimNext(w, t, age) ==
  /\ Claimable(t, age)
  /\ ownership_version[t] < MaxVersion
  /\ status' = [status EXCEPT ![t] = "claimed"]
  /\ claimed_by' = [claimed_by EXCEPT ![t] = w]
  /\ ownership_version' = [ownership_version EXCEPT ![t] = NextToken(t)]
  /\ lease_left' = [lease_left EXCEPT ![t] = NewLease(age)]
  /\ UNCHANGED <<current_step, step_status, step_log, victims>>

RenewLease(w, t, k, age) ==
  /\ CanRenew(t, w, k, age)
  /\ lease_left' = [lease_left EXCEPT ![t] = NewLease(age)]
  /\ UNCHANGED <<status, claimed_by, ownership_version, current_step, step_status,
                 step_log, victims>>

\* The previous owner had started the step: the task resumes it.
ResumeStep(t) ==
  /\ step_status[t][CurrentPosition(t)] = "running"
  /\ UNCHANGED <<current_step, step_status>>

BeginStep(t) ==
  /\ step_status[t][CurrentPosition(t)] = "pending"
  /\ step_status' = [step_status EXCEPT ![t][CurrentPosition(t)] = "running"]
  /\ current_step' = [current_step EXCEPT ![t] = CurrentPosition(t)]

StartCurrentStep(w, t, k, age) ==
  /\ CanStart(t, w, k, age)
  /\ ResumeStep(t) \/ BeginStep(t)
  /\ status' = [status EXCEPT ![t] = "running"]
  /\ UNCHANGED <<claimed_by, ownership_version, lease_left, step_log, victims>>

(* The four effects of a report on the task and its steps. *)

AdvanceTask(t, p, ok) ==
  /\ IsFirstSuccess(t, p, ok)
  /\ \E q \in LaterRows(t, p) :
       /\ \A r \in LaterRows(t, p) : q <= r
       /\ current_step' = [current_step EXCEPT ![t] = q]
  /\ status' = [status EXCEPT ![t] = "claimed"]
  /\ step_status' = [step_status EXCEPT ![t][p] = "done"]
  /\ UNCHANGED lease_left

FinishTask(t, p, ok) ==
  /\ IsFirstSuccess(t, p, ok)
  /\ LaterRows(t, p) = {}
  /\ current_step' = [current_step EXCEPT ![t] = p]
  /\ status' = [status EXCEPT ![t] = "done"]
  /\ step_status' = [step_status EXCEPT ![t][p] = "done"]
  /\ lease_left' = [lease_left EXCEPT ![t] = NoLease]

FailTask(t, p, ok) ==
  /\ IsFirstFailure(t, p, ok)
  /\ status' = [status EXCEPT ![t] = "failed"]
  /\ step_status' = [step_status EXCEPT ![t][p] = "failed"]
  /\ lease_left' = [lease_left EXCEPT ![t] = LeaseAfterFailure(t)]
  /\ UNCHANGED current_step

KeepTask(t, p, ok) ==
  /\ ~IsFirstSuccess(t, p, ok) /\ ~IsFirstFailure(t, p, ok)
  /\ UNCHANGED <<status, step_status, lease_left, current_step>>

CompleteStep(w, t, k, p, ok, age) ==
  /\ CanReport(t, w, k, age)
  /\ AcceptsReport(t, p)
  /\ step_log' = [step_log EXCEPT ![t][p] = MergedLog(t, p, ok)]
  /\ \/ AdvanceTask(t, p, ok)
     \/ FinishTask(t, p, ok)
     \/ FailTask(t, p, ok)
     \/ KeepTask(t, p, ok)
  /\ UNCHANGED <<claimed_by, ownership_version, victims>>

CancelTask(t) ==
  /\ Exists(t) /\ status[t] \notin Terminal
  /\ status' = [status EXCEPT ![t] = "cancelled"]
  /\ step_status' = [step_status EXCEPT ![t] = UnfinishedCancelled(t)]
  /\ lease_left' = [lease_left EXCEPT ![t] = NoLease]
  /\ UNCHANGED <<claimed_by, ownership_version, current_step, step_log, victims>>

\* The victims CTE reads the statement's snapshot. Which terminal tasks are old
\* enough (updated_at < before), and how many fit the batch, is left open.
PruneSnapshot(V) ==
  /\ victims = {}
  /\ V # {} /\ \A t \in V : status[t] \in Terminal
  /\ victims' = V
  /\ UNCHANGED <<status, claimed_by, ownership_version, lease_left, current_step,
                 step_status, step_log>>

\* DELETE ... WHERE t.id = v.id: a victim that changed since the snapshot is
\* rechecked by READ COMMITTED, but the condition names nothing but its id. Its
\* steps and step_logs go with it (ON DELETE CASCADE).
PruneDelete ==
  /\ victims # {}
  /\ status' = [t \in Task |-> IF t \in victims THEN "pruned" ELSE status[t]]
  /\ current_step' = [t \in Task |-> IF t \in victims THEN 0 ELSE current_step[t]]
  /\ lease_left' = [t \in Task |-> IF t \in victims THEN NoLease ELSE lease_left[t]]
  /\ step_status' = [t \in Task |-> IF t \in victims
                       THEN [p \in Position |-> "absent"] ELSE step_status[t]]
  /\ step_log' = [t \in Task |-> IF t \in victims
                    THEN [p \in Position |-> "none"] ELSE step_log[t]]
  /\ victims' = {}
  /\ UNCHANGED <<claimed_by, ownership_version>>

\* The statement fails, or the server stops, before the commit.
PruneAbort ==
  /\ victims # {}
  /\ victims' = {}
  /\ UNCHANGED <<status, claimed_by, ownership_version, lease_left, current_step,
                 step_status, step_log>>

\* Time passes: every lease has one tick less left.
Tick ==
  /\ lease_left' = [t \in Task |->
       IF lease_left[t] \in {NoLease, LongExpired} THEN lease_left[t] ELSE lease_left[t] - 1]
  /\ UNCHANGED <<status, claimed_by, ownership_version, current_step, step_status,
                 step_log, victims>>

Prune == PruneDelete \/ PruneAbort \/ \E V \in SUBSET Task : PruneSnapshot(V)

Next ==
  \/ \E t \in Task : CancelTask(t) \/ \E n \in Position : CreateTask(t, n)
  \/ \E w \in Worker, t \in Task, age \in Age :
       \/ ClaimNext(w, t, age)
       \/ \E k \in Version :
            \/ RenewLease(w, t, k, age)
            \/ StartCurrentStep(w, t, k, age)
            \/ \E p \in Position, ok \in BOOLEAN : CompleteStep(w, t, k, p, ok, age)
  \/ Prune
  \/ Tick

Spec == Init /\ [][Next]_vars

-----------------------------------------------------------------------------
(* Invariants *)

(* The steps of a task are numbered 1..n and are done strictly one after the
   other: every step before the current one is done, no step after it was ever
   touched (AdvanceTask moves current_step to the next row and only that row
   can be started). Late, duplicate and failed reports must not disturb it. *)
StepsInOrder ==
  \A t \in Task : Exists(t) =>
    /\ \E n \in Position : CurrentPosition(t) <= n /\ Rows(t) = 1..n
    /\ \A p \in Rows(t) :
         /\ p < CurrentPosition(t) => step_status[t][p] = "done"
         /\ p > CurrentPosition(t) => step_status[t][p] \in {"pending", "cancelled"}

(* tasks.status and steps.status are written by different statements and agree
   at every commit: a task is done exactly when all its steps are, failed
   exactly when one step is, and cancelled only if no step is left to run. *)
StatusAgreesWithSteps ==
  \A t \in Task : Exists(t) =>
    LET Some(s) == \E p \in Rows(t) : step_status[t][p] = s IN
    /\ status[t] = "done" <=> \A p \in Rows(t) : step_status[t][p] = "done"
    /\ status[t] = "failed" <=> Some("failed")
    /\ status[t] = "cancelled" <=> Some("cancelled")
    /\ Some("running") => status[t] \in Active
    /\ status[t] = "running" => Some("running")

(* One row of step_logs per decided step, and it tells the step's fate: a
   success is never overwritten by a later failure report, a failure gives way
   to a later success (the ON CONFLICT clause of CompleteStep). *)
LogAgreesWithSteps ==
  \A t \in Task, p \in Position :
    /\ step_log[t][p] = "success" <=> step_status[t][p] = "done"
    /\ step_log[t][p] = "failure" <=> step_status[t][p] = "failed"

(* No active task is out of reach of ClaimNext: its WHERE clause takes an
   active task by its lease only, so an active task without one would never run
   again. A failed task keeps its lease for the success that may revive it. *)
ActiveHasLease ==
  \A t \in Task : status[t] \in Active =>
    lease_left[t] # NoLease /\ claimed_by[t] # NoWorker /\ ownership_version[t] > 0

(* The owner of an active task can always go on: StartCurrentStep finds a step
   at the current position that is pending or running, so it never answers
   ErrNoSteps or ErrInvalidState to a worker whose lease is good. *)
OwnerCanProceed ==
  \A t \in Task : status[t] \in Active \cup {"pending"} =>
    step_status[t][CurrentPosition(t)] \in {"pending", "running"}

(* The inductive invariant: the shape of one task's rows.

   The safety invariants of TaskStore are not inductive one by one. That the
   steps stay in order, for instance, needs to know that only the current step
   can be running or failed, which needs to know what each status of the task
   says about its current step. WellFormed puts the columns of one task
   together; every transaction takes a well-formed task to a well-formed one. *)

\* The status the current step has for each status of its task.
CurrentStepStatus(t) ==
  CASE status[t] = "pending" -> {"pending"}
    [] status[t] = "claimed" -> {"pending", "running"}
    [] status[t] = "running" -> {"running"}
    [] OTHER -> {status[t]}

\* The status of a step number behind the current one, if the step exists.
UntouchedStatus(t) ==
  IF status[t] = "cancelled" THEN "cancelled" ELSE "pending"

ExistingWellFormed(t) ==
  /\ \E n \in Position : /\ CurrentPosition(t) <= n
                         /\ \A p \in Position : step_status[t][p] # "absent" <=> p <= n
                         /\ status[t] = "done" => CurrentPosition(t) = n
  /\ \A p \in Position :
       /\ p < CurrentPosition(t) => step_status[t][p] = "done"
       /\ p = CurrentPosition(t) => step_status[t][p] \in CurrentStepStatus(t)
       /\ p > CurrentPosition(t) => step_status[t][p] \in {"absent", UntouchedStatus(t)}
  /\ current_step[t] = 0 => step_status[t][1] \in {"pending", "cancelled"}

MissingWellFormed(t) ==
  /\ current_step[t] = 0
  /\ \A p \in Position : step_status[t][p] = "absent"

WellFormed(t) ==
  /\ Exists(t) => ExistingWellFormed(t)
  /\ ~Exists(t) => MissingWellFormed(t)
  /\ status[t] \in {"absent", "pending"} => claimed_by[t] = NoWorker
  /\ status[t] \in Active \cup {"failed"} =>
       lease_left[t] # NoLease /\ claimed_by[t] # NoWorker /\ ownership_version[t] > 0
  /\ \A p \in Position :
       /\ step_log[t][p] = "success" <=> step_status[t][p] = "done"
       /\ step_log[t][p] = "failure" <=> step_status[t][p] = "failed"

\* A victim may be active by the time it is deleted, but never unclaimed.
VictimsWereClaimed == \A t \in victims : status[t] \in Active \cup Terminal

IInv == TypeOK /\ (\A t \in Task : WellFormed(t)) /\ VictimsWereClaimed

(* Action properties *)

TerminalKept(t) ==
  status[t] \in Terminal =>
    \/ status'[t] \in {status[t], "pruned"}
    \/ /\ status[t] = "failed" /\ status'[t] \in {"claimed", "done"}
       /\ \E p \in Position : step_status[t][p] = "failed" /\ step_status'[t][p] = "done"

(* A task leaves a terminal status in two ways only: retention deletes it, or a
   failed one is revived by the report that turns its failed step into a
   success. In particular nothing brings back a cancelled or a done task
   (TestCancellationIsTerminalAndFencesTheWorker). *)
TerminalIsFinal == [][\A t \in Task : TerminalKept(t)]_vars

StepMoves ==
  {<<"absent", "pending">>, <<"pending", "running">>, <<"pending", "cancelled">>,
   <<"running", "done">>, <<"running", "failed">>, <<"running", "cancelled">>,
   <<"failed", "done">>}

StepKeptOrMoved(t, p) ==
  \/ step_status'[t][p] = step_status[t][p]
  \/ <<step_status[t][p], step_status'[t][p]>> \in StepMoves
  \/ status'[t] = "pruned"

(* A step goes pending -> running -> done, with a detour over failed; it is
   cancelled before it is decided or never, and no duplicate report, takeover
   or restart of a worker sends it back or lets it skip running. *)
StepsMoveForward == [][\A t \in Task, p \in Position : StepKeptOrMoved(t, p)]_vars

(* The table implements TaskLifecycle: a task's steps still to do are its rows
   that are not done. *)
Phase(t) ==
  CASE status[t] = "pending" -> "waiting"
    [] status[t] \in Active -> "owned"
    [] status[t] = "pruned" -> "deleted"
    [] OTHER -> status[t]
Todo(t) == {p \in Rows(t) : step_status[t][p] # "done"}

Lifecycle == INSTANCE TaskLifecycle WITH
  phase <- [t \in Task |-> Phase(t)],
  todo <- [t \in Task |-> Todo(t)],
  holder <- claimed_by,
  token <- ownership_version

ImplementsLifecycle == Lifecycle!Spec

(* What the comment above PruneTerminalTasks says of it: an active task is
   never deleted. It does not hold. *)
ActiveNeverPruned ==
  [][\A t \in Task : status[t] \in Active => status'[t] # "pruned"]_vars
=============================================================================
