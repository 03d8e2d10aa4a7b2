--------------------------- MODULE TaskStore_proofs ---------------------------
(***************************************************************************)
(* Proofs about TaskStore, for every set of tasks and workers and every    *)
(* value of the bounds.                                                    *)
(***************************************************************************)
EXTENDS TaskStore, TLAPS

-----------------------------------------------------------------------------
(* Type correctness *)

LEMMA TypeInit == Init => TypeOK
BY StoreConstants DEF Init, TypeOK, TaskStatus, Version, LeaseLeft, StepStatus, Position

LEMMA TypeNext == TypeOK /\ [Next]_vars => TypeOK'
<1> SUFFICES ASSUME TypeOK, [Next]_vars PROVE TypeOK'
  OBVIOUS
<1> USE StoreConstants DEF TypeOK, TaskStatus, Active, Terminal, Version, LeaseLeft,
      LongExpired, StepStatus, Position, Age
<1>1. ASSUME NEW t \in Task, CancelTask(t) PROVE TypeOK'
  BY <1>1 DEF CancelTask, UnfinishedCancelled
<1>2. ASSUME NEW t \in Task, NEW n \in Position, CreateTask(t, n) PROVE TypeOK'
  BY <1>2 DEF CreateTask
<1>3. ASSUME NEW w \in Worker, NEW t \in Task, NEW age \in Age, ClaimNext(w, t, age)
      PROVE TypeOK'
  BY <1>3 DEF ClaimNext, NewLease, NextToken
<1>4. ASSUME NEW w \in Worker, NEW t \in Task, NEW age \in Age, NEW k \in Version,
             RenewLease(w, t, k, age)
      PROVE TypeOK'
  BY <1>4 DEF RenewLease, NewLease
<1>5. ASSUME NEW w \in Worker, NEW t \in Task, NEW age \in Age, NEW k \in Version,
             StartCurrentStep(w, t, k, age)
      PROVE TypeOK'
  <2>1. CurrentPosition(t) \in Position
    BY DEF CurrentPosition
  <2>2. CASE ResumeStep(t)
    BY <1>5, <2>2 DEF StartCurrentStep, ResumeStep
  <2>3. CASE BeginStep(t)
    BY <1>5, <2>1, <2>3 DEF StartCurrentStep, BeginStep
  <2> QED
    BY <1>5, <2>2, <2>3 DEF StartCurrentStep
<1>6. ASSUME NEW w \in Worker, NEW t \in Task, NEW age \in Age, NEW k \in Version,
             NEW p \in Position, NEW ok \in BOOLEAN, CompleteStep(w, t, k, p, ok, age)
      PROVE TypeOK'
  <2>1. step_log' \in [Task -> [Position -> {"none", "failure", "success"}]]
    BY <1>6 DEF CompleteStep, MergedLog
  <2>2. CASE AdvanceTask(t, p, ok)
    BY <1>6, <2>1, <2>2 DEF CompleteStep, AdvanceTask, LaterRows, Rows
  <2>3. CASE FinishTask(t, p, ok)
    BY <1>6, <2>1, <2>3 DEF CompleteStep, FinishTask
  <2>4. CASE FailTask(t, p, ok)
    BY <1>6, <2>1, <2>4 DEF CompleteStep, FailTask, LeaseAfterFailure
  <2>5. CASE KeepTask(t, p, ok)
    BY <1>6, <2>1, <2>5 DEF CompleteStep, KeepTask
  <2> QED
    BY <1>6, <2>2, <2>3, <2>4, <2>5 DEF CompleteStep
<1>7. CASE Prune
  <2>1. ASSUME NEW V \in SUBSET Task, PruneSnapshot(V) PROVE TypeOK'
    BY <2>1 DEF PruneSnapshot
  <2>2. CASE PruneAbort
    BY <2>2 DEF PruneAbort
  <2>3. CASE PruneDelete
    <3>1. status' \in [Task -> TaskStatus] /\ current_step' \in [Task -> 0..MaxSteps]
      BY <2>3 DEF PruneDelete
    <3>2. lease_left' \in [Task -> LeaseLeft]
      BY <2>3 DEF PruneDelete
    <3>3. step_status' \in [Task -> [Position -> StepStatus]]
      BY <2>3 DEF PruneDelete
    <3>4. step_log' \in [Task -> [Position -> {"none", "failure", "success"}]]
      BY <2>3 DEF PruneDelete
    <3> QED
      BY <2>3, <3>1, <3>2, <3>3, <3>4 DEF PruneDelete
  <2> QED
    BY <1>7, <2>1, <2>2, <2>3 DEF Prune
<1>8. CASE Tick
  BY <1>8 DEF Tick
<1>9. CASE UNCHANGED vars
  BY <1>9 DEF vars
<1> HIDE DEF TypeOK, TaskStatus, Active, Terminal, Version, LeaseLeft, LongExpired,
      StepStatus, Position, Age
<1> QED
  BY <1>1, <1>2, <1>3, <1>4, <1>5, <1>6, <1>7, <1>8, <1>9 DEF Next

(* Every column keeps to its domain: in particular current_step never leaves
   the numbered rows, ownership_version never passes its bound and the lease is
   never longer than LeaseDuration. *)
THEOREM TypeCorrect == Spec => []TypeOK
BY TypeInit, TypeNext, PTL DEF Spec
-----------------------------------------------------------------------------
(* The inductive invariant *)

LEMMA CurrentPositionType == TypeOK => \A t \in Task : CurrentPosition(t) \in Position
BY StoreConstants DEF TypeOK, CurrentPosition, Position

LEMMA IInvInit == Init => IInv
BY TypeInit, StoreConstants
DEF Init, IInv, WellFormed, MissingWellFormed, VictimsWereClaimed, Exists, Active, Position

(* A transaction that leaves a task's rows alone leaves it well-formed. *)
LEMMA UntouchedTask ==
  ASSUME NEW x \in Task, WellFormed(x),
         status'[x] = status[x], claimed_by'[x] = claimed_by[x],
         ownership_version'[x] = ownership_version[x],
         lease_left'[x] # NoLease \/ lease_left[x] = NoLease,
         current_step'[x] = current_step[x], step_status'[x] = step_status[x],
         step_log'[x] = step_log[x]
  PROVE  WellFormed(x)'
BY DEF WellFormed, ExistingWellFormed, MissingWellFormed, Exists, CurrentPosition,
       CurrentStepStatus, UntouchedStatus, Active

LEMMA CreateKeeps ==
  ASSUME IInv, NEW t \in Task, NEW n \in Position, CreateTask(t, n), NEW x \in Task
  PROVE  WellFormed(x)'
<1>1. CASE x # t
  BY <1>1, UntouchedTask DEF IInv, TypeOK, CreateTask
<1>2. CASE x = t
  <2>1. CurrentPosition(t)' = 1 /\ current_step'[t] = 0 /\ status'[t] = "pending"
    BY DEF IInv, TypeOK, CreateTask, WellFormed, MissingWellFormed, Exists, CurrentPosition
  <2>2. \A p \in Position : step_status'[t][p] = IF p <= n THEN "pending" ELSE "absent"
    BY DEF IInv, TypeOK, CreateTask
  <2>3. ExistingWellFormed(t)'
    BY <2>1, <2>2, StoreConstants DEF ExistingWellFormed, CurrentStepStatus, UntouchedStatus,
      Position
  <2> QED
    BY <1>2, <2>1, <2>2, <2>3 DEF IInv, TypeOK, CreateTask, WellFormed, MissingWellFormed, Exists, Active
<1> QED
  BY <1>1, <1>2

(* ClaimNext, RenewLease and Tick write the task's row only, and not its
   current_step. *)
LEMMA ClaimKeeps ==
  ASSUME IInv, NEW w \in Worker, NEW t \in Task, NEW age \in Age, ClaimNext(w, t, age),
         NEW x \in Task
  PROVE  WellFormed(x)'
<1>1. CASE x # t
  BY <1>1, UntouchedTask DEF IInv, TypeOK, ClaimNext
<1>2. CASE x = t
  <2>1. status[t] \in Active \cup {"pending"} /\ status'[t] = "claimed"
    BY DEF IInv, TypeOK, ClaimNext, Claimable
  <2>2. lease_left'[t] # NoLease /\ claimed_by'[t] # NoWorker /\ ownership_version'[t] > 0
    BY StoreConstants DEF IInv, TypeOK, ClaimNext, NewLease, NextToken, Age, Version
  <2>3. CurrentPosition(t)' = CurrentPosition(t)
    BY DEF ClaimNext, CurrentPosition
  <2>4. CurrentStepStatus(t) \subseteq CurrentStepStatus(t)' /\ UntouchedStatus(t)' = UntouchedStatus(t)
    BY <2>1 DEF CurrentStepStatus, UntouchedStatus, Active
  <2>5. ExistingWellFormed(t)
    BY <2>1 DEF IInv, WellFormed, Exists, Active
  <2>6. ExistingWellFormed(t)'
    BY <2>1, <2>3, <2>4, <2>5 DEF ClaimNext, ExistingWellFormed
  <2> QED
    BY <1>2, <2>1, <2>2, <2>6 DEF IInv, TypeOK, ClaimNext, WellFormed, Exists, Active
<1> QED
  BY <1>1, <1>2

LEMMA RenewKeeps ==
  ASSUME IInv, NEW w \in Worker, NEW t \in Task, NEW k \in Version, NEW age \in Age,
         RenewLease(w, t, k, age), NEW x \in Task
  PROVE  WellFormed(x)'
<1>1. lease_left'[x] # NoLease \/ lease_left[x] = NoLease
  BY StoreConstants DEF IInv, TypeOK, RenewLease, NewLease, Age
<1> QED
  BY <1>1, UntouchedTask DEF IInv, TypeOK, RenewLease

LEMMA TickKeeps ==
  ASSUME IInv, Tick, NEW x \in Task
  PROVE  WellFormed(x)'
<1>1. lease_left'[x] # NoLease \/ lease_left[x] = NoLease
  BY StoreConstants DEF IInv, TypeOK, Tick, LeaseLeft
<1> QED
  BY <1>1, UntouchedTask DEF IInv, Tick

LEMMA StartKeeps ==
  ASSUME IInv, NEW w \in Worker, NEW t \in Task, NEW k \in Version, NEW age \in Age,
         StartCurrentStep(w, t, k, age), NEW x \in Task
  PROVE  WellFormed(x)'
<1>0. CurrentPosition(t) \in Position
  BY CurrentPositionType DEF IInv
<1>1. CASE x # t
  BY <1>1, UntouchedTask DEF IInv, TypeOK, StartCurrentStep, ResumeStep, BeginStep
<1>2. CASE x = t
  <2>1. status[t] \in Active /\ status'[t] = "running"
    <3>1. status[t] \in Active \cup {"pending"}
      BY DEF IInv, TypeOK, TaskStatus, StartCurrentStep, CanStart, Exists
    <3>2. status[t] # "pending"
      BY StoreConstants DEF IInv, WellFormed, StartCurrentStep, CanStart, Owns
    <3> QED
      BY <3>1, <3>2 DEF IInv, TypeOK, StartCurrentStep
  <2>2. CurrentPosition(t)' = CurrentPosition(t)
    BY <1>0, <2>1, StoreConstants DEF IInv, TypeOK, StartCurrentStep, ResumeStep, BeginStep,
      CurrentPosition, Position
  <2>3. /\ step_status'[t][CurrentPosition(t)] = "running"
        /\ step_status[t][CurrentPosition(t)] \in {"pending", "running"}
        /\ \A p \in Position : p # CurrentPosition(t) => step_status'[t][p] = step_status[t][p]
    BY <1>0 DEF IInv, TypeOK, StartCurrentStep, ResumeStep, BeginStep
  <2>4. ExistingWellFormed(t)
    BY <2>1 DEF IInv, WellFormed, Exists, Active
  <2>5. UntouchedStatus(t)' = UntouchedStatus(t) /\ CurrentStepStatus(t)' = {"running"}
    BY <2>1 DEF UntouchedStatus, CurrentStepStatus, Active
  <2>6. \A p \in Position : step_status'[t][p] # "absent" <=> step_status[t][p] # "absent"
    BY <2>3
  <2>7. current_step'[t] # 0
    BY <1>0, <2>3, <2>4, StoreConstants
    DEF IInv, TypeOK, StartCurrentStep, ResumeStep, BeginStep, ExistingWellFormed,
      CurrentPosition, Position
  <2>8. ExistingWellFormed(t)'
    <3>1. PICK n \in Position : /\ CurrentPosition(t) <= n
                                /\ \A p \in Position : step_status[t][p] # "absent" <=> p <= n
      BY <2>4 DEF ExistingWellFormed
    <3>2. \A p \in Position :
            /\ p < CurrentPosition(t) => step_status'[t][p] = "done"
            /\ p = CurrentPosition(t) => step_status'[t][p] = "running"
            /\ p > CurrentPosition(t) => step_status'[t][p] \in {"absent", UntouchedStatus(t)}
      BY <1>0, <2>3, <2>4 DEF ExistingWellFormed, Position
    <3> QED
      BY <2>1, <2>2, <2>5, <2>6, <2>7, <3>1, <3>2 DEF ExistingWellFormed, Active
  <2>9. \A p \in Position : /\ step_log'[t][p] = "success" <=> step_status'[t][p] = "done"
                            /\ step_log'[t][p] = "failure" <=> step_status'[t][p] = "failed"
    BY <2>3 DEF IInv, WellFormed, StartCurrentStep
  <2> QED
    BY <1>2, <2>1, <2>8, <2>9 DEF IInv, TypeOK, StartCurrentStep, WellFormed, Exists, Active
<1> QED
  BY <1>1, <1>2

(* A report that is not refused is about the current step, which is running or
   failed, or repeats one about a step that is done. *)
LEMMA ReportFacts ==
  ASSUME IInv, NEW w \in Worker, NEW t \in Task, NEW k \in Version, NEW p \in Position,
         NEW age \in Age, CanReport(t, w, k, age), AcceptsReport(t, p)
  PROVE  /\ status[t] \in Active \cup {"done", "failed"}
         /\ ExistingWellFormed(t)
         /\ \/ step_status[t][p] = "done"
            \/ /\ p = CurrentPosition(t)
               /\ \/ step_status[t][p] = "running" /\ status[t] \in Active
                  \/ step_status[t][p] = "failed" /\ status[t] = "failed"
<1>1. status[t] \in Active \cup {"done", "failed"}
  BY StoreConstants DEF IInv, TypeOK, TaskStatus, Terminal, WellFormed, CanReport, Owns, Exists
<1>2. ExistingWellFormed(t)
  BY <1>1 DEF IInv, WellFormed, Exists, Active
<1>3. CASE step_status[t][p] # "done"
  <2>1. p = CurrentPosition(t)
    BY <1>3, StoreConstants DEF AcceptsReport, CurrentPosition, Position
  <2>2. step_status[t][p] \in CurrentStepStatus(t)
    BY <1>2, <2>1 DEF ExistingWellFormed
  <2> QED
    BY <1>1, <1>2, <1>3, <2>1, <2>2 DEF CurrentStepStatus, AcceptsReport, Active
<1> QED
  BY <1>1, <1>2, <1>3

LEMMA AdvanceKeeps ==
  ASSUME IInv, NEW w \in Worker, NEW t \in Task, NEW k \in Version, NEW p \in Position,
         NEW ok \in BOOLEAN, NEW age \in Age, CompleteStep(w, t, k, p, ok, age),
         AdvanceTask(t, p, ok)
  PROVE  WellFormed(t)'
<1>1. /\ p = CurrentPosition(t) /\ status[t] \in Active \cup {"failed"}
      /\ ExistingWellFormed(t)
  BY ReportFacts DEF CompleteStep, AdvanceTask, IsFirstSuccess, Active
<1>2. PICK n \in Position : p <= n /\ \A q \in Position : step_status[t][q] # "absent" <=> q <= n
  BY <1>1 DEF ExistingWellFormed
<1>3. p + 1 \in LaterRows(t, p)
  BY <1>2, StoreConstants DEF AdvanceTask, LaterRows, Rows, Position
<1>4. current_step'[t] = p + 1 /\ p + 1 \in Position /\ p + 1 <= n
  BY <1>2, <1>3, StoreConstants DEF IInv, TypeOK, AdvanceTask, LaterRows, Rows, Position
<1>5. CurrentPosition(t)' = p + 1
  BY <1>4, StoreConstants DEF CurrentPosition, Position
<1>6. /\ status'[t] = "claimed" /\ lease_left' = lease_left /\ claimed_by' = claimed_by
      /\ ownership_version' = ownership_version
  BY DEF IInv, TypeOK, CompleteStep, AdvanceTask
<1>7. /\ step_status'[t][p] = "done" /\ step_log'[t][p] = "success"
      /\ \A q \in Position : q # p =>
           step_status'[t][q] = step_status[t][q] /\ step_log'[t][q] = step_log[t][q]
  BY DEF IInv, TypeOK, CompleteStep, AdvanceTask, IsFirstSuccess
<1>8. UntouchedStatus(t) = "pending" /\ UntouchedStatus(t)' = "pending"
      /\ CurrentStepStatus(t)' = {"pending", "running"}
  BY <1>1, <1>6 DEF UntouchedStatus, CurrentStepStatus, Active
<1>9. \A q \in Position : step_status'[t][q] # "absent" <=> q <= n
  BY <1>2, <1>7
<1>10. \A q \in Position :
         /\ q < p + 1 => step_status'[t][q] = "done"
         /\ q = p + 1 => step_status'[t][q] \in {"pending", "running"}
         /\ q > p + 1 => step_status'[t][q] \in {"absent", "pending"}
  BY <1>1, <1>2, <1>4, <1>7, <1>8 DEF ExistingWellFormed, Position
<1>11. ExistingWellFormed(t)'
  BY <1>4, <1>5, <1>6, <1>8, <1>9, <1>10, StoreConstants DEF ExistingWellFormed, Position
<1> QED
  BY <1>1, <1>6, <1>7, <1>11 DEF IInv, WellFormed, Exists, Active

LEMMA FinishKeeps ==
  ASSUME IInv, NEW w \in Worker, NEW t \in Task, NEW k \in Version, NEW p \in Position,
         NEW ok \in BOOLEAN, NEW age \in Age, CompleteStep(w, t, k, p, ok, age),
         FinishTask(t, p, ok)
  PROVE  WellFormed(t)'
<1>1. p = CurrentPosition(t) /\ ExistingWellFormed(t)
  BY ReportFacts DEF CompleteStep, FinishTask, IsFirstSuccess
<1>2. PICK n \in Position : p <= n /\ \A q \in Position : step_status[t][q] # "absent" <=> q <= n
  BY <1>1 DEF ExistingWellFormed
<1>3. n = p
  BY <1>2, StoreConstants DEF FinishTask, LaterRows, Rows, Position
<1>4. CurrentPosition(t)' = p /\ current_step'[t] # 0 /\ status'[t] = "done"
  BY StoreConstants DEF IInv, TypeOK, FinishTask, CurrentPosition, Position
<1>5. /\ step_status'[t][p] = "done" /\ step_log'[t][p] = "success"
      /\ \A q \in Position : q # p =>
           step_status'[t][q] = step_status[t][q] /\ step_log'[t][q] = step_log[t][q]
  BY DEF IInv, TypeOK, CompleteStep, FinishTask, IsFirstSuccess
<1>6. \A q \in Position :
        /\ q <= p => step_status'[t][q] = "done"
        /\ q > p => step_status'[t][q] = "absent"
  BY <1>1, <1>2, <1>3, <1>5 DEF ExistingWellFormed, Position
<1>7. ExistingWellFormed(t)'
  BY <1>4, <1>6 DEF ExistingWellFormed, CurrentStepStatus, UntouchedStatus, Position
<1> QED
  BY <1>4, <1>5, <1>7 DEF IInv, WellFormed, Exists, Active

LEMMA FailKeeps ==
  ASSUME IInv, NEW w \in Worker, NEW t \in Task, NEW k \in Version, NEW p \in Position,
         NEW ok \in BOOLEAN, NEW age \in Age, CompleteStep(w, t, k, p, ok, age),
         FailTask(t, p, ok)
  PROVE  WellFormed(t)'
<1>1. p = CurrentPosition(t) /\ ExistingWellFormed(t) /\ status[t] \in Active
      /\ step_status[t][p] = "running"
  BY ReportFacts DEF CompleteStep, FailTask, IsFirstFailure
<1>2. /\ CurrentPosition(t)' = p /\ current_step'[t] = current_step[t] /\ status'[t] = "failed"
      /\ lease_left'[t] = lease_left[t] /\ claimed_by' = claimed_by
      /\ ownership_version' = ownership_version
  BY <1>1 DEF IInv, TypeOK, CompleteStep, FailTask, LeaseAfterFailure, CurrentPosition
<1>3. /\ step_status'[t][p] = "failed" /\ step_log'[t][p] = "failure"
      /\ \A q \in Position : q # p =>
           step_status'[t][q] = step_status[t][q] /\ step_log'[t][q] = step_log[t][q]
  BY DEF IInv, TypeOK, CompleteStep, FailTask, IsFirstFailure
<1>4. current_step[t] # 0
  BY <1>1, StoreConstants DEF ExistingWellFormed, CurrentPosition, Position
<1>5. UntouchedStatus(t) = UntouchedStatus(t)' /\ CurrentStepStatus(t)' = {"failed"}
  BY <1>1, <1>2 DEF UntouchedStatus, CurrentStepStatus, Active
<1>6. ExistingWellFormed(t)'
  BY <1>1, <1>2, <1>3, <1>4, <1>5 DEF ExistingWellFormed, Position, Active
<1> QED
  BY <1>1, <1>2, <1>3, <1>6 DEF IInv, WellFormed, Exists, Active

LEMMA KeepKeeps ==
  ASSUME IInv, NEW w \in Worker, NEW t \in Task, NEW k \in Version, NEW p \in Position,
         NEW ok \in BOOLEAN, NEW age \in Age, CompleteStep(w, t, k, p, ok, age),
         KeepTask(t, p, ok)
  PROVE  UNCHANGED vars
<1>1. step_status[t][p] \in {"done", "running", "failed"}
  BY ReportFacts DEF CompleteStep
<1>2. MergedLog(t, p, ok) = step_log[t][p]
  BY <1>1 DEF IInv, WellFormed, KeepTask, IsFirstSuccess, IsFirstFailure, MergedLog
<1>3. step_log' = step_log
  BY <1>2 DEF IInv, TypeOK, CompleteStep
<1> QED
  BY <1>3 DEF vars, CompleteStep, KeepTask

LEMMA ReportKeeps ==
  ASSUME IInv, NEW w \in Worker, NEW t \in Task, NEW k \in Version, NEW p \in Position,
         NEW ok \in BOOLEAN, NEW age \in Age, CompleteStep(w, t, k, p, ok, age),
         NEW x \in Task
  PROVE  WellFormed(x)'
<1>1. CASE KeepTask(t, p, ok)
  BY <1>1, KeepKeeps, UntouchedTask DEF IInv, vars
<1>2. CASE x # t /\ ~KeepTask(t, p, ok)
  BY <1>2, UntouchedTask DEF IInv, TypeOK, CompleteStep, AdvanceTask, FinishTask, FailTask
<1>3. CASE x = t /\ ~KeepTask(t, p, ok)
  BY <1>3, AdvanceKeeps, FinishKeeps, FailKeeps DEF CompleteStep
<1> QED
  BY <1>1, <1>2, <1>3

LEMMA CancelKeeps ==
  ASSUME IInv, NEW t \in Task, CancelTask(t), NEW x \in Task
  PROVE  WellFormed(x)'
<1>1. CASE x # t
  BY <1>1, UntouchedTask DEF IInv, TypeOK, CancelTask
<1>2. CASE x = t
  <2>1. status[t] \in Active \cup {"pending"} /\ ExistingWellFormed(t)
    BY DEF IInv, TypeOK, TaskStatus, CancelTask, WellFormed, Exists
  <2>2. CurrentPosition(t)' = CurrentPosition(t) /\ current_step'[t] = current_step[t]
        /\ status'[t] = "cancelled"
    BY DEF IInv, TypeOK, CancelTask, CurrentPosition
  <2>3. \A p \in Position : step_status'[t][p] =
          IF step_status[t][p] \in {"pending", "running"} THEN "cancelled" ELSE step_status[t][p]
    BY DEF IInv, TypeOK, CancelTask, UnfinishedCancelled
  <2>4. UntouchedStatus(t)' = "cancelled" /\ CurrentStepStatus(t)' = {"cancelled"}
    BY <2>2 DEF UntouchedStatus, CurrentStepStatus
  <2>5. UntouchedStatus(t) = "pending" /\ CurrentStepStatus(t) \subseteq {"pending", "running"}
    BY <2>1 DEF UntouchedStatus, CurrentStepStatus, Active
  <2>6. \A p \in Position :
          /\ p < CurrentPosition(t) => step_status'[t][p] = "done"
          /\ p = CurrentPosition(t) => step_status'[t][p] = "cancelled"
          /\ p > CurrentPosition(t) => step_status'[t][p] \in {"absent", "cancelled"}
    BY <2>1, <2>3, <2>5 DEF ExistingWellFormed
  <2>7. ExistingWellFormed(t)'
    <3>1. PICK n \in Position :
            CurrentPosition(t) <= n /\ \A p \in Position : step_status[t][p] # "absent" <=> p <= n
      BY <2>1 DEF ExistingWellFormed
    <3>2. \A p \in Position : step_status'[t][p] # "absent" <=> p <= n
      BY <2>3, <3>1
    <3>3. current_step[t] = 0 => step_status'[t][1] = "cancelled"
      BY <2>6, StoreConstants DEF CurrentPosition, Position
    <3> QED
      BY <2>2, <2>4, <2>6, <3>1, <3>2, <3>3 DEF ExistingWellFormed
  <2>8. \A p \in Position : /\ step_log'[t][p] = "success" <=> step_status'[t][p] = "done"
                            /\ step_log'[t][p] = "failure" <=> step_status'[t][p] = "failed"
    BY <2>3 DEF IInv, WellFormed, CancelTask
  <2> QED
    BY <1>2, <2>2, <2>7, <2>8 DEF IInv, WellFormed, Exists, Active
<1> QED
  BY <1>1, <1>2

LEMMA PruneKeeps ==
  ASSUME IInv, Prune, NEW x \in Task
  PROVE  WellFormed(x)'
<1>1. CASE PruneDelete /\ x \in victims
  BY <1>1 DEF IInv, TypeOK, PruneDelete, WellFormed, MissingWellFormed, Exists, Active
<1>2. CASE PruneDelete /\ x \notin victims
  BY <1>2, UntouchedTask DEF IInv, PruneDelete
<1>3. CASE PruneAbort
  BY <1>3, UntouchedTask DEF IInv, PruneAbort
<1>4. ASSUME NEW V \in SUBSET Task, PruneSnapshot(V) PROVE WellFormed(x)'
  BY <1>4, UntouchedTask DEF IInv, PruneSnapshot
<1> QED
  BY <1>1, <1>2, <1>3, <1>4 DEF Prune

LEMMA VictimsNext ==
  ASSUME IInv, [Next]_vars, NEW x \in victims'
  PROVE  status'[x] \in Active \cup Terminal
<1> USE DEF Active, Terminal
<1>0. x \in Task
  BY TypeNext DEF IInv, TypeOK
<1>1. ASSUME NEW t \in Task, NEW n \in Position, CreateTask(t, n)
      PROVE  status'[x] \in Active \cup Terminal
  BY <1>0, <1>1 DEF IInv, TypeOK, VictimsWereClaimed, CreateTask
<1>2. ASSUME NEW t \in Task, CancelTask(t) PROVE status'[x] \in Active \cup Terminal
  BY <1>0, <1>2 DEF IInv, TypeOK, VictimsWereClaimed, CancelTask
<1>3. ASSUME NEW w \in Worker, NEW t \in Task, NEW age \in Age, ClaimNext(w, t, age)
      PROVE  status'[x] \in Active \cup Terminal
  BY <1>0, <1>3 DEF IInv, TypeOK, VictimsWereClaimed, ClaimNext
<1>4. ASSUME NEW w \in Worker, NEW t \in Task, NEW age \in Age, NEW k \in Version,
             RenewLease(w, t, k, age)
      PROVE  status'[x] \in Active \cup Terminal
  BY <1>4 DEF IInv, VictimsWereClaimed, RenewLease
<1>5. ASSUME NEW w \in Worker, NEW t \in Task, NEW age \in Age, NEW k \in Version,
             StartCurrentStep(w, t, k, age)
      PROVE  status'[x] \in Active \cup Terminal
  BY <1>0, <1>5 DEF IInv, TypeOK, VictimsWereClaimed, StartCurrentStep
<1>6. ASSUME NEW w \in Worker, NEW t \in Task, NEW age \in Age, NEW k \in Version,
             NEW p \in Position, NEW ok \in BOOLEAN, CompleteStep(w, t, k, p, ok, age)
      PROVE  status'[x] \in Active \cup Terminal
  BY <1>0, <1>6
  DEF IInv, TypeOK, VictimsWereClaimed, CompleteStep, AdvanceTask, FinishTask, FailTask, KeepTask
<1>7. CASE Prune
  BY <1>0, <1>7 DEF IInv, TypeOK, VictimsWereClaimed, Prune, PruneSnapshot, PruneDelete, PruneAbort
<1>8. CASE Tick
  BY <1>8 DEF IInv, VictimsWereClaimed, Tick
<1>9. CASE UNCHANGED vars
  BY <1>9 DEF IInv, VictimsWereClaimed, vars
<1> QED
  BY <1>1, <1>2, <1>3, <1>4, <1>5, <1>6, <1>7, <1>8, <1>9 DEF Next

LEMMA IInvNext == IInv /\ [Next]_vars => IInv'
<1> SUFFICES ASSUME IInv, [Next]_vars PROVE IInv'
  OBVIOUS
<1>1. ASSUME NEW x \in Task, UNCHANGED vars PROVE WellFormed(x)'
  BY <1>1, UntouchedTask DEF IInv, vars
<1>2. ASSUME NEW x \in Task, Next PROVE WellFormed(x)'
  BY <1>2, CancelKeeps, CreateKeeps, ClaimKeeps, RenewKeeps, StartKeeps, ReportKeeps,
     PruneKeeps, TickKeeps DEF Next
<1>3. TypeOK'
  BY TypeNext DEF IInv
<1>4. VictimsWereClaimed'
  BY VictimsNext DEF VictimsWereClaimed
<1> QED
  BY <1>1, <1>2, <1>3, <1>4 DEF IInv

(* Every task's rows stay well-formed. *)
THEOREM WellFormedAlways == Spec => []IInv
BY IInvInit, IInvNext, PTL DEF Spec

-----------------------------------------------------------------------------
(* The invariants of TaskStore follow from the shape of the rows. *)

(* Steps are done strictly one after the other, whatever reports, takeovers and
   cancellations happen. *)
THEOREM StepsInOrderAlways == Spec => []StepsInOrder
<1>1. IInv => StepsInOrder
  <2> SUFFICES ASSUME IInv, NEW t \in Task, Exists(t)
               PROVE  /\ \E n \in Position : CurrentPosition(t) <= n /\ Rows(t) = 1..n
                      /\ \A p \in Rows(t) :
                           /\ p < CurrentPosition(t) => step_status[t][p] = "done"
                           /\ p > CurrentPosition(t) =>
                                step_status[t][p] \in {"pending", "cancelled"}
    BY DEF StepsInOrder
  <2>1. ExistingWellFormed(t)
    BY DEF IInv, WellFormed
  <2>2. PICK n \in Position :
          CurrentPosition(t) <= n /\ \A p \in Position : step_status[t][p] # "absent" <=> p <= n
    BY <2>1 DEF ExistingWellFormed
  <2>3. Rows(t) = 1..n
    BY <2>2, StoreConstants DEF Rows, Position
  <2> QED
    BY <2>1, <2>2, <2>3 DEF ExistingWellFormed, UntouchedStatus, Rows
<1> QED
  BY <1>1, WellFormedAlways, PTL

(* The status of a task and the statuses of its steps never contradict one
   another. *)
THEOREM StatusAgreesAlways == Spec => []StatusAgreesWithSteps
<1>1. IInv => StatusAgreesWithSteps
  <2> SUFFICES ASSUME IInv, NEW t \in Task, Exists(t)
               PROVE  /\ status[t] = "done" <=> \A p \in Rows(t) : step_status[t][p] = "done"
                      /\ status[t] = "failed" <=> \E p \in Rows(t) : step_status[t][p] = "failed"
                      /\ status[t] = "cancelled" <=>
                           \E p \in Rows(t) : step_status[t][p] = "cancelled"
                      /\ (\E p \in Rows(t) : step_status[t][p] = "running") =>
                           status[t] \in Active
                      /\ status[t] = "running" =>
                           \E p \in Rows(t) : step_status[t][p] = "running"
    BY DEF StatusAgreesWithSteps
  <2>1. ExistingWellFormed(t) /\ CurrentPosition(t) \in Position
    BY CurrentPositionType DEF IInv, WellFormed
  <2>2. status[t] \in TaskStatus /\ status[t] \notin {"absent", "pruned"}
    BY DEF IInv, TypeOK, Exists
  <2>3. CurrentPosition(t) \in Rows(t)
    BY <2>1 DEF ExistingWellFormed, Rows, Position
  <2>4. step_status[t][CurrentPosition(t)] \in CurrentStepStatus(t)
    BY <2>1 DEF ExistingWellFormed
  <2>5. \A p \in Rows(t) : \/ step_status[t][p] = "done" /\ p < CurrentPosition(t)
                           \/ p = CurrentPosition(t)
                           \/ step_status[t][p] = UntouchedStatus(t) /\ p > CurrentPosition(t)
    BY <2>1 DEF ExistingWellFormed, Rows, Position
  <2>6. status[t] = "done" => \A p \in Rows(t) : p <= CurrentPosition(t)
    BY <2>1 DEF ExistingWellFormed, Rows
  <2> QED
    BY <2>1, <2>2, <2>3, <2>4, <2>5, <2>6
    DEF CurrentStepStatus, UntouchedStatus, TaskStatus, Active, Terminal, Position, Rows
<1> QED
  BY <1>1, WellFormedAlways, PTL

(* Every decided step has the one log row that tells its fate. *)
THEOREM LogAgreesAlways == Spec => []LogAgreesWithSteps
<1>1. IInv => LogAgreesWithSteps
  BY DEF IInv, WellFormed, LogAgreesWithSteps
<1> QED
  BY <1>1, WellFormedAlways, PTL

(* No active task is ever out of reach of ClaimNext. *)
THEOREM ActiveHasLeaseAlways == Spec => []ActiveHasLease
<1>1. IInv => ActiveHasLease
  BY DEF IInv, WellFormed, ActiveHasLease
<1> QED
  BY <1>1, WellFormedAlways, PTL

(* StartCurrentStep never refuses the step to the owner of a live lease. *)
THEOREM OwnerCanProceedAlways == Spec => []OwnerCanProceed
<1>1. IInv => OwnerCanProceed
  BY CurrentPositionType
  DEF IInv, WellFormed, ExistingWellFormed, CurrentStepStatus, OwnerCanProceed, Exists, Active
<1> QED
  BY <1>1, WellFormedAlways, PTL

-----------------------------------------------------------------------------
(* The action properties. *)

LEMMA TerminalKeptByNext ==
  ASSUME IInv, [Next]_vars, NEW x \in Task, status[x] \in Terminal
  PROVE  TerminalKept(x)
<1> USE DEF TerminalKept, Terminal
<1>1. ASSUME NEW t \in Task, NEW n \in Position, CreateTask(t, n) PROVE TerminalKept(x)
  BY <1>1 DEF IInv, TypeOK, CreateTask
<1>2. ASSUME NEW t \in Task, CancelTask(t) PROVE TerminalKept(x)
  BY <1>2 DEF IInv, TypeOK, CancelTask
<1>3. ASSUME NEW w \in Worker, NEW t \in Task, NEW age \in Age, ClaimNext(w, t, age)
      PROVE  TerminalKept(x)
  BY <1>3 DEF IInv, TypeOK, ClaimNext, Claimable, Active
<1>4. ASSUME NEW w \in Worker, NEW t \in Task, NEW age \in Age, NEW k \in Version,
             RenewLease(w, t, k, age)
      PROVE  TerminalKept(x)
  BY <1>4 DEF RenewLease
<1>5. ASSUME NEW w \in Worker, NEW t \in Task, NEW age \in Age, NEW k \in Version,
             StartCurrentStep(w, t, k, age)
      PROVE  TerminalKept(x)
  BY <1>5 DEF IInv, TypeOK, StartCurrentStep, CanStart
<1>6. ASSUME NEW w \in Worker, NEW t \in Task, NEW age \in Age, NEW k \in Version,
             NEW p \in Position, NEW ok \in BOOLEAN, CompleteStep(w, t, k, p, ok, age)
      PROVE  TerminalKept(x)
  <2>1. CASE x # t
    BY <1>6, <2>1 DEF IInv, TypeOK, CompleteStep, AdvanceTask, FinishTask, FailTask, KeepTask
  <2>2. CASE KeepTask(t, p, ok)
    BY <2>2 DEF KeepTask
  <2>3. CASE x = t /\ ~KeepTask(t, p, ok)
    <3>1. CanReport(t, w, k, age) /\ AcceptsReport(t, p)
      BY <1>6 DEF CompleteStep
    <3>2. \/ step_status[t][p] = "done"
          \/ step_status[t][p] = "failed" /\ status[t] = "failed"
      BY <2>3, <3>1, ReportFacts DEF Active
    <3>3. IsFirstSuccess(t, p, ok)
      BY <1>6, <2>3, <3>2 DEF CompleteStep, AdvanceTask, FinishTask, FailTask, IsFirstFailure
    <3> QED
      BY <1>6, <2>3, <3>2, <3>3
      DEF IInv, TypeOK, CompleteStep, AdvanceTask, FinishTask, FailTask, IsFirstSuccess,
        IsFirstFailure
  <2> QED
    BY <2>1, <2>2, <2>3
<1>7. CASE Prune
  BY <1>7 DEF IInv, TypeOK, Prune, PruneSnapshot, PruneDelete, PruneAbort
<1>8. CASE Tick
  BY <1>8 DEF Tick
<1>9. CASE UNCHANGED vars
  BY <1>9 DEF vars
<1> QED
  BY <1>1, <1>2, <1>3, <1>4, <1>5, <1>6, <1>7, <1>8, <1>9 DEF Next

(* Done and cancelled are for ever, and a failed task comes back only with the
   success of its failed step. *)
THEOREM TerminalIsFinalAlways == Spec => TerminalIsFinal
<1>1. IInv /\ [Next]_vars => [\A t \in Task : TerminalKept(t)]_vars
  <2> SUFFICES ASSUME IInv, [Next]_vars, NEW t \in Task PROVE TerminalKept(t)
    OBVIOUS
  <2> QED
    BY TerminalKeptByNext DEF TerminalKept
<1> QED
  BY <1>1, WellFormedAlways, PTL DEF Spec, TerminalIsFinal

LEMMA StepMovesByNext ==
  ASSUME IInv, [Next]_vars, NEW x \in Task, NEW q \in Position
  PROVE  StepKeptOrMoved(x, q)
<1> USE DEF StepKeptOrMoved, StepMoves
<1>1. ASSUME NEW t \in Task, NEW n \in Position, CreateTask(t, n) PROVE StepKeptOrMoved(x, q)
  BY <1>1 DEF IInv, TypeOK, CreateTask, WellFormed, MissingWellFormed, Exists
<1>2. ASSUME NEW t \in Task, CancelTask(t) PROVE StepKeptOrMoved(x, q)
  BY <1>2 DEF IInv, TypeOK, CancelTask, UnfinishedCancelled
<1>3. ASSUME NEW w \in Worker, NEW t \in Task, NEW age \in Age, ClaimNext(w, t, age)
      PROVE  StepKeptOrMoved(x, q)
  BY <1>3 DEF ClaimNext
<1>4. ASSUME NEW w \in Worker, NEW t \in Task, NEW age \in Age, NEW k \in Version,
             RenewLease(w, t, k, age)
      PROVE  StepKeptOrMoved(x, q)
  BY <1>4 DEF RenewLease
<1>5. ASSUME NEW w \in Worker, NEW t \in Task, NEW age \in Age, NEW k \in Version,
             StartCurrentStep(w, t, k, age)
      PROVE  StepKeptOrMoved(x, q)
  BY <1>5, CurrentPositionType DEF IInv, TypeOK, StartCurrentStep, ResumeStep, BeginStep
<1>6. ASSUME NEW w \in Worker, NEW t \in Task, NEW age \in Age, NEW k \in Version,
             NEW p \in Position, NEW ok \in BOOLEAN, CompleteStep(w, t, k, p, ok, age)
      PROVE  StepKeptOrMoved(x, q)
  <2>1. step_status[t][p] \in {"done", "running", "failed"}
    BY <1>6, ReportFacts DEF CompleteStep
  <2> QED
    BY <1>6, <2>1 DEF IInv, TypeOK, CompleteStep, AdvanceTask, FinishTask, FailTask, KeepTask,
      IsFirstSuccess, IsFirstFailure
<1>7. CASE Prune
  BY <1>7 DEF IInv, TypeOK, Prune, PruneSnapshot, PruneDelete, PruneAbort
<1>8. CASE Tick
  BY <1>8 DEF Tick
<1>9. CASE UNCHANGED vars
  BY <1>9 DEF vars
<1> HIDE DEF StepKeptOrMoved, StepMoves
<1> QED
  BY <1>1, <1>2, <1>3, <1>4, <1>5, <1>6, <1>7, <1>8, <1>9 DEF Next

(* No step ever goes back, and none is decided without having been started. *)
THEOREM StepsMoveForwardAlways == Spec => StepsMoveForward
<1>1. IInv /\ [Next]_vars => [\A t \in Task, p \in Position : StepKeptOrMoved(t, p)]_vars
  BY StepMovesByNext
<1> QED
  BY <1>1, WellFormedAlways, PTL DEF Spec, StepsMoveForward

-----------------------------------------------------------------------------
(* TaskStore implements TaskLifecycle. *)

LEMMA RefinementInit == Init => Lifecycle!Init
BY DEF Init, Lifecycle!Init, Phase, Todo, Rows, Active

(* A step that keeps the columns the lifecycle is read from is a stutter. *)
LEMMA RefinementStutter ==
  ASSUME \A t \in Task : Phase(t)' = Phase(t) /\ Todo(t)' = Todo(t),
         claimed_by' = claimed_by, ownership_version' = ownership_version
  PROVE  UNCHANGED Lifecycle!vars
BY DEF Lifecycle!vars

LEMMA RefinementReport ==
  ASSUME IInv, IInv', NEW w \in Worker, NEW t \in Task, NEW k \in Version, NEW p \in Position,
         NEW ok \in BOOLEAN, NEW age \in Age, CompleteStep(w, t, k, p, ok, age)
  PROVE  [Lifecycle!Next]_(Lifecycle!vars)
<1>1. claimed_by' = claimed_by /\ ownership_version' = ownership_version
  BY DEF CompleteStep
<1>2. /\ status[t] \in Active \cup {"done", "failed"}
      /\ ExistingWellFormed(t)
      /\ \/ step_status[t][p] = "done"
         \/ p = CurrentPosition(t) /\ step_status[t][p] = "running" /\ status[t] \in Active
         \/ p = CurrentPosition(t) /\ step_status[t][p] = "failed" /\ status[t] = "failed"
  BY ReportFacts DEF CompleteStep
<1>3. \A x \in Task : x # t /\ (AdvanceTask(t, p, ok) \/ FinishTask(t, p, ok) \/ FailTask(t, p, ok))
        => Phase(x)' = Phase(x) /\ Todo(x)' = Todo(x)
  BY DEF IInv, TypeOK, AdvanceTask, FinishTask, FailTask, Phase, Todo, Rows
<1>4. CASE KeepTask(t, p, ok)
  BY <1>1, <1>4, RefinementStutter DEF KeepTask, Phase, Todo, Rows
<1>5. CASE FailTask(t, p, ok)
  <2>1. status[t] \in Active /\ step_status[t][p] = "running"
    BY <1>2, <1>5 DEF FailTask, IsFirstFailure
  <2>2. Phase(t) = "owned" /\ Phase(t)' = "failed"
    BY <1>5, <2>1 DEF IInv, TypeOK, FailTask, Phase, Active
  <2>3. Todo(t)' = Todo(t) /\ p \in Todo(t)
    BY <1>5, <2>1 DEF IInv, TypeOK, FailTask, Todo, Rows
  <2>4. Lifecycle!Fail(t)
    BY <1>1, <1>3, <1>5, <2>2, <2>3 DEF Lifecycle!Fail
  <2> QED
    BY <2>4 DEF Lifecycle!Next
<1>6. CASE AdvanceTask(t, p, ok) \/ FinishTask(t, p, ok)
  <2>1. p = CurrentPosition(t) /\ status[t] \in Active \cup {"failed"}
        /\ step_status[t][p] \in {"running", "failed"}
    BY <1>2, <1>6 DEF AdvanceTask, FinishTask, IsFirstSuccess
  <2>2. p \in Todo(t) /\ \A q \in Todo(t) : p <= q
    BY <1>2, <2>1 DEF ExistingWellFormed, Todo, Rows, Position
  <2>3. Todo(t)' = Todo(t) \ {p}
    BY <1>6 DEF IInv, TypeOK, AdvanceTask, FinishTask, Todo, Rows
  <2>4. Phase(t) \in {"owned", "failed"}
    BY <2>1 DEF Phase, Active
  <2>5. Phase(t)' = IF Todo(t) = {p} THEN "done" ELSE "owned"
    <3>1. LaterRows(t, p) \subseteq Todo(t)
      BY <1>2, <2>1
      DEF ExistingWellFormed, LaterRows, Rows, Todo, UntouchedStatus, Position
    <3>2. \A q \in Todo(t) : q # p => q \in LaterRows(t, p)
      BY <2>2 DEF Todo, LaterRows, Rows, Position
    <3>3. AdvanceTask(t, p, ok) => Todo(t) # {p} /\ status'[t] = "claimed"
      BY <3>1 DEF IInv, TypeOK, AdvanceTask, LaterRows, Position
    <3>4. FinishTask(t, p, ok) => Todo(t) = {p} /\ status'[t] = "done"
      BY <2>2, <3>2 DEF IInv, TypeOK, FinishTask
    <3> QED
      BY <1>6, <3>3, <3>4 DEF Phase, Active
  <2>6. Lifecycle!Succeed(t)
    BY <1>1, <1>3, <1>6, <2>2, <2>3, <2>4, <2>5 DEF Lifecycle!Succeed
  <2> QED
    BY <2>6 DEF Lifecycle!Next
<1> QED
  BY <1>4, <1>5, <1>6 DEF CompleteStep

LEMMA RefinementNext ==
  IInv /\ IInv' /\ [Next]_vars => [Lifecycle!Next]_(Lifecycle!vars)
<1> SUFFICES ASSUME IInv, IInv', [Next]_vars PROVE [Lifecycle!Next]_(Lifecycle!vars)
  OBVIOUS
<1>1. ASSUME NEW t \in Task, NEW n \in Position, CreateTask(t, n) PROVE Lifecycle!Submit(t, n)
  <2>1. Todo(t)' = 1..n
    BY <1>1, StoreConstants DEF IInv, TypeOK, CreateTask, Todo, Rows, Position
  <2>2. Phase(t) = "absent" /\ Phase(t)' = "waiting"
    BY <1>1 DEF IInv, TypeOK, CreateTask, Phase, Active
  <2>3. \A x \in Task : x # t => Phase(x)' = Phase(x) /\ Todo(x)' = Todo(x)
    BY <1>1 DEF IInv, TypeOK, CreateTask, Phase, Todo, Rows
  <2> QED
    BY <1>1, <2>1, <2>2, <2>3 DEF CreateTask, Lifecycle!Submit
<1>2. ASSUME NEW t \in Task, CancelTask(t) PROVE Lifecycle!Cancel(t)
  <2>1. Phase(t) \in {"waiting", "owned"} /\ Phase(t)' = "cancelled"
    BY <1>2 DEF IInv, TypeOK, TaskStatus, CancelTask, Exists, Phase, Active
  <2>2. \A x \in Task : x # t => Phase(x)' = Phase(x)
    BY <1>2 DEF IInv, TypeOK, CancelTask, Phase
  <2>3. \A x \in Task : Todo(x)' = Todo(x)
    BY <1>2 DEF IInv, TypeOK, CancelTask, UnfinishedCancelled, Todo, Rows
  <2> QED
    BY <1>2, <2>1, <2>2, <2>3 DEF CancelTask, Lifecycle!Cancel
<1>3. ASSUME NEW w \in Worker, NEW t \in Task, NEW age \in Age, ClaimNext(w, t, age)
      PROVE  Lifecycle!HandOver(t, w)
  <2>1. Phase(t) \in {"waiting", "owned"} /\ Phase(t)' = "owned"
    BY <1>3 DEF IInv, TypeOK, ClaimNext, Claimable, Phase, Active
  <2>2. \A x \in Task : x # t => Phase(x)' = Phase(x)
    BY <1>3 DEF IInv, TypeOK, ClaimNext, Phase
  <2>3. \A x \in Task : Todo(x)' = Todo(x)
    BY <1>3 DEF ClaimNext, Todo, Rows
  <2> QED
    BY <1>3, <2>1, <2>2, <2>3 DEF ClaimNext, NextToken, Lifecycle!HandOver
<1>4. ASSUME NEW w \in Worker, NEW t \in Task, NEW age \in Age, NEW k \in Version,
             RenewLease(w, t, k, age)
      PROVE  UNCHANGED Lifecycle!vars
  BY <1>4, RefinementStutter DEF RenewLease, Phase, Todo, Rows
<1>5. ASSUME NEW w \in Worker, NEW t \in Task, NEW age \in Age, NEW k \in Version,
             StartCurrentStep(w, t, k, age)
      PROVE  UNCHANGED Lifecycle!vars
  <2>1. CurrentPosition(t) \in Position
    BY CurrentPositionType DEF IInv
  <2>2. status[t] \in Active /\ status'[t] = "running"
    BY <1>5, StoreConstants
    DEF IInv, TypeOK, TaskStatus, WellFormed, StartCurrentStep, CanStart, Owns, Exists
  <2>3. \A x \in Task : Phase(x)' = Phase(x)
    BY <1>5, <2>2 DEF IInv, TypeOK, StartCurrentStep, Phase, Active
  <2>4. \A x \in Task : Todo(x)' = Todo(x)
    BY <1>5, <2>1 DEF IInv, TypeOK, StartCurrentStep, ResumeStep, BeginStep, Todo, Rows
  <2> QED
    BY <1>5, <2>3, <2>4, RefinementStutter DEF StartCurrentStep
<1>6. ASSUME NEW V \in SUBSET Task, PruneSnapshot(V) PROVE UNCHANGED Lifecycle!vars
  BY <1>6, RefinementStutter DEF PruneSnapshot, Phase, Todo, Rows
<1>7. ASSUME PruneAbort PROVE UNCHANGED Lifecycle!vars
  BY <1>7, RefinementStutter DEF PruneAbort, Phase, Todo, Rows
<1>8. ASSUME Tick PROVE UNCHANGED Lifecycle!vars
  BY <1>8, RefinementStutter DEF Tick, Phase, Todo, Rows
<1>9. ASSUME PruneDelete PROVE Lifecycle!Delete(victims)
  <2>1. \A v \in victims : /\ Phase(v) \in {"owned", "done", "failed", "cancelled"}
                           /\ Phase(v)' = "deleted" /\ Todo(v)' = {}
    BY <1>9 DEF IInv, TypeOK, VictimsWereClaimed, PruneDelete, Phase, Todo, Rows, Active, Terminal
  <2>2. \A x \in Task \ victims : Phase(x)' = Phase(x) /\ Todo(x)' = Todo(x)
    BY <1>9 DEF PruneDelete, Phase, Todo, Rows
  <2> QED
    BY <1>9, <2>1, <2>2 DEF IInv, TypeOK, PruneDelete, Lifecycle!Delete
<1>10. CASE UNCHANGED vars
  BY <1>10, RefinementStutter DEF vars, Phase, Todo, Rows
<1>11. CASE Prune
  <2>1. CASE PruneDelete
    BY <1>9, <2>1 DEF IInv, TypeOK, Lifecycle!Next
  <2> QED
    BY <1>6, <1>7, <1>11, <2>1 DEF Prune
<1>12. CASE \E t \in Task : CancelTask(t) \/ \E n \in Position : CreateTask(t, n)
  BY <1>1, <1>2, <1>12 DEF Position, Lifecycle!Next
<1>13. ASSUME NEW w \in Worker, NEW t \in Task, NEW age \in Age, ClaimNext(w, t, age)
       PROVE  Lifecycle!Next
  BY <1>3, <1>13 DEF Lifecycle!Next
<1> QED
  BY <1>4, <1>5, <1>8, <1>10, <1>11, <1>12, <1>13, RefinementReport DEF Next

(* The task table does what TaskLifecycle promises, for any number of tasks,
   workers and steps. *)
THEOREM LifecycleImplemented == Spec => ImplementsLifecycle
BY RefinementInit, RefinementNext, WellFormedAlways, PTL
DEF Spec, ImplementsLifecycle, Lifecycle!Spec
=============================================================================
