------------------------- MODULE ActivityLog_proofs -------------------------
(***************************************************************************)
(* Proofs about ActivityLog, for every set of tasks and workers and every  *)
(* value of the bounds.                                                    *)
(***************************************************************************)
EXTENDS ActivityLog, TaskStore_proofs, SequenceTheorems, FiniteSetTheorems

-----------------------------------------------------------------------------
(* The log is added to the transactions without changing them. *)

LEMMA LoggedStoreNext == [ActivityNext]_activityVars => [Next]_vars
<1> SUFFICES ASSUME [ActivityNext]_activityVars PROVE [Next]_vars
  OBVIOUS
<1>1. ASSUME NEW t \in Task, NEW n \in Position, CreateTaskLogged(t, n) PROVE Next
  BY <1>1 DEF CreateTaskLogged, Next
<1>2. ASSUME NEW t \in Task, CancelTaskLogged(t) PROVE Next
  BY <1>2 DEF CancelTaskLogged, Next
<1>3. ASSUME NEW w \in Worker, NEW t \in Task, NEW age \in Age, ClaimNextLogged(w, t, age)
      PROVE  Next
  BY <1>3 DEF ClaimNextLogged, Next
<1>4. ASSUME NEW w \in Worker, NEW t \in Task, NEW age \in Age, NEW k \in Version,
             StartCurrentStepLogged(w, t, k, age)
      PROVE  Next
  BY <1>4 DEF StartCurrentStepLogged, Next
<1>5. ASSUME NEW w \in Worker, NEW t \in Task, NEW age \in Age, NEW k \in Version,
             NEW p \in Position, NEW ok \in BOOLEAN, CompleteStepLogged(w, t, k, p, ok, age)
      PROVE  Next
  BY <1>5 DEF CompleteStepLogged, Next
<1>6. CASE PruneDeleteLogged
  BY <1>6 DEF PruneDeleteLogged, Next, Prune
<1>7. CASE Unlogged
  BY <1>7 DEF Unlogged, Next, Prune
<1>8. CASE UNCHANGED activityVars
  BY <1>8 DEF activityVars
<1> QED
  BY <1>1, <1>2, <1>3, <1>4, <1>5, <1>6, <1>7, <1>8 DEF ActivityNext

(* What is proved of the task table holds with its log too. *)
THEOREM ActivityImplementsStore == ActivitySpec => Spec
<1>1. ActivityInit => Init
  BY DEF ActivityInit
<1> QED
  BY <1>1, LoggedStoreNext, PTL DEF ActivitySpec, Spec

LEMMA StoreInvariantLogged == ActivitySpec => []IInv
BY ActivityImplementsStore, WellFormedAlways, PTL

-----------------------------------------------------------------------------
(* What a transaction writes is what is new in the log. *)

LEMMA WrittenIsNew ==
  ASSUME ActivityTypeOK, NEW t \in Task, NEW new \in Seq(Event), writeActivity(t, new)
  PROVE  /\ activity'[t] = activity[t] \o new
         /\ NewEvents(t) = new
         /\ activity' \in [Task -> Seq(Event)]
         /\ \A x \in Task \ {t} : activity'[x] = activity[x]
<1>1. /\ activity[t] \in Seq(Event) /\ activity'[t] = activity[t] \o new
      /\ \A x \in Task \ {t} : activity'[x] = activity[x]
  BY DEF writeActivity, ActivityTypeOK
<1>2. /\ activity'[t] \in Seq(Event) /\ Len(activity'[t]) = Len(activity[t]) + Len(new)
      /\ Len(activity[t]) \in Nat /\ Len(new) \in Nat
  BY <1>1, ConcatProperties, LenProperties
<1>3. activity' \in [Task -> Seq(Event)]
  BY <1>1, <1>2 DEF writeActivity, ActivityTypeOK
<1>4. CASE Len(new) = 0
  <2>1. new = <<>>
    BY <1>4, EmptySeq
  <2>2. NewEvents(t) = <<>>
    BY <1>2, <1>4, SubSeqEmpty DEF NewEvents
  <2> QED
    BY <1>1, <1>3, <2>1, <2>2
<1>5. CASE Len(new) # 0
  <2>1. NewEvents(t) = SubSeq(new, 1, Len(new))
    <3> DEFINE a == Len(activity[t])
    <3>1. /\ a + 1 \in a + 1 .. a + Len(new) /\ a + Len(new) \in a + 1 .. a + Len(new)
          /\ (a + 1) - a = 1 /\ (a + Len(new)) - a = Len(new)
      BY <1>2, <1>5
    <3> QED
      BY <1>1, <1>2, <3>1, SubSeqOfConcat2 DEF NewEvents
  <2>2. SubSeq(new, 1, Len(new)) = new
    BY SubSeqFull
  <2> QED
    BY <1>1, <1>3, <2>1, <2>2
<1> QED
  BY <1>4, <1>5

LEMMA SameRowsSameTables ==
  ASSUME NEW x \in Task, status'[x] = status[x], claimed_by'[x] = claimed_by[x],
         ownership_version'[x] = ownership_version[x], current_step'[x] = current_step[x],
         step_status'[x] = step_status[x]
  PROVE  InTables(x)' = InTables(x)
BY DEF InTables, RowsOfTask, StepsDone, Exists, Rows

LEMMA ExistingInTables == \A t \in Task : Exists(t) => InTables(t) = RowsOfTask(t)
BY DEF InTables

LEMMA RunningInTables ==
  \A t \in Task : status'[t] \notin {"absent", "pruned"} => InTables(t)' = RowsOfTask(t)'
BY DEF InTables, Exists

LEMMA NothingNew ==
  ASSUME ActivityTypeOK, NEW x \in Task, activity'[x] = activity[x],
         InTables(x)' = InTables(x)
  PROVE  TellsItsChange(x)
<1>1. activity[x] \in Seq(Event) /\ Len(activity[x]) \in Nat
  BY LenProperties DEF ActivityTypeOK
<1>2. NewEvents(x) = <<>>
  BY <1>1, SubSeqEmpty DEF NewEvents
<1>3. activity[x] \o <<>> = activity[x] /\ Len(<<>>) = 0
  BY <1>1, ConcatEmptySeq, EmptySeq
<1> QED
  BY <1>2, <1>3 DEF TellsItsChange, ToldByNewEvents

(* A transaction that writes one event, or two. *)

LEMMA OneEvent ==
  ASSUME ActivityTypeOK, NEW t \in Task, NEW e \in Event, writeActivity(t, <<e>>),
         InTables(t)' = Told(InTables(t), e)
  PROVE  TellsItsChange(t)
<1>1. <<e>> \in Seq(Event) /\ Len(<<e>>) = 1 /\ <<e>>[1] = e
  OBVIOUS
<1>2. activity'[t] = activity[t] \o <<e>> /\ NewEvents(t) = <<e>>
  BY <1>1, WrittenIsNew
<1> QED
  BY <1>1, <1>2 DEF TellsItsChange, ToldByNewEvents

LEMMA TwoEvents ==
  ASSUME ActivityTypeOK, NEW t \in Task, NEW d \in Event, NEW e \in Event,
         writeActivity(t, <<d, e>>), InTables(t)' = Told(Told(InTables(t), d), e)
  PROVE  TellsItsChange(t)
<1>1. <<d, e>> \in Seq(Event) /\ Len(<<d, e>>) = 2 /\ <<d, e>>[1] = d /\ <<d, e>>[2] = e
  OBVIOUS
<1>2. activity'[t] = activity[t] \o <<d, e>> /\ NewEvents(t) = <<d, e>>
  BY <1>1, WrittenIsNew
<1> QED
  BY <1>1, <1>2 DEF TellsItsChange, ToldByNewEvents
-----------------------------------------------------------------------------
(* Each transaction tells what it does to its task *)

\* A task that was never created has no owner and no token.
Unborn == \A t \in Task : status[t] = "absent" => ownership_version[t] = 0

LEMMA UnbornNext == TypeOK /\ Unborn /\ [Next]_vars => Unborn'
<1> SUFFICES ASSUME TypeOK, Unborn, [Next]_vars, NEW x \in Task, status'[x] = "absent"
             PROVE  ownership_version'[x] = 0
  BY DEF Unborn
<1> USE DEF TypeOK, Unborn
<1>1. ASSUME NEW t \in Task, NEW n \in Position, CreateTask(t, n) PROVE ownership_version'[x] = 0
  BY <1>1 DEF CreateTask
<1>2. ASSUME NEW t \in Task, CancelTask(t) PROVE ownership_version'[x] = 0
  BY <1>2 DEF CancelTask
<1>3. ASSUME NEW w \in Worker, NEW t \in Task, NEW age \in Age, ClaimNext(w, t, age)
      PROVE  ownership_version'[x] = 0
  BY <1>3 DEF ClaimNext
<1>4. ASSUME NEW w \in Worker, NEW t \in Task, NEW age \in Age, NEW k \in Version,
             RenewLease(w, t, k, age)
      PROVE  ownership_version'[x] = 0
  BY <1>4 DEF RenewLease
<1>5. ASSUME NEW w \in Worker, NEW t \in Task, NEW age \in Age, NEW k \in Version,
             StartCurrentStep(w, t, k, age)
      PROVE  ownership_version'[x] = 0
  BY <1>5 DEF StartCurrentStep
<1>6. ASSUME NEW w \in Worker, NEW t \in Task, NEW age \in Age, NEW k \in Version,
             NEW p \in Position, NEW ok \in BOOLEAN, CompleteStep(w, t, k, p, ok, age)
      PROVE  ownership_version'[x] = 0
  BY <1>6 DEF CompleteStep, AdvanceTask, FinishTask, FailTask, KeepTask
<1>7. CASE Prune
  BY <1>7 DEF Prune, PruneSnapshot, PruneDelete, PruneAbort
<1>8. CASE Tick
  BY <1>8 DEF Tick
<1>9. CASE UNCHANGED vars
  BY <1>9 DEF vars
<1> QED
  BY <1>1, <1>2, <1>3, <1>4, <1>5, <1>6, <1>7, <1>8, <1>9 DEF Next

(* What the events do to a told task, field by field: the provers change one
   field of a record at a time. *)

TaskRecord(s, o, k, r, c, d) ==
  [status |-> s, owner |-> o, token |-> k, steps |-> r, current |-> c, done |-> d]

Claimed(v, w, k) == [v EXCEPT !.status = "claimed", !.owner = w, !.token = k]
Running(v, p) == [v EXCEPT !.status = "running", !.current = p]
Finished(v) == [v EXCEPT !.status = "done"]

LEMMA ClaimedRecord ==
  ASSUME NEW s, NEW o, NEW k, NEW r, NEW c, NEW d, NEW w, NEW j
  PROVE  Claimed(TaskRecord(s, o, k, r, c, d), w, j) = TaskRecord("claimed", w, j, r, c, d)
<1> DEFINE v == TaskRecord(s, o, k, r, c, d)
           v1 == [v EXCEPT !.status = "claimed"]
           v2 == [v1 EXCEPT !.owner = w]
           v3 == [v2 EXCEPT !.token = j]
<1>1. Claimed(v, w, j) = v3
  BY Zenon DEF Claimed
<1>2. v1 = TaskRecord("claimed", o, k, r, c, d)
  BY DEF TaskRecord
<1> HIDE DEF v1
<1>3. v2 = TaskRecord("claimed", w, k, r, c, d)
  BY <1>2 DEF TaskRecord
<1> HIDE DEF v2
<1>4. v3 = TaskRecord("claimed", w, j, r, c, d)
  BY <1>3 DEF TaskRecord
<1> QED
  BY <1>1, <1>4

LEMMA RunningRecord ==
  ASSUME NEW s, NEW o, NEW k, NEW r, NEW c, NEW d, NEW p
  PROVE  Running(TaskRecord(s, o, k, r, c, d), p) = TaskRecord("running", o, k, r, p, d)
<1> DEFINE v == TaskRecord(s, o, k, r, c, d)
           v1 == [v EXCEPT !.status = "running"]
           v2 == [v1 EXCEPT !.current = p]
<1>1. Running(v, p) = v2
  BY Zenon DEF Running
<1>2. v1 = TaskRecord("running", o, k, r, c, d)
  BY DEF TaskRecord
<1> HIDE DEF v1
<1>3. v2 = TaskRecord("running", o, k, r, p, d)
  BY <1>2 DEF TaskRecord
<1> QED
  BY <1>1, <1>3

After(p) == p + 1

LEMMA ToldSuccessRecord ==
  ASSUME NEW s, NEW o, NEW k, NEW r, NEW c, NEW d, NEW p
  PROVE  /\ After(p) \in r => ToldSuccess(TaskRecord(s, o, k, r, c, d), p)
                         = TaskRecord("claimed", o, k, r, After(p), d \cup {p})
         /\ After(p) \notin r => ToldSuccess(TaskRecord(s, o, k, r, c, d), p)
                            = TaskRecord("claimed", o, k, r, p, d \cup {p})
<1> DEFINE v == TaskRecord(s, o, k, r, c, d)
           i == IF After(p) \in r THEN After(p) ELSE p
           e == d \cup {p}
           v1 == [v EXCEPT !.status = "claimed"]
           v2 == [v1 EXCEPT !.done = e]
           v3 == [v2 EXCEPT !.current = i]
<1>1. v.done = d /\ v.steps = r
  BY DEF TaskRecord
<1>2. ToldSuccess(v, p) = [v EXCEPT !.status = "claimed", !.done = v.done \cup {p},
                                    !.current = IF p + 1 \in v.steps THEN p + 1 ELSE p]
  BY Zenon DEF ToldSuccess
<1>3. ToldSuccess(v, p) = v3
  BY Zenon, <1>1, <1>2 DEF After
<1>4. v1 = TaskRecord("claimed", o, k, r, c, d)
  BY DEF TaskRecord
<1> HIDE DEF v1, e, i
<1>5. v2 = TaskRecord("claimed", o, k, r, c, e)
  BY <1>4 DEF TaskRecord
<1> HIDE DEF v2
<1>6. v3 = TaskRecord("claimed", o, k, r, i, e)
  BY <1>5 DEF TaskRecord
<1> QED
  BY <1>3, <1>6 DEF e, i

LEMMA ToldLastSuccess ==
  ASSUME NEW v, NEW s, NEW o, NEW k, NEW r, NEW c, NEW d, NEW p,
         v = TaskRecord(s, o, k, r, c, d), After(p) \notin r
  PROVE  ToldSuccess(v, p) = TaskRecord("claimed", o, k, r, p, d \cup {p})
BY ToldSuccessRecord

LEMMA FinishedRecord ==
  ASSUME NEW s, NEW o, NEW k, NEW r, NEW c, NEW d
  PROVE  Finished(TaskRecord(s, o, k, r, c, d)) = TaskRecord("done", o, k, r, c, d)
BY DEF Finished, TaskRecord

LEMMA RowsRecord ==
  ASSUME NEW t \in Task
  PROVE  /\ RowsOfTask(t) = TaskRecord(status[t], claimed_by[t], ownership_version[t], Rows(t),
                                        current_step[t], StepsDone(t))
         /\ RowsOfTask(t)' = TaskRecord(status'[t], claimed_by'[t], ownership_version'[t], Rows(t)',
                                         current_step'[t], StepsDone(t)')
BY DEF RowsOfTask, TaskRecord

LEMMA OtherTasksUntold ==
  ASSUME ActivityTypeOK, NEW t \in Task, NEW new \in Seq(Event), writeActivity(t, new),
         NEW x \in Task, x # t, InTables(x)' = InTables(x)
  PROVE  TellsItsChange(x)
BY WrittenIsNew, NothingNew

LEMMA CreateTells ==
  ASSUME ActivityTypeOK, IInv, Unborn, NEW t \in Task, NEW n \in Position,
         CreateTaskLogged(t, n), NEW x \in Task
  PROVE  TellsItsChange(x)
<1> DEFINE e == [event |-> "task_created", step_count |-> n]
<1>1. e \in Event /\ <<e>> \in Seq(Event)
  BY DEF Event
<1>2. CreateTask(t, n) /\ writeActivity(t, <<e>>)
  BY DEF CreateTaskLogged
<1>3. CASE x # t
  BY <1>1, <1>2, <1>3, OtherTasksUntold, SameRowsSameTables DEF CreateTask, IInv, TypeOK
<1>4. CASE x = t
  <2>1. Told(InTables(t), e) =
          [status |-> "pending", owner |-> NoWorker, token |-> 0, steps |-> 1..n,
           current |-> 0, done |-> {}]
    BY DEF Told, NothingTold
  <2>2. /\ status'[t] = "pending" /\ claimed_by'[t] = NoWorker /\ ownership_version'[t] = 0
        /\ current_step'[t] = 0
        /\ \A p \in Position : step_status'[t][p] = IF p <= n THEN "pending" ELSE "absent"
    BY <1>2 DEF CreateTask, IInv, TypeOK, WellFormed, MissingWellFormed, Exists, Unborn
  <2>3. Rows(t)' = 1..n /\ StepsDone(t)' = {}
    BY <2>2, StoreConstants DEF Rows, StepsDone, Position
  <2>4. InTables(t)' = Told(InTables(t), e)
    BY <2>1, <2>2, <2>3 DEF InTables, RowsOfTask, Exists
  <2> QED
    BY <1>1, <1>2, <1>4, <2>4, OneEvent
<1> QED
  BY <1>3, <1>4

LEMMA ClaimTells ==
  ASSUME ActivityTypeOK, IInv, NEW w \in Worker, NEW t \in Task, NEW age \in Age,
         ClaimNextLogged(w, t, age), NEW x \in Task
  PROVE  TellsItsChange(x)
<1> DEFINE e == ClaimEvent(w, t)
<1>1. ClaimNext(w, t, age) /\ writeActivity(t, <<e>>)
  BY DEF ClaimNextLogged
<1>2. /\ e.event \in {"task_claimed", "task_reclaimed"}
      /\ e.worker = w /\ e.token = ownership_version[t] + 1
  BY DEF ClaimEvent, NextToken
<1>3. e \in Event /\ <<e>> \in Seq(Event)
  <2>1. NextToken(t) \in Version /\ claimed_by[t] \in Worker \cup {NoWorker}
    BY <1>1, StoreConstants DEF ClaimNext, NextToken, Version, IInv, TypeOK
  <2>2. e \in Event
    BY <2>1 DEF ClaimEvent, Event
  <2> QED
    BY <2>2
<1>4. CASE x # t
  BY <1>1, <1>3, <1>4, OtherTasksUntold, SameRowsSameTables DEF ClaimNext, IInv, TypeOK
<1>5. CASE x = t
  <2>1. Told(InTables(t), e) = Claimed(InTables(t), w, ownership_version[t] + 1)
    BY <1>2 DEF Told, Claimed
  <2>2. /\ Exists(t) /\ status'[t] = "claimed" /\ claimed_by'[t] = w
        /\ ownership_version'[t] = ownership_version[t] + 1
        /\ current_step'[t] = current_step[t] /\ step_status'[t] = step_status[t]
    BY <1>1 DEF ClaimNext, Claimable, Exists, Active, NextToken, IInv, TypeOK
  <2>3. InTables(t)' = Claimed(InTables(t), w, ownership_version[t] + 1)
    <3>1. InTables(t) = RowsOfTask(t) /\ InTables(t)' = RowsOfTask(t)'
      BY <2>2, ExistingInTables, RunningInTables
    <3>2. Rows(t)' = Rows(t) /\ StepsDone(t)' = StepsDone(t)
      BY <2>2 DEF Rows, StepsDone
    <3>3. RowsOfTask(t)' = Claimed(RowsOfTask(t), w, ownership_version[t] + 1)
      BY <2>2, <3>2, RowsRecord, ClaimedRecord
    <3> QED
      BY <3>1, <3>3
  <2> QED
    BY <1>1, <1>3, <1>5, <2>1, <2>3, OneEvent
<1> QED
  BY <1>4, <1>5

LEMMA StartTells ==
  ASSUME ActivityTypeOK, IInv, NEW w \in Worker, NEW t \in Task, NEW age \in Age,
         NEW k \in Version, StartCurrentStepLogged(w, t, k, age), NEW x \in Task
  PROVE  TellsItsChange(x)
<1> DEFINE e == StartEvent(w, t)
<1>1. StartCurrentStep(w, t, k, age) /\ writeActivity(t, <<e>>)
  BY DEF StartCurrentStepLogged
<1>2. CurrentPosition(t) \in Position
  BY CurrentPositionType DEF IInv
<1>3. e.event = "step_started" /\ e.step = CurrentPosition(t) /\ e \in Event /\ <<e>> \in Seq(Event)
  BY <1>2 DEF StartEvent, Event
<1>4. /\ status' = [status EXCEPT ![t] = "running"] /\ Exists(t) /\ claimed_by' = claimed_by
      /\ ownership_version' = ownership_version
  BY <1>1 DEF StartCurrentStep, CanStart
<1>5. CASE x # t
  <2>1. current_step'[x] = current_step[x] /\ step_status'[x] = step_status[x]
    BY <1>1, <1>5 DEF StartCurrentStep, ResumeStep, BeginStep, IInv, TypeOK
  <2> QED
    BY <1>1, <1>3, <1>4, <1>5, <2>1, OtherTasksUntold, SameRowsSameTables DEF IInv, TypeOK
<1>6. CASE x = t
  <2>1. Told(InTables(t), e) = Running(InTables(t), CurrentPosition(t))
    BY <1>3 DEF Told, Running
  <2>2. status'[t] = "running"
    BY <1>4 DEF IInv, TypeOK
  <2>3. current_step'[t] = CurrentPosition(t)
    <3>1. CASE ResumeStep(t)
      <4>1. Exists(t) => ExistingWellFormed(t)
        BY DEF IInv, WellFormed
      <4>2. current_step[t] # 0
        BY <1>4, <3>1, <4>1 DEF ResumeStep, ExistingWellFormed, CurrentPosition
      <4> QED
        BY <3>1, <4>2 DEF ResumeStep, CurrentPosition
    <3>2. CASE BeginStep(t)
      BY <3>2 DEF BeginStep, IInv, TypeOK
    <3> QED
      BY <1>1, <3>1, <3>2 DEF StartCurrentStep
  <2>4. Rows(t)' = Rows(t) /\ \A p \in Position : step_status'[t][p] = "done" <=> step_status[t][p] = "done"
    <3>1. CASE ResumeStep(t)
      BY <3>1 DEF ResumeStep, Rows
    <3>2. CASE BeginStep(t)
      BY <1>2, <3>2 DEF BeginStep, Rows, IInv, TypeOK
    <3> QED
      BY <1>1, <3>1, <3>2 DEF StartCurrentStep
  <2>5. StepsDone(t)' = StepsDone(t)
    BY <2>4 DEF StepsDone
  <2>6. InTables(t)' = Told(InTables(t), e)
    <3>1. InTables(t) = RowsOfTask(t) /\ InTables(t)' = RowsOfTask(t)'
      BY <1>4, <2>2, ExistingInTables, RunningInTables
    <3>2. RowsOfTask(t)' = Running(RowsOfTask(t), CurrentPosition(t))
      BY <1>4, <2>2, <2>3, <2>4, <2>5, RowsRecord, RunningRecord
    <3> QED
      BY <2>1, <3>1, <3>2
  <2> QED
    BY <1>1, <1>3, <1>6, <2>6, OneEvent
<1> QED
  BY <1>5, <1>6

LEMMA CancelTells ==
  ASSUME ActivityTypeOK, IInv, NEW t \in Task, CancelTaskLogged(t), NEW x \in Task
  PROVE  TellsItsChange(x)
<1> DEFINE e == [event |-> "task_cancelled"]
<1>1. CancelTask(t) /\ writeActivity(t, <<e>>) /\ e \in Event /\ <<e>> \in Seq(Event)
  BY DEF CancelTaskLogged, Event
<1>2. CASE x # t
  BY <1>1, <1>2, OtherTasksUntold, SameRowsSameTables DEF CancelTask, IInv, TypeOK
<1>3. CASE x = t
  <2>1. Told(InTables(t), e) = [InTables(t) EXCEPT !.status = "cancelled"]
    BY DEF Told
  <2>2. /\ Exists(t) /\ status'[t] = "cancelled" /\ claimed_by' = claimed_by
        /\ ownership_version' = ownership_version /\ current_step' = current_step
        /\ step_status'[t] = UnfinishedCancelled(t)
    BY <1>1 DEF CancelTask, IInv, TypeOK
  <2>3. \A p \in Position : /\ step_status'[t][p] # "absent" <=> step_status[t][p] # "absent"
                            /\ step_status'[t][p] = "done" <=> step_status[t][p] = "done"
    BY <2>2 DEF UnfinishedCancelled
  <2>4. Rows(t)' = Rows(t) /\ StepsDone(t)' = StepsDone(t)
    BY <2>3 DEF Rows, StepsDone
  <2>5. InTables(t)' = Told(InTables(t), e)
    BY <2>1, <2>2, <2>4, ExistingInTables, RunningInTables DEF RowsOfTask
  <2> QED
    BY <1>1, <1>3, <2>5, OneEvent
<1> QED
  BY <1>2, <1>3

(* A report: the event of the report itself, and that of its outcome. *)

LEMMA ReportEventFacts ==
  ASSUME ActivityTypeOK, NEW w \in Worker, NEW t \in Task, NEW k \in Version,
         NEW p \in Position, NEW ok \in BOOLEAN
  PROVE  LET r == ReportEvent(w, t, k, p, ok) IN
         /\ r \in Event /\ r.event = "step_reported" /\ r.step = p
         /\ r.worker = w /\ r.token = k /\ r.duplicate_report = IsDuplicate(t, p)
         /\ r.final_success = (MergedLog(t, p, ok) = "success")
         /\ \A v : Told(v, r) = IF MergedLog(t, p, ok) = "success" /\ p \notin v.done
                                  THEN ToldSuccess(v, p) ELSE v
<1> DEFINE r == ReportEvent(w, t, k, p, ok)
<1>1. (MergedLog(t, p, ok) = "success") \in BOOLEAN /\ IsDuplicate(t, p) \in BOOLEAN
  BY DEF IsDuplicate
<1>2. r \in Event
  BY <1>1 DEF ReportEvent, Event
<1>3. /\ r.event = "step_reported" /\ r.step = p /\ r.worker = w /\ r.token = k
      /\ r.duplicate_report = IsDuplicate(t, p)
      /\ r.final_success = (MergedLog(t, p, ok) = "success")
  BY DEF ReportEvent
<1>4. \A v : Told(v, r) = IF MergedLog(t, p, ok) = "success" /\ p \notin v.done
                            THEN ToldSuccess(v, p) ELSE v
  BY <1>3 DEF Told
<1> QED
  BY <1>2, <1>3, <1>4

LEMMA DoneInTables ==
  ASSUME NEW t \in Task, Exists(t), NEW p \in Position
  PROVE  p \in InTables(t).done <=> step_status[t][p] = "done"
BY DEF InTables, RowsOfTask, StepsDone

LEMMA AdvanceTells ==
  ASSUME ActivityTypeOK, IInv, NEW w \in Worker, NEW t \in Task, NEW k \in Version,
         NEW p \in Position, NEW ok \in BOOLEAN, NEW age \in Age,
         CompleteStep(w, t, k, p, ok, age), AdvanceTask(t, p, ok),
         writeActivity(t, <<ReportEvent(w, t, k, p, ok)>>)
  PROVE  TellsItsChange(t)
<1> DEFINE r == ReportEvent(w, t, k, p, ok)
<1>1. /\ p = CurrentPosition(t) /\ Exists(t) /\ ExistingWellFormed(t)
      /\ MergedLog(t, p, ok) = "success" /\ step_status[t][p] # "done"
  BY ReportFacts DEF CompleteStep, CanReport, AdvanceTask, IsFirstSuccess
<1>2. PICK n \in Position : p <= n /\ \A q \in Position : step_status[t][q] # "absent" <=> q <= n
  BY <1>1 DEF ExistingWellFormed
<1>3. p + 1 \in LaterRows(t, p)
  BY <1>2, StoreConstants DEF AdvanceTask, LaterRows, Rows, Position
<1>4. current_step'[t] = p + 1 /\ p + 1 \in Rows(t)
  BY <1>3, StoreConstants DEF AdvanceTask, LaterRows, Rows, Position, IInv, TypeOK
<1>5. Told(InTables(t), r) = ToldSuccess(InTables(t), p)
  BY <1>1, ReportEventFacts, DoneInTables
<1>6. /\ status'[t] = "claimed" /\ claimed_by' = claimed_by /\ ownership_version' = ownership_version
      /\ \A q \in Position : step_status'[t][q] = IF q = p THEN "done" ELSE step_status[t][q]
  BY DEF CompleteStep, AdvanceTask, IInv, TypeOK
<1>7. step_status[t][p] # "absent"
  BY DEF CompleteStep, AcceptsReport, Rows
<1>8. /\ Rows(t)' = Rows(t)
      /\ StepsDone(t)' = StepsDone(t) \cup {p}
  BY <1>6, <1>7 DEF Rows, StepsDone
<1>9. InTables(t)' = ToldSuccess(InTables(t), p)
  <2>1. InTables(t) = RowsOfTask(t) /\ InTables(t)' = RowsOfTask(t)'
    BY <1>1, <1>6, ExistingInTables, RunningInTables
  <2>2. RowsOfTask(t)' = ToldSuccess(RowsOfTask(t), p)
    <3> DEFINE e == StepsDone(t) \cup {p}
    <3>1. ToldSuccess(RowsOfTask(t), p) =
            TaskRecord("claimed", claimed_by[t], ownership_version[t], Rows(t), p + 1, e)
      <4>1. After(p) \in Rows(t)
        BY <1>4 DEF After
      <4>2. ToldSuccess(TaskRecord(status[t], claimed_by[t], ownership_version[t], Rows(t),
                                   current_step[t], StepsDone(t)), p) =
              TaskRecord("claimed", claimed_by[t], ownership_version[t], Rows(t), After(p),
                         StepsDone(t) \cup {p})
        BY <4>1, ToldSuccessRecord
      <4> QED
        BY Zenon, <4>1, <4>2, RowsRecord DEF e, After
    <3> QED
      BY <1>4, <1>6, <1>8, <3>1, RowsRecord
  <2> QED
    BY <2>1, <2>2
<1> QED
  BY <1>5, <1>9, ReportEventFacts, OneEvent

LEMMA FinishTells ==
  ASSUME ActivityTypeOK, IInv, NEW w \in Worker, NEW t \in Task, NEW k \in Version,
         NEW p \in Position, NEW ok \in BOOLEAN, NEW age \in Age,
         CompleteStep(w, t, k, p, ok, age), FinishTask(t, p, ok),
         writeActivity(t, <<ReportEvent(w, t, k, p, ok), [event |-> "task_done"]>>)
  PROVE  TellsItsChange(t)
<1> DEFINE r == ReportEvent(w, t, k, p, ok)
           d == [event |-> "task_done"]
<1>1. /\ Exists(t) /\ MergedLog(t, p, ok) = "success" /\ step_status[t][p] # "done"
  BY DEF CompleteStep, CanReport, FinishTask, IsFirstSuccess
<1>2. p + 1 \notin Rows(t)
  BY StoreConstants DEF FinishTask, LaterRows, Rows, Position
<1>3. Told(InTables(t), r) = ToldSuccess(InTables(t), p)
  BY <1>1, ReportEventFacts, DoneInTables
<1>4. d \in Event /\ \A v : Told(v, d) = Finished(v)
  BY DEF Event, Told, Finished
<1>5. /\ status'[t] = "done" /\ claimed_by' = claimed_by /\ ownership_version' = ownership_version
      /\ current_step'[t] = p
      /\ \A q \in Position : step_status'[t][q] = IF q = p THEN "done" ELSE step_status[t][q]
  BY DEF CompleteStep, FinishTask, IInv, TypeOK
<1>6. step_status[t][p] # "absent"
  BY DEF CompleteStep, AcceptsReport, Rows
<1>7. /\ Rows(t)' = Rows(t)
      /\ StepsDone(t)' = StepsDone(t) \cup {p}
  BY <1>5, <1>6 DEF Rows, StepsDone
<1>8. InTables(t)' = Finished(ToldSuccess(InTables(t), p))
  <2>1. InTables(t) = RowsOfTask(t) /\ InTables(t)' = RowsOfTask(t)'
    BY <1>1, <1>5, ExistingInTables, RunningInTables
  <2>2. ToldSuccess(RowsOfTask(t), p) =
          TaskRecord("claimed", claimed_by[t], ownership_version[t], Rows(t), p, StepsDone(t) \cup {p})
    <3> DEFINE e == StepsDone(t) \cup {p}
    <3> HIDE DEF e
    <3>1. ToldSuccess(TaskRecord(status[t], claimed_by[t], ownership_version[t], Rows(t),
                                 current_step[t], StepsDone(t)), p) =
            TaskRecord("claimed", claimed_by[t], ownership_version[t], Rows(t), p, e)
      <4>1. After(p) \notin Rows(t)
        BY <1>2 DEF After
      <4>2. ToldSuccess(TaskRecord(status[t], claimed_by[t], ownership_version[t], Rows(t),
                                   current_step[t], StepsDone(t)), p) =
              TaskRecord("claimed", claimed_by[t], ownership_version[t], Rows(t), p,
                         StepsDone(t) \cup {p})
        BY SMTT(60), <4>1, ToldLastSuccess
      <4> QED
        BY Zenon, <4>2 DEF e
    <3> QED
      BY <3>1, RowsRecord DEF e
  <2>3. RowsOfTask(t)' = Finished(ToldSuccess(RowsOfTask(t), p))
    <3> DEFINE e == StepsDone(t) \cup {p}
    <3> HIDE DEF e
    <3>1. Finished(TaskRecord("claimed", claimed_by[t], ownership_version[t], Rows(t), p, e))
            = TaskRecord("done", claimed_by[t], ownership_version[t], Rows(t), p, e)
      BY FinishedRecord
    <3>2. RowsOfTask(t)' = TaskRecord("done", claimed_by[t], ownership_version[t], Rows(t), p, e)
      BY <1>5, <1>7, RowsRecord DEF e
    <3> QED
      BY Zenon, <2>2, <3>1, <3>2 DEF e
  <2> QED
    BY <2>1, <2>3
<1>9. InTables(t)' = Told(Told(InTables(t), r), d)
  BY <1>3, <1>4, <1>8
<1> QED
  BY <1>4, <1>9, ReportEventFacts, TwoEvents

LEMMA FailTells ==
  ASSUME ActivityTypeOK, IInv, NEW w \in Worker, NEW t \in Task, NEW k \in Version,
         NEW p \in Position, NEW ok \in BOOLEAN, NEW age \in Age,
         CompleteStep(w, t, k, p, ok, age), FailTask(t, p, ok),
         writeActivity(t, <<ReportEvent(w, t, k, p, ok), [event |-> "task_failed", step |-> p]>>)
  PROVE  TellsItsChange(t)
<1> DEFINE r == ReportEvent(w, t, k, p, ok)
           f == [event |-> "task_failed", step |-> p]
<1>1. Exists(t) /\ MergedLog(t, p, ok) = "failure" /\ step_status[t][p] = "running"
  BY DEF CompleteStep, CanReport, FailTask, IsFirstFailure
<1>2. Told(InTables(t), r) = InTables(t)
  BY <1>1, ReportEventFacts
<1>3. f \in Event /\ \A v : Told(v, f) = [v EXCEPT !.status = "failed"]
  BY DEF Event, Told
<1>4. /\ status'[t] = "failed" /\ claimed_by' = claimed_by /\ ownership_version' = ownership_version
      /\ current_step' = current_step
      /\ \A q \in Position : step_status'[t][q] = IF q = p THEN "failed" ELSE step_status[t][q]
  BY DEF CompleteStep, FailTask, IInv, TypeOK
<1>5. /\ Rows(t)' = Rows(t)
      /\ StepsDone(t)' = StepsDone(t)
  BY <1>1, <1>4 DEF Rows, StepsDone
<1>6. InTables(t)' = [InTables(t) EXCEPT !.status = "failed"]
  BY <1>1, <1>4, <1>5, ExistingInTables, RunningInTables DEF RowsOfTask
<1>7. InTables(t)' = Told(Told(InTables(t), r), f)
  BY <1>2, <1>3, <1>6
<1> QED
  BY <1>3, <1>7, ReportEventFacts, TwoEvents

LEMMA KeepTells ==
  ASSUME ActivityTypeOK, IInv, NEW w \in Worker, NEW t \in Task, NEW k \in Version,
         NEW p \in Position, NEW ok \in BOOLEAN, NEW age \in Age,
         CompleteStep(w, t, k, p, ok, age), KeepTask(t, p, ok),
         writeActivity(t, <<ReportEvent(w, t, k, p, ok)>>)
  PROVE  TellsItsChange(t)
<1>1. Exists(t) /\ ~IsFirstSuccess(t, p, ok)
  BY DEF CompleteStep, CanReport, KeepTask
<1>2. Told(InTables(t), ReportEvent(w, t, k, p, ok)) = InTables(t)
  BY <1>1, ReportEventFacts, DoneInTables DEF IsFirstSuccess
<1>3. InTables(t)' = InTables(t)
  BY SameRowsSameTables DEF CompleteStep, KeepTask
<1> QED
  BY <1>2, <1>3, ReportEventFacts, OneEvent

LEMMA TwoInARow ==
  ASSUME NEW S, NEW a \in S, NEW b \in S
  PROVE  <<a>> \o <<b>> = <<a, b>>
<1>1. /\ <<a>> \in Seq(S) /\ Len(<<a>>) = 1 /\ <<a>>[1] = a
      /\ <<b>> \in Seq(S) /\ Len(<<b>>) = 1 /\ <<b>>[1] = b
      /\ <<a, b>> \in Seq(S) /\ Len(<<a, b>>) = 2 /\ <<a, b>>[1] = a /\ <<a, b>>[2] = b
  OBVIOUS
<1>2. /\ <<a>> \o <<b>> \in Seq(S) /\ Len(<<a>> \o <<b>>) = 2
      /\ \A i \in 1..2 : (<<a>> \o <<b>>)[i] = IF i <= 1 THEN a ELSE b
  BY <1>1, ConcatProperties
<1>3. \A i \in 1..2 : (<<a>> \o <<b>>)[i] = <<a, b>>[i]
  BY <1>1, <1>2
<1> QED
  BY <1>1, <1>2, <1>3, SeqEqual

LEMMA OneLong ==
  ASSUME NEW S, NEW s \in Seq(S), Len(s) = 1
  PROVE  s = <<s[1]>>
<1>1. s[1] \in S
  BY ElementOfSeq
<1>2. <<s[1]>> \in Seq(S) /\ Len(<<s[1]>>) = 1 /\ <<s[1]>>[1] = s[1]
  BY <1>1
<1> QED
  BY <1>2, SeqEqual

LEMMA TwoLong ==
  ASSUME NEW S, NEW s \in Seq(S), Len(s) = 2
  PROVE  s = <<s[1]>> \o <<s[2]>>
<1>1. PICK a \in S, b \in S : a = s[1] /\ b = s[2]
  BY ElementOfSeq
<1>2. <<a, b>> \in Seq(S) /\ Len(<<a, b>>) = 2 /\ <<a, b>>[1] = a /\ <<a, b>>[2] = b
  BY <1>1
<1>3. s = <<a, b>>
  BY <1>1, <1>2, SeqEqual
<1> QED
  BY <1>1, <1>3, TwoInARow

\* The rows a report writes are those of the effect it has.
LEMMA WrittenByReport ==
  ASSUME ActivityTypeOK, NEW w \in Worker, NEW t \in Task, NEW k \in Version,
         NEW p \in Position, NEW ok \in BOOLEAN
  PROVE  LET r == ReportEvent(w, t, k, p, ok)
             new == <<r>> \o OutcomeEvents(t, p, ok) IN
         /\ new \in Seq(Event)
         /\ AdvanceTask(t, p, ok) => new = <<r>>
         /\ FinishTask(t, p, ok) => new = <<r, [event |-> "task_done"]>>
         /\ FailTask(t, p, ok) => new = <<r, [event |-> "task_failed", step |-> p]>>
         /\ KeepTask(t, p, ok) => new = <<r>>
<1> DEFINE r == ReportEvent(w, t, k, p, ok)
           d == [event |-> "task_done"]
           f == [event |-> "task_failed", step |-> p]
<1>1. r \in Event /\ d \in Event /\ f \in Event
  BY ReportEventFacts DEF Event
<1> HIDE DEF r, d, f
<1>2. <<r>> \o <<>> = <<r>> /\ <<r>> \o <<d>> = <<r, d>> /\ <<r>> \o <<f>> = <<r, f>>
  <2>1. <<r>> \in Seq(Event)
    BY <1>1
  <2> QED
    BY <1>1, <2>1, ConcatEmptySeq, TwoInARow
<1>3. <<r>> \in Seq(Event) /\ <<r, d>> \in Seq(Event) /\ <<r, f>> \in Seq(Event)
  BY <1>1
<1>4. ~(IsFirstSuccess(t, p, ok) /\ IsFirstFailure(t, p, ok))
  BY DEF IsFirstSuccess, IsFirstFailure
<1>5. CASE IsFirstSuccess(t, p, ok) /\ LaterRows(t, p) = {}
  <2>1. OutcomeEvents(t, p, ok) = <<d>>
    BY <1>4, <1>5 DEF OutcomeEvents, d
  <2> QED
    BY <1>2, <1>3, <1>4, <1>5, <2>1 DEF AdvanceTask, FailTask, KeepTask, r, d
<1>6. CASE IsFirstFailure(t, p, ok)
  <2>1. OutcomeEvents(t, p, ok) = <<f>>
    BY <1>4, <1>6 DEF OutcomeEvents, f
  <2> QED
    BY <1>2, <1>3, <1>4, <1>6, <2>1 DEF AdvanceTask, FinishTask, KeepTask, r, f
<1>7. CASE ~(IsFirstSuccess(t, p, ok) /\ LaterRows(t, p) = {}) /\ ~IsFirstFailure(t, p, ok)
  <2>1. OutcomeEvents(t, p, ok) = <<>>
    BY <1>7 DEF OutcomeEvents
  <2> QED
    BY <1>2, <1>3, <1>7, <2>1 DEF FinishTask, FailTask, r
<1> QED
  BY <1>5, <1>6, <1>7

LEMMA ReportEvents ==
  ASSUME ActivityTypeOK, NEW w \in Worker, NEW t \in Task, NEW k \in Version,
         NEW p \in Position, NEW ok \in BOOLEAN,
         AdvanceTask(t, p, ok) \/ FinishTask(t, p, ok) \/ FailTask(t, p, ok) \/ KeepTask(t, p, ok)
  PROVE  LET r == ReportEvent(w, t, k, p, ok)
             new == <<r>> \o OutcomeEvents(t, p, ok) IN
         /\ Len(new) \in {1, 2} /\ new[1] = r
         /\ \A i \in 2..Len(new) : new[i].event \in {"task_done", "task_failed"}
         /\ \A i \in 1..Len(new) : new[i].event # "task_cancelled"
<1> DEFINE r == ReportEvent(w, t, k, p, ok)
           d == [event |-> "task_done"]
           f == [event |-> "task_failed", step |-> p]
           new == <<r>> \o OutcomeEvents(t, p, ok)
<1>1. new = <<r>> \/ new = <<r, d>> \/ new = <<r, f>>
  BY WrittenByReport
<1>2. r.event = "step_reported" /\ d.event = "task_done" /\ f.event = "task_failed"
  BY ReportEventFacts
<1> HIDE DEF r, d, f, new
<1>3. /\ Len(new) \in {1, 2} /\ new[1] = r
      /\ \A i \in 2..Len(new) : new[i].event \in {"task_done", "task_failed"}
      /\ \A i \in 1..Len(new) : new[i].event # "task_cancelled"
  BY <1>1, <1>2
<1> QED
  BY <1>3 DEF r, new

LEMMA ReportTells ==
  ASSUME ActivityTypeOK, IInv, NEW w \in Worker, NEW t \in Task, NEW k \in Version,
         NEW p \in Position, NEW ok \in BOOLEAN, NEW age \in Age,
         CompleteStepLogged(w, t, k, p, ok, age), NEW x \in Task
  PROVE  TellsItsChange(x)
<1> DEFINE new == <<ReportEvent(w, t, k, p, ok)>> \o OutcomeEvents(t, p, ok)
<1>1. CompleteStep(w, t, k, p, ok, age) /\ writeActivity(t, new)
  BY DEF CompleteStepLogged
<1>2. new \in Seq(Event)
  BY WrittenByReport
<1>3. CASE x # t
  <2>1. /\ status'[x] = status[x] /\ claimed_by' = claimed_by
        /\ ownership_version' = ownership_version
        /\ current_step'[x] = current_step[x] /\ step_status'[x] = step_status[x]
    BY <1>1, <1>3
    DEF CompleteStep, AdvanceTask, FinishTask, FailTask, KeepTask, IInv, TypeOK
  <2> QED
    BY <1>1, <1>2, <1>3, <2>1, OtherTasksUntold, SameRowsSameTables
<1>4. CASE x = t
  <2>1. CASE AdvanceTask(t, p, ok)
    BY <1>1, <1>4, <2>1, WrittenByReport, AdvanceTells
  <2>2. CASE FinishTask(t, p, ok)
    BY <1>1, <1>4, <2>2, WrittenByReport, FinishTells
  <2>3. CASE FailTask(t, p, ok)
    BY <1>1, <1>4, <2>3, WrittenByReport, FailTells
  <2>4. CASE KeepTask(t, p, ok)
    BY <1>1, <1>4, <2>4, WrittenByReport, KeepTells
  <2> QED
    BY <1>1, <2>1, <2>2, <2>3, <2>4 DEF CompleteStep
<1> QED
  BY <1>3, <1>4

LEMMA PruneDeleteTells ==
  ASSUME ActivityTypeOK, IInv, PruneDeleteLogged, NEW x \in Task
  PROVE  TellsItsChange(x)
<1>1. CASE x \in victims
  BY <1>1 DEF PruneDeleteLogged, PruneDelete, TellsItsChange
<1>2. CASE x \notin victims
  <2>1. /\ status'[x] = status[x] /\ claimed_by' = claimed_by
        /\ ownership_version' = ownership_version /\ current_step'[x] = current_step[x]
        /\ step_status'[x] = step_status[x] /\ activity'[x] = activity[x]
    BY <1>2 DEF PruneDeleteLogged, PruneDelete
  <2> QED
    BY <2>1, SameRowsSameTables, NothingNew
<1> QED
  BY <1>1, <1>2

LEMMA UnloggedTells ==
  ASSUME ActivityTypeOK, Unlogged, NEW x \in Task
  PROVE  TellsItsChange(x)
<1>1. /\ status' = status /\ claimed_by' = claimed_by /\ ownership_version' = ownership_version
      /\ current_step' = current_step /\ step_status' = step_status
  BY DEF Unlogged, RenewLease, PruneSnapshot, PruneAbort, Tick
<1>2. activity' = activity
  BY DEF Unlogged
<1> QED
  BY <1>1, <1>2, SameRowsSameTables, NothingNew

LEMMA StepTells ==
  ASSUME ActivityTypeOK, IInv, Unborn, ActivityNext, NEW x \in Task
  PROVE  TellsItsChange(x)
<1>1. ASSUME NEW t \in Task, NEW n \in Position, CreateTaskLogged(t, n)
      PROVE  TellsItsChange(x)
  BY <1>1, CreateTells
<1>2. ASSUME NEW t \in Task, CancelTaskLogged(t) PROVE TellsItsChange(x)
  BY <1>2, CancelTells
<1>3. ASSUME NEW w \in Worker, NEW t \in Task, NEW age \in Age, ClaimNextLogged(w, t, age)
      PROVE  TellsItsChange(x)
  BY <1>3, ClaimTells
<1>4. ASSUME NEW w \in Worker, NEW t \in Task, NEW age \in Age, NEW k \in Version,
             StartCurrentStepLogged(w, t, k, age)
      PROVE  TellsItsChange(x)
  BY <1>4, StartTells
<1>5. ASSUME NEW w \in Worker, NEW t \in Task, NEW age \in Age, NEW k \in Version,
             NEW p \in Position, NEW ok \in BOOLEAN, CompleteStepLogged(w, t, k, p, ok, age)
      PROVE  TellsItsChange(x)
  BY <1>5, ReportTells
<1>6. CASE PruneDeleteLogged
  BY <1>6, PruneDeleteTells
<1>7. CASE Unlogged
  BY <1>7, UnloggedTells
<1> QED
  BY <1>1, <1>2, <1>3, <1>4, <1>5, <1>6, <1>7 DEF ActivityNext

-----------------------------------------------------------------------------
(* Every event the transactions write is one of Event. *)

LEMMA WrittenSequence ==
  ASSUME ActivityTypeOK, NEW t \in Task, NEW new \in Seq(Event), writeActivity(t, new)
  PROVE  activity' \in [Task -> Seq(Event)]
BY WrittenIsNew

LEMMA LogTypeNext ==
  ASSUME ActivityTypeOK, IInv, [ActivityNext]_activityVars
  PROVE  activity' \in [Task -> Seq(Event)]
<1>1. ASSUME NEW t \in Task, NEW n \in Position, CreateTaskLogged(t, n)
      PROVE  activity' \in [Task -> Seq(Event)]
  <2> DEFINE e == [event |-> "task_created", step_count |-> n]
  <2>1. <<e>> \in Seq(Event)
    BY DEF Event
  <2> QED
    BY <1>1, <2>1, WrittenSequence DEF CreateTaskLogged
<1>2. ASSUME NEW t \in Task, CancelTaskLogged(t) PROVE activity' \in [Task -> Seq(Event)]
  <2> DEFINE e == [event |-> "task_cancelled"]
  <2>1. <<e>> \in Seq(Event)
    BY DEF Event
  <2> QED
    BY <1>2, <2>1, WrittenSequence DEF CancelTaskLogged
<1>3. ASSUME NEW w \in Worker, NEW t \in Task, NEW age \in Age, ClaimNextLogged(w, t, age)
      PROVE  activity' \in [Task -> Seq(Event)]
  <2>1. NextToken(t) \in Version /\ claimed_by[t] \in Worker \cup {NoWorker}
    BY <1>3, StoreConstants DEF ClaimNextLogged, ClaimNext, NextToken, Version, IInv, TypeOK
  <2>2. ClaimEvent(w, t) \in Event
    BY <2>1 DEF ClaimEvent, Event
  <2>3. <<ClaimEvent(w, t)>> \in Seq(Event)
    BY <2>2
  <2> QED
    BY <1>3, <2>3, WrittenSequence DEF ClaimNextLogged
<1>4. ASSUME NEW w \in Worker, NEW t \in Task, NEW age \in Age, NEW k \in Version,
             StartCurrentStepLogged(w, t, k, age)
      PROVE  activity' \in [Task -> Seq(Event)]
  <2>1. CurrentPosition(t) \in Position
    BY CurrentPositionType DEF IInv
  <2>2. StartEvent(w, t) \in Event
    BY <2>1 DEF StartEvent, Event
  <2>3. <<StartEvent(w, t)>> \in Seq(Event)
    BY <2>2
  <2> QED
    BY <1>4, <2>3, WrittenSequence DEF StartCurrentStepLogged
<1>5. ASSUME NEW w \in Worker, NEW t \in Task, NEW age \in Age, NEW k \in Version,
             NEW p \in Position, NEW ok \in BOOLEAN, CompleteStepLogged(w, t, k, p, ok, age)
      PROVE  activity' \in [Task -> Seq(Event)]
  BY <1>5, WrittenByReport, WrittenSequence DEF CompleteStepLogged
<1>6. CASE PruneDeleteLogged
  BY <1>6 DEF PruneDeleteLogged, ActivityTypeOK
<1>7. CASE Unlogged
  BY <1>7 DEF Unlogged, ActivityTypeOK
<1>8. CASE UNCHANGED activityVars
  BY <1>8 DEF activityVars, ActivityTypeOK
<1> QED
  BY <1>1, <1>2, <1>3, <1>4, <1>5, <1>6, <1>7, <1>8 DEF ActivityNext

(* The rows of the log are well formed in every state. *)
THEOREM ActivityTypeCorrect == ActivitySpec => []ActivityTypeOK
<1>1. ActivityInit /\ IInv => ActivityTypeOK
  BY DEF ActivityInit, ActivityTypeOK, IInv
<1>2. ActivityTypeOK /\ IInv /\ IInv' /\ [ActivityNext]_activityVars => ActivityTypeOK'
  BY LogTypeNext DEF ActivityTypeOK, IInv
<1> QED
  BY <1>1, <1>2, StoreInvariantLogged, PTL DEF ActivitySpec

LEMMA UnbornAlways == ActivitySpec => []Unborn
<1>1. ActivityInit => Unborn
  BY DEF ActivityInit, Init, Unborn
<1>2. IInv /\ Unborn /\ [ActivityNext]_activityVars => Unborn'
  BY LoggedStoreNext, UnbornNext DEF IInv
<1> QED
  BY <1>1, <1>2, StoreInvariantLogged, PTL DEF ActivitySpec

(* Every commit appends to the log exactly the events that tell what it did to
   the task, and no transaction changes a task in silence. *)
THEOREM EventsTellChangeAlways == ActivitySpec => EventsTellChange
<1>1. ActivityTypeOK /\ IInv /\ Unborn /\ [ActivityNext]_activityVars
        => [\A t \in Task : TellsItsChange(t)]_activityVars
  BY StepTells
<1> QED
  BY <1>1, ActivityTypeCorrect, StoreInvariantLogged, UnbornAlways, PTL
  DEF ActivitySpec, EventsTellChange

-----------------------------------------------------------------------------
(* What was written stays at its place. *)

LEMMA Appended ==
  ASSUME ActivityTypeOK, NEW t \in Task, NEW new \in Seq(Event), writeActivity(t, new)
  PROVE  /\ Len(activity[t]) \in Nat /\ Len(new) \in Nat
         /\ Len(activity'[t]) = Len(activity[t]) + Len(new)
         /\ \A i \in 1..Len(activity[t]) : activity'[t][i] = activity[t][i]
         /\ \A i \in 1..Len(new) : activity'[t][Len(activity[t]) + i] = new[i]
<1>1. activity[t] \in Seq(Event) /\ activity'[t] = activity[t] \o new
  BY WrittenIsNew DEF ActivityTypeOK
<1>2. /\ Len(activity[t]) \in Nat /\ Len(new) \in Nat
      /\ Len(activity'[t]) = Len(activity[t]) + Len(new)
      /\ \A i \in 1..Len(activity[t]) + Len(new) :
           activity'[t][i] = IF i <= Len(activity[t]) THEN activity[t][i]
                                                     ELSE new[i - Len(activity[t])]
  BY <1>1, ConcatProperties, LenProperties
<1>3. \A i \in 1..Len(activity[t]) : activity'[t][i] = activity[t][i]
  BY <1>2
<1>4. ASSUME NEW i \in 1..Len(new) PROVE activity'[t][Len(activity[t]) + i] = new[i]
  <2> DEFINE j == Len(activity[t]) + i
  <2>1. j \in 1..Len(activity[t]) + Len(new) /\ ~(j <= Len(activity[t])) /\ j - Len(activity[t]) = i
    BY <1>2
  <2>2. activity'[t][j] = new[j - Len(activity[t])]
    BY <1>2, <2>1
  <2> QED
    BY <2>1, <2>2
<1> QED
  BY <1>2, <1>3, <1>4

\* The writers of a task's log other than CancelTask, in one shape: what they
\* append holds no cancellation, and they do not write to a cancelled task.
Fenced(t) ==
  \A i \in 1..Len(activity[t]) :
    activity[t][i].event = "task_cancelled" => i = Len(activity[t]) /\ status[t] = "cancelled"

LEMMA FencedWrite ==
  ASSUME ActivityTypeOK, NEW t \in Task, NEW new \in Seq(Event), writeActivity(t, new),
         Fenced(t), status[t] # "cancelled",
         \A i \in 1..Len(new) : new[i].event # "task_cancelled"
  PROVE  Fenced(t)'
<1> SUFFICES ASSUME NEW i \in 1..Len(activity'[t]), activity'[t][i].event = "task_cancelled"
             PROVE  FALSE
  BY DEF Fenced
<1>1. CASE i <= Len(activity[t])
  BY <1>1, Appended DEF Fenced
<1>2. CASE i > Len(activity[t])
  <2> DEFINE j == i - Len(activity[t])
  <2>1. j \in 1..Len(new) /\ i = Len(activity[t]) + j
    BY <1>2, Appended
  <2> HIDE DEF j
  <2>2. activity'[t][i] = new[j]
    BY <2>1, Appended
  <2> QED
    BY <2>1, <2>2
<1> QED
  BY <1>1, <1>2, Appended

LEMMA SameFenced ==
  ASSUME NEW x \in Task, Fenced(x), activity'[x] = activity[x], status'[x] = status[x]
  PROVE  Fenced(x)'
BY DEF Fenced

LEMMA FencedCancel ==
  ASSUME ActivityTypeOK, NEW t \in Task, Fenced(t), CancelTaskLogged(t)
  PROVE  Fenced(t)'
<1> DEFINE e == [event |-> "task_cancelled"]
<1>1. <<e>> \in Seq(Event) /\ Len(<<e>>) = 1
  BY DEF Event
<1>2. /\ writeActivity(t, <<e>>) /\ status'[t] = "cancelled" /\ status[t] # "cancelled"
  BY DEF CancelTaskLogged, CancelTask, Terminal, ActivityTypeOK, TypeOK
<1>3. /\ Len(activity[t]) \in Nat /\ Len(activity'[t]) = Len(activity[t]) + 1
      /\ \A i \in 1..Len(activity[t]) : activity'[t][i] = activity[t][i]
  BY <1>1, <1>2, Appended
<1> QED
  BY <1>2, <1>3 DEF Fenced

LEMMA FencedNext ==
  ASSUME ActivityTypeOK, IInv, \A x \in Task : Fenced(x), [ActivityNext]_activityVars,
         NEW x \in Task
  PROVE  Fenced(x)'
<1>1. ASSUME NEW t \in Task, NEW n \in Position, CreateTaskLogged(t, n) PROVE Fenced(x)'
  <2> DEFINE e == [event |-> "task_created", step_count |-> n]
  <2>1. /\ CreateTask(t, n) /\ writeActivity(t, <<e>>) /\ <<e>> \in Seq(Event)
        /\ \A i \in 1..Len(<<e>>) : <<e>>[i].event # "task_cancelled"
    BY <1>1 DEF CreateTaskLogged, Event
  <2>2. x # t => activity'[x] = activity[x] /\ status'[x] = status[x]
    BY <2>1, WrittenIsNew DEF CreateTask, IInv, TypeOK
  <2>3. status[t] # "cancelled"
    BY <2>1 DEF CreateTask
  <2> HIDE DEF e
  <2> QED
    BY <2>1, <2>2, <2>3, FencedWrite, SameFenced
<1>2. ASSUME NEW t \in Task, CancelTaskLogged(t) PROVE Fenced(x)'
  <2> DEFINE e == [event |-> "task_cancelled"]
  <2>1. CancelTask(t) /\ writeActivity(t, <<e>>) /\ <<e>> \in Seq(Event)
    BY <1>2 DEF CancelTaskLogged, Event
  <2>2. x # t => activity'[x] = activity[x] /\ status'[x] = status[x]
    BY <2>1, WrittenIsNew DEF CancelTask, IInv, TypeOK
  <2> QED
    BY <1>2, <2>2, FencedCancel, SameFenced
<1>3. ASSUME NEW w \in Worker, NEW t \in Task, NEW age \in Age, ClaimNextLogged(w, t, age)
      PROVE  Fenced(x)'
  <2> DEFINE e == ClaimEvent(w, t)
  <2>1. ClaimNext(w, t, age) /\ writeActivity(t, <<e>>) /\ status[t] # "cancelled"
    BY <1>3 DEF ClaimNextLogged, ClaimNext, Claimable, Active
  <2>2. NextToken(t) \in Version /\ claimed_by[t] \in Worker \cup {NoWorker}
    BY <2>1, StoreConstants DEF ClaimNext, NextToken, Version, IInv, TypeOK
  <2>3. e \in Event /\ e.event # "task_cancelled"
    BY <2>2 DEF ClaimEvent, Event
  <2> HIDE DEF e
  <2>4. <<e>> \in Seq(Event) /\ \A i \in 1..Len(<<e>>) : <<e>>[i].event # "task_cancelled"
    BY <2>3
  <2>5. x # t => activity'[x] = activity[x] /\ status'[x] = status[x]
    BY <2>1, <2>4, WrittenIsNew DEF ClaimNext, IInv, TypeOK
  <2> QED
    BY <2>1, <2>4, <2>5, FencedWrite, SameFenced
<1>4. ASSUME NEW w \in Worker, NEW t \in Task, NEW age \in Age, NEW k \in Version,
             StartCurrentStepLogged(w, t, k, age)
      PROVE  Fenced(x)'
  <2> DEFINE e == StartEvent(w, t)
  <2>1. StartCurrentStep(w, t, k, age) /\ writeActivity(t, <<e>>) /\ status[t] # "cancelled"
    BY <1>4 DEF StartCurrentStepLogged, StartCurrentStep, CanStart, Terminal
  <2>2. CurrentPosition(t) \in Position
    BY CurrentPositionType DEF IInv
  <2>3. e \in Event /\ e.event # "task_cancelled"
    BY <2>2 DEF StartEvent, Event
  <2> HIDE DEF e
  <2>4. <<e>> \in Seq(Event) /\ \A i \in 1..Len(<<e>>) : <<e>>[i].event # "task_cancelled"
    BY <2>3
  <2>5. x # t => activity'[x] = activity[x] /\ status'[x] = status[x]
    BY <2>1, <2>4, WrittenIsNew DEF StartCurrentStep, IInv, TypeOK
  <2> QED
    BY <2>1, <2>4, <2>5, FencedWrite, SameFenced
<1>5. ASSUME NEW w \in Worker, NEW t \in Task, NEW age \in Age, NEW k \in Version,
             NEW p \in Position, NEW ok \in BOOLEAN, CompleteStepLogged(w, t, k, p, ok, age)
      PROVE  Fenced(x)'
  <2> DEFINE new == <<ReportEvent(w, t, k, p, ok)>> \o OutcomeEvents(t, p, ok)
  <2>1. CompleteStep(w, t, k, p, ok, age) /\ writeActivity(t, new) /\ status[t] # "cancelled"
    BY <1>5 DEF CompleteStepLogged, CompleteStep, CanReport
  <2>2. /\ new \in Seq(Event) /\ \A i \in 1..Len(new) : new[i].event # "task_cancelled"
    BY <2>1, WrittenByReport, ReportEvents DEF CompleteStep
  <2> HIDE DEF new
  <2>3. x # t => activity'[x] = activity[x] /\ status'[x] = status[x]
    BY <2>1, <2>2, WrittenIsNew
    DEF CompleteStep, AdvanceTask, FinishTask, FailTask, KeepTask, IInv, TypeOK
  <2> QED
    BY <2>1, <2>2, <2>3, FencedWrite, SameFenced
<1>6. CASE PruneDeleteLogged
  <2>1. CASE x \in victims
    BY <1>6, <2>1, EmptySeq DEF PruneDeleteLogged, PruneDelete, Fenced
  <2>2. CASE x \notin victims
    BY <1>6, <2>2, SameFenced DEF PruneDeleteLogged, PruneDelete
  <2> QED
    BY <2>1, <2>2
<1>7. CASE Unlogged
  BY <1>7, SameFenced DEF Unlogged, RenewLease, PruneSnapshot, PruneAbort, Tick
<1>8. CASE UNCHANGED activityVars
  BY <1>8, SameFenced DEF activityVars, vars
<1> QED
  BY <1>1, <1>2, <1>3, <1>4, <1>5, <1>6, <1>7, <1>8 DEF ActivityNext

(* No event follows the cancellation of a task. *)
THEOREM CancelledIsLastEventAlways == ActivitySpec => []CancelledIsLastEvent
<1> DEFINE AllFenced == \A t \in Task : Fenced(t)
<1>1. ActivityInit => AllFenced
  BY EmptySeq DEF ActivityInit, Fenced
<1>2. ActivityTypeOK /\ IInv /\ AllFenced /\ [ActivityNext]_activityVars => AllFenced'
  BY FencedNext
<1>3. AllFenced => CancelledIsLastEvent
  BY DEF Fenced, CancelledIsLastEvent
<1> QED
  BY <1>1, <1>2, <1>3, ActivityTypeCorrect, StoreInvariantLogged, PTL DEF ActivitySpec

-----------------------------------------------------------------------------
(* A step's row in step_logs has one event that says it was written first. *)

FirstReportOf(t, p) ==
  /\ step_log[t][p] # "none" <=> \E i \in 1..Len(activity[t]) : IsFirstReport(activity[t][i], p)
  /\ \A i, j \in 1..Len(activity[t]) :
       IsFirstReport(activity[t][i], p) /\ IsFirstReport(activity[t][j], p) => i = j

LEMMA SameFirstReport ==
  ASSUME NEW x \in Task, NEW q \in Position, FirstReportOf(x, q), activity'[x] = activity[x],
         step_log'[x][q] = step_log[x][q]
  PROVE  FirstReportOf(x, q)'
BY DEF FirstReportOf

LEMMA QuietWrite ==
  ASSUME ActivityTypeOK, NEW t \in Task, NEW new \in Seq(Event), writeActivity(t, new),
         NEW q \in Position, FirstReportOf(t, q),
         step_log'[t][q] # "none" <=> step_log[t][q] # "none",
         \A i \in 1..Len(new) : ~IsFirstReport(new[i], q)
  PROVE  FirstReportOf(t, q)'
<1>1. ASSUME NEW i \in 1..Len(activity'[t]), IsFirstReport(activity'[t][i], q)
      PROVE  i \in 1..Len(activity[t]) /\ activity'[t][i] = activity[t][i]
  <2>1. CASE i <= Len(activity[t])
    BY <2>1, Appended
  <2>2. CASE i > Len(activity[t])
    <3> DEFINE j == i - Len(activity[t])
    <3>1. j \in 1..Len(new) /\ i = Len(activity[t]) + j
      BY <2>2, Appended
    <3> HIDE DEF j
    <3>2. activity'[t][i] = new[j]
      BY <3>1, Appended
    <3> QED
      BY <1>1, <3>1, <3>2
  <2> QED
    BY <2>1, <2>2, Appended
<1>2. \A i \in 1..Len(activity[t]) : i \in 1..Len(activity'[t]) /\ activity'[t][i] = activity[t][i]
  BY Appended
<1> QED
  BY <1>1, <1>2 DEF FirstReportOf

LEMMA FirstWrite ==
  ASSUME ActivityTypeOK, NEW t \in Task, NEW new \in Seq(Event), writeActivity(t, new),
         NEW p \in Position, FirstReportOf(t, p), step_log[t][p] = "none",
         step_log'[t][p] # "none", Len(new) >= 1, IsFirstReport(new[1], p),
         \A i \in 2..Len(new) : ~IsFirstReport(new[i], p)
  PROVE  FirstReportOf(t, p)'
<1> DEFINE n == Len(activity[t])
<1>1. /\ n \in Nat /\ Len(new) \in Nat /\ Len(activity'[t]) = n + Len(new)
      /\ \A i \in 1..n : activity'[t][i] = activity[t][i]
      /\ \A i \in 1..Len(new) : activity'[t][n + i] = new[i]
  BY Appended
<1>2. \A i \in 1..n : ~IsFirstReport(activity[t][i], p)
  BY DEF FirstReportOf
<1> HIDE DEF n
<1>3. n + 1 \in 1..Len(activity'[t]) /\ IsFirstReport(activity'[t][n + 1], p)
  BY <1>1
<1>4. ASSUME NEW i \in 1..Len(activity'[t]), IsFirstReport(activity'[t][i], p)
      PROVE  i = n + 1
  <2>1. CASE i <= n
    BY <1>1, <1>2, <1>4, <2>1
  <2>2. CASE i > n + 1
    <3> DEFINE j == i - n
    <3>1. j \in 2..Len(new) /\ j \in 1..Len(new) /\ i = n + j
      BY <1>1, <2>2
    <3> HIDE DEF j
    <3>2. activity'[t][i] = new[j]
      BY <1>1, <3>1
    <3> QED
      BY <1>4, <3>1, <3>2
  <2> QED
    BY <1>1, <2>1, <2>2
<1> QED
  BY <1>3, <1>4 DEF FirstReportOf

\* Every transaction but a report leaves step_logs alone and reports nothing.
LEMMA QuietEvent ==
  ASSUME ActivityTypeOK, NEW t \in Task, NEW e, <<e>> \in Seq(Event), e.event # "step_reported",
         writeActivity(t, <<e>>), step_log' = step_log,
         NEW x \in Task, NEW q \in Position, FirstReportOf(x, q)
  PROVE  FirstReportOf(x, q)'
<1>1. \A i \in 1..Len(<<e>>) : ~IsFirstReport(<<e>>[i], q)
  BY DEF IsFirstReport
<1>2. x # t => activity'[x] = activity[x]
  BY WrittenIsNew
<1> QED
  BY <1>1, <1>2, QuietWrite, SameFirstReport

LEMMA FirstReportNext ==
  ASSUME ActivityTypeOK, IInv, \A x \in Task, q \in Position : FirstReportOf(x, q),
         [ActivityNext]_activityVars, NEW x \in Task, NEW q \in Position
  PROVE  FirstReportOf(x, q)'
<1>1. ASSUME NEW t \in Task, NEW n \in Position, CreateTaskLogged(t, n)
      PROVE  FirstReportOf(x, q)'
  <2> DEFINE e == [event |-> "task_created", step_count |-> n]
  <2>1. /\ writeActivity(t, <<e>>) /\ <<e>> \in Seq(Event) /\ e.event # "step_reported"
        /\ step_log' = step_log
    BY <1>1 DEF CreateTaskLogged, CreateTask, Event
  <2> HIDE DEF e
  <2> QED
    BY <2>1, QuietEvent
<1>2. ASSUME NEW t \in Task, CancelTaskLogged(t) PROVE FirstReportOf(x, q)'
  <2> DEFINE e == [event |-> "task_cancelled"]
  <2>1. /\ writeActivity(t, <<e>>) /\ <<e>> \in Seq(Event) /\ e.event # "step_reported"
        /\ step_log' = step_log
    BY <1>2 DEF CancelTaskLogged, CancelTask, Event
  <2> HIDE DEF e
  <2> QED
    BY <2>1, QuietEvent
<1>3. ASSUME NEW w \in Worker, NEW t \in Task, NEW age \in Age, ClaimNextLogged(w, t, age)
      PROVE  FirstReportOf(x, q)'
  <2> DEFINE e == ClaimEvent(w, t)
  <2>1. NextToken(t) \in Version /\ claimed_by[t] \in Worker \cup {NoWorker}
    BY <1>3, StoreConstants DEF ClaimNextLogged, ClaimNext, NextToken, Version, IInv, TypeOK
  <2>2. e \in Event /\ e.event # "step_reported"
    BY <2>1 DEF ClaimEvent, Event
  <2>3. writeActivity(t, <<e>>) /\ step_log' = step_log
    BY <1>3 DEF ClaimNextLogged, ClaimNext
  <2> HIDE DEF e
  <2>4. <<e>> \in Seq(Event)
    BY <2>2
  <2> QED
    BY <2>2, <2>3, <2>4, QuietEvent
<1>4. ASSUME NEW w \in Worker, NEW t \in Task, NEW age \in Age, NEW k \in Version,
             StartCurrentStepLogged(w, t, k, age)
      PROVE  FirstReportOf(x, q)'
  <2> DEFINE e == StartEvent(w, t)
  <2>1. CurrentPosition(t) \in Position
    BY CurrentPositionType DEF IInv
  <2>2. e \in Event /\ e.event # "step_reported"
    BY <2>1 DEF StartEvent, Event
  <2>3. writeActivity(t, <<e>>) /\ step_log' = step_log
    BY <1>4 DEF StartCurrentStepLogged, StartCurrentStep
  <2> HIDE DEF e
  <2>4. <<e>> \in Seq(Event)
    BY <2>2
  <2> QED
    BY <2>2, <2>3, <2>4, QuietEvent
<1>5. ASSUME NEW w \in Worker, NEW t \in Task, NEW age \in Age, NEW k \in Version,
             NEW p \in Position, NEW ok \in BOOLEAN, CompleteStepLogged(w, t, k, p, ok, age)
      PROVE  FirstReportOf(x, q)'
  <2> DEFINE r == ReportEvent(w, t, k, p, ok)
             new == <<r>> \o OutcomeEvents(t, p, ok)
  <2>1. CompleteStep(w, t, k, p, ok, age) /\ writeActivity(t, new)
    BY <1>5 DEF CompleteStepLogged
  <2>2. /\ new \in Seq(Event) /\ Len(new) \in {1, 2} /\ new[1] = r
        /\ \A i \in 2..Len(new) : new[i].event \in {"task_done", "task_failed"}
    <3>1. AdvanceTask(t, p, ok) \/ FinishTask(t, p, ok) \/ FailTask(t, p, ok) \/ KeepTask(t, p, ok)
      BY <2>1 DEF CompleteStep
    <3>2. new \in Seq(Event)
      BY WrittenByReport
    <3>3. /\ Len(new) \in {1, 2} /\ new[1] = r
          /\ \A i \in 2..Len(new) : new[i].event \in {"task_done", "task_failed"}
      BY <3>1, ReportEvents
    <3> QED
      BY <3>2, <3>3
  <2>3. /\ r.event = "step_reported" /\ r.step = p
        /\ IF step_log[t][p] = "none" THEN ~r.duplicate_report ELSE r.duplicate_report
    <3>1. r.event = "step_reported" /\ r.step = p /\ r.duplicate_report = IsDuplicate(t, p)
      BY ReportEventFacts
    <3> QED
      BY Zenon, <3>1 DEF IsDuplicate
  <2>4. step_log' = [step_log EXCEPT ![t][p] = MergedLog(t, p, ok)] /\ MergedLog(t, p, ok) # "none"
    BY <2>1 DEF CompleteStep, MergedLog
  <2> HIDE DEF r, new
  <2>5. \A i \in 2..Len(new) : ~IsFirstReport(new[i], q)
    BY <2>2 DEF IsFirstReport
  <2>6. CASE x # t
    BY <2>1, <2>2, <2>4, <2>6, WrittenIsNew, SameFirstReport DEF ActivityTypeOK, TypeOK
  <2>7. CASE x = t /\ (q # p \/ step_log[t][p] # "none")
    <3>1. ~IsFirstReport(new[1], q)
      BY <2>2, <2>3, <2>7 DEF IsFirstReport
    <3>2. \A i \in 1..Len(new) : ~IsFirstReport(new[i], q)
      BY <2>2, <2>5, <3>1
    <3>3. CASE q # p
      <4>1. step_log'[t][q] = step_log[t][q]
        BY <2>4, <3>3 DEF ActivityTypeOK, TypeOK
      <4> QED
        BY <2>1, <2>2, <2>7, <3>2, <4>1, QuietWrite
    <3>4. CASE q = p /\ step_log[t][p] # "none"
      <4>1. step_log'[t][p] # "none"
        BY <2>4 DEF ActivityTypeOK, TypeOK
      <4> QED
        BY <2>1, <2>2, <2>7, <3>2, <3>4, <4>1, QuietWrite
    <3> QED
      BY <2>7, <3>3, <3>4
  <2>8. CASE x = t /\ q = p /\ step_log[t][p] = "none"
    <3>1. IsFirstReport(new[1], p) /\ Len(new) >= 1
      BY <2>2, <2>3, <2>8 DEF IsFirstReport
    <3>2. step_log'[t][p] # "none"
      BY <2>4 DEF ActivityTypeOK, TypeOK
    <3> QED
      BY <2>1, <2>2, <2>5, <2>8, <3>1, <3>2, FirstWrite
  <2> QED
    BY <2>6, <2>7, <2>8
<1>6. CASE PruneDeleteLogged
  <2>1. CASE x \in victims
    <3>1. activity'[x] = <<>> /\ step_log'[x][q] = "none"
      BY <1>6, <2>1 DEF PruneDeleteLogged, PruneDelete
    <3> QED
      BY <3>1, EmptySeq DEF FirstReportOf
  <2>2. CASE x \notin victims
    BY <1>6, <2>2, SameFirstReport DEF PruneDeleteLogged, PruneDelete
  <2> QED
    BY <2>1, <2>2
<1>7. CASE Unlogged
  BY <1>7, SameFirstReport DEF Unlogged, RenewLease, PruneSnapshot, PruneAbort, Tick
<1>8. CASE UNCHANGED activityVars
  BY <1>8, SameFirstReport DEF activityVars, vars
<1> QED
  BY <1>1, <1>2, <1>3, <1>4, <1>5, <1>6, <1>7, <1>8 DEF ActivityNext

(* Exactly one report of a step is told it was the first write. *)
THEOREM FirstReportIsUniqueAlways == ActivitySpec => []FirstReportIsUnique
<1> DEFINE All == \A t \in Task, p \in Position : FirstReportOf(t, p)
<1>1. ActivityInit => All
  BY EmptySeq DEF ActivityInit, Init, FirstReportOf
<1>2. ActivityTypeOK /\ IInv /\ All /\ [ActivityNext]_activityVars => All'
  BY FirstReportNext
<1>3. All => FirstReportIsUnique
  BY DEF FirstReportOf, FirstReportIsUnique
<1> QED
  BY <1>1, <1>2, <1>3, ActivityTypeCorrect, StoreInvariantLogged, PTL DEF ActivitySpec
-----------------------------------------------------------------------------
(* Hand-overs: the claims of a log are counted by the token of its task, and
   what happens between two of them is done by the owner the first one named. *)

LEMMA FiniteClaims ==
  ASSUME NEW t \in Task, NEW i \in Nat
  PROVE  IsFiniteSet(ClaimsUpTo(t, i))
<1>1. IsFiniteSet(1..i) /\ ClaimsUpTo(t, i) \in SUBSET (1..i)
  BY FS_Interval DEF ClaimsUpTo
<1> QED
  BY <1>1, FS_Subset

LEMMA ClaimsStay ==
  ASSUME ActivityTypeOK, NEW t \in Task, NEW new \in Seq(Event), writeActivity(t, new),
         NEW i \in 0..Len(activity[t])
  PROVE  ClaimsUpTo(t, i)' = ClaimsUpTo(t, i)
<1>1. \A j \in 1..i : activity'[t][j] = activity[t][j]
  BY Appended
<1> QED
  BY <1>1 DEF ClaimsUpTo

LEMMA LatestClaimStays ==
  ASSUME ActivityTypeOK, NEW t \in Task, NEW new \in Seq(Event), writeActivity(t, new),
         NEW i \in 0..Len(activity[t]), NEW l \in 1..i, IsLatestClaim(t, i, l)
  PROVE  IsLatestClaim(t, i, l)' /\ activity'[t][l] = activity[t][l]
<1>1. ClaimsUpTo(t, i)' = ClaimsUpTo(t, i)
  BY ClaimsStay
<1>2. activity'[t][l] = activity[t][l]
  BY Appended
<1> QED
  BY <1>1, <1>2 DEF IsLatestClaim

\* What an event says of the claims before it stays true.
LEMMA OwnersStay ==
  ASSUME ActivityTypeOK, NEW t \in Task, NEW new \in Seq(Event), writeActivity(t, new),
         NEW i \in 1..Len(activity[t]), IsTheOwners(t, i)
  PROVE  IsTheOwners(t, i)'
<1>1. activity'[t][i] = activity[t][i] /\ ClaimsUpTo(t, i)' = ClaimsUpTo(t, i)
  BY Appended, ClaimsStay
<1>2. \A l \in 1..i : IsLatestClaim(t, i, l) =>
         IsLatestClaim(t, i, l)' /\ activity'[t][l] = activity[t][l]
  BY LatestClaimStays
<1> QED
  BY <1>1, <1>2 DEF IsTheOwners

LEMMA SameOwners ==
  ASSUME NEW x \in Task, OwnersLogged(x), activity'[x] = activity[x],
         claimed_by'[x] = claimed_by[x], ownership_version'[x] = ownership_version[x],
         status'[x] # "pruned" => status[x] # "pruned"
  PROVE  OwnersLogged(x)'
BY DEF OwnersLogged, HandOversLogged, IsTheOwners, IsLatestClaim, ClaimsUpTo

\* An event a transaction writes without handing the task over.
OfTheOwner(t, e) ==
  /\ ~IsClaim(e)
  /\ e.event \in {"step_started", "step_reported"} =>
       /\ claimed_by[t] # NoWorker
       /\ e.worker = claimed_by[t]
       /\ e.event = "step_reported" => e.token = ownership_version[t]

LEMMA OwnersWrite ==
  ASSUME ActivityTypeOK, NEW t \in Task, NEW new \in Seq(Event), writeActivity(t, new),
         OwnersLogged(t), status[t] # "pruned", claimed_by' = claimed_by,
         ownership_version' = ownership_version,
         \A j \in 1..Len(new) : OfTheOwner(t, new[j])
  PROVE  OwnersLogged(t)'
<1> DEFINE n == Len(activity[t])
<1>1. /\ n \in Nat /\ Len(new) \in Nat /\ Len(activity'[t]) = n + Len(new)
      /\ \A j \in 1..Len(new) : activity'[t][n + j] = new[j]
  BY Appended
<1>2. ASSUME NEW i \in n..Len(activity'[t])
      PROVE  ClaimsUpTo(t, i)' = ClaimsUpTo(t, n)
  <2>1. ASSUME NEW j \in 1..i, j > n PROVE ~IsClaim(activity'[t][j])
    <3> DEFINE m == j - n
    <3>1. m \in 1..Len(new) /\ j = n + m
      BY <1>1, <2>1
    <3> HIDE DEF m
    <3>2. activity'[t][j] = new[m]
      BY <1>1, <3>1
    <3> QED
      BY <3>1, <3>2 DEF OfTheOwner
  <2>2. \A j \in 1..n : activity'[t][j] = activity[t][j]
    BY Appended
  <2>3. \A j \in 1..i : IsClaim(activity'[t][j]) <=> j <= n /\ IsClaim(activity[t][j])
    BY <1>1, <2>1, <2>2
  <2>4. \A j : j \in ClaimsUpTo(t, i)' <=> j \in ClaimsUpTo(t, n)
    BY <1>1, <2>3 DEF ClaimsUpTo
  <2> QED
    BY <2>4
<1>3. ASSUME claimed_by[t] # NoWorker, NEW i \in n..Len(activity'[t])
      PROVE  \E l \in 1..n : /\ IsLatestClaim(t, i, l)'
                             /\ activity'[t][l].worker = claimed_by[t]
                             /\ activity'[t][l].token = ownership_version[t]
  <2>1. PICK l \in 1..n : /\ IsLatestClaim(t, n, l)
                          /\ activity[t][l].worker = claimed_by[t]
                          /\ activity[t][l].token = ownership_version[t]
    BY <1>3 DEF OwnersLogged, HandOversLogged
  <2>2. activity'[t][l] = activity[t][l]
    BY <1>1, Appended
  <2>3. ClaimsUpTo(t, i)' = ClaimsUpTo(t, n)
    BY <1>2
  <2> QED
    BY <2>1, <2>2, <2>3 DEF IsLatestClaim
<1>4. HandOversLogged(t)'
  <2>1. PICK m \in n..Len(activity'[t]) : m = Len(activity'[t]) /\ 1..n \subseteq 1..m
    BY <1>1
  <2>2. ClaimsUpTo(t, m)' = ClaimsUpTo(t, n)
    BY <1>2
  <2>3. Cardinality(ClaimsUpTo(t, n)) = ownership_version[t]
    BY DEF OwnersLogged, HandOversLogged
  <2>4. claimed_by[t] # NoWorker =>
          \E l \in 1..m : /\ IsLatestClaim(t, m, l)'
                          /\ activity'[t][l].worker = claimed_by[t]
                          /\ activity'[t][l].token = ownership_version[t]
    BY <1>3, <2>1
  <2> QED
    BY <2>1, <2>2, <2>3, <2>4 DEF HandOversLogged
<1>5. ASSUME NEW i \in 1..Len(activity'[t]) PROVE IsTheOwners(t, i)'
  <2>1. CASE i <= n
    BY <1>1, <2>1, OwnersStay DEF OwnersLogged
  <2>2. CASE i > n
    <3> DEFINE m == i - n
    <3>1. m \in 1..Len(new) /\ i = n + m /\ i \in n..Len(activity'[t]) /\ 1..n \subseteq 1..i
      BY <1>1, <2>2
    <3> HIDE DEF m
    <3>2. activity'[t][i] = new[m] /\ OfTheOwner(t, new[m])
      BY <1>1, <3>1
    <3>3. ASSUME claimed_by[t] # NoWorker
          PROVE  \E l \in 1..i : /\ IsLatestClaim(t, i, l)'
                                 /\ activity'[t][l].worker = claimed_by[t]
                                 /\ activity'[t][l].token = ownership_version[t]
      BY <1>3, <3>1, <3>3
    <3> QED
      BY <3>2, <3>3 DEF IsTheOwners, OfTheOwner
  <2> QED
    BY <1>1, <2>1, <2>2
<1> QED
  BY <1>4, <1>5 DEF OwnersLogged

LEMMA OwnersClaim ==
  ASSUME ActivityTypeOK, NEW t \in Task, NEW e \in Event, writeActivity(t, <<e>>),
         OwnersLogged(t), status[t] # "pruned", IsClaim(e),
         e.worker = claimed_by'[t], e.token = ownership_version'[t],
         ownership_version'[t] = ownership_version[t] + 1
  PROVE  OwnersLogged(t)'
<1>0. <<e>> \in Seq(Event) /\ Len(<<e>>) = 1 /\ <<e>>[1] = e
  OBVIOUS
<1>1. PICK n \in Nat : n = Len(activity[t])
  BY <1>0, Appended
<1>2. /\ Len(activity'[t]) = n + 1 /\ activity'[t][n + 1] = e
      /\ \A i \in 1..n : activity'[t][i] = activity[t][i]
  <2> DEFINE new == <<e>>
  <2>1. new \in Seq(Event) /\ writeActivity(t, new) /\ Len(new) = 1 /\ new[1] = e
    BY <1>0
  <2> HIDE DEF new
  <2>2. /\ Len(activity'[t]) = n + Len(new) /\ \A i \in 1..n : activity'[t][i] = activity[t][i]
    BY <1>1, <2>1, Appended
  <2>3. \A i \in 1..Len(new) : activity'[t][n + i] = new[i]
    BY <1>1, <2>1, Appended
  <2> QED
    BY <2>1, <2>2, <2>3
<1>3. ClaimsUpTo(t, n + 1)' = ClaimsUpTo(t, n) \cup {n + 1}
  <2>1. \A j : j \in ClaimsUpTo(t, n + 1)' <=> j \in ClaimsUpTo(t, n) \cup {n + 1}
    BY <1>2 DEF ClaimsUpTo
  <2> QED
    BY <2>1
<1>4. Cardinality(ClaimsUpTo(t, n) \cup {n + 1}) = ownership_version[t] + 1
  <2>1. IsFiniteSet(ClaimsUpTo(t, n)) /\ n + 1 \notin ClaimsUpTo(t, n)
    BY <1>2, FiniteClaims DEF ClaimsUpTo
  <2>2. Cardinality(ClaimsUpTo(t, n)) = ownership_version[t]
    BY <1>1 DEF OwnersLogged, HandOversLogged
  <2> QED
    BY <2>1, <2>2, FS_AddElement
<1>5. IsLatestClaim(t, n + 1, n + 1)'
  <2>1. \A h \in ClaimsUpTo(t, n) : h <= n + 1
    BY <1>2 DEF ClaimsUpTo
  <2> QED
    BY <1>2, <1>3, <2>1 DEF IsLatestClaim
<1>6. n + 1 \in 1..Len(activity'[t])
  BY <1>2
<1>7. HandOversLogged(t)'
  BY <1>2, <1>3, <1>4, <1>5, <1>6 DEF HandOversLogged
<1>8. ASSUME NEW i \in 1..Len(activity'[t]) PROVE IsTheOwners(t, i)'
  <2>1. CASE i <= n
    <3>1. i \in 1..Len(activity[t]) /\ IsTheOwners(t, i)
      BY <1>1, <2>1 DEF OwnersLogged
    <3> QED
      BY <1>0, <3>1, OwnersStay
  <2>2. CASE i = n + 1
    <3>1. e.event \notin {"step_started", "step_reported"}
      BY DEF IsClaim
    <3>2. e.token = Cardinality(ClaimsUpTo(t, n + 1)')
      BY <1>3, <1>4
    <3> QED
      BY <1>2, <2>2, <3>1, <3>2 DEF IsTheOwners
  <2> QED
    BY <1>2, <2>1, <2>2
<1> QED
  BY <1>7, <1>8 DEF OwnersLogged

LEMMA OwnersLoggedNext ==
  ASSUME ActivityTypeOK, IInv, \A x \in Task : OwnersLogged(x), [ActivityNext]_activityVars,
         NEW x \in Task
  PROVE  OwnersLogged(x)'
<1>1. ASSUME NEW t \in Task, NEW n \in Position, CreateTaskLogged(t, n) PROVE OwnersLogged(x)'
  <2> DEFINE e == [event |-> "task_created", step_count |-> n]
  <2>1. /\ CreateTask(t, n) /\ writeActivity(t, <<e>>) /\ <<e>> \in Seq(Event)
        /\ OfTheOwner(t, e)
    BY <1>1 DEF CreateTaskLogged, Event, OfTheOwner, IsClaim
  <2> HIDE DEF e
  <2>2. /\ claimed_by' = claimed_by /\ ownership_version' = ownership_version
        /\ status[t] # "pruned" /\ (x # t => status'[x] = status[x])
    BY <2>1 DEF CreateTask, IInv, TypeOK
  <2>3. x # t => activity'[x] = activity[x]
    BY <2>1, WrittenIsNew
  <2>4. \A j \in 1..Len(<<e>>) : OfTheOwner(t, <<e>>[j])
    BY <2>1
  <2> QED
    BY <2>1, <2>2, <2>3, <2>4, OwnersWrite, SameOwners
<1>2. ASSUME NEW t \in Task, CancelTaskLogged(t) PROVE OwnersLogged(x)'
  <2> DEFINE e == [event |-> "task_cancelled"]
  <2>1. /\ CancelTask(t) /\ writeActivity(t, <<e>>) /\ <<e>> \in Seq(Event)
        /\ OfTheOwner(t, e)
    BY <1>2 DEF CancelTaskLogged, Event, OfTheOwner, IsClaim
  <2> HIDE DEF e
  <2>2. /\ claimed_by' = claimed_by /\ ownership_version' = ownership_version
        /\ status[t] # "pruned" /\ (x # t => status'[x] = status[x])
    BY <2>1 DEF CancelTask, Exists, IInv, TypeOK
  <2>3. x # t => activity'[x] = activity[x]
    BY <2>1, WrittenIsNew
  <2>4. \A j \in 1..Len(<<e>>) : OfTheOwner(t, <<e>>[j])
    BY <2>1
  <2> QED
    BY <2>1, <2>2, <2>3, <2>4, OwnersWrite, SameOwners
<1>3. ASSUME NEW w \in Worker, NEW t \in Task, NEW age \in Age, ClaimNextLogged(w, t, age)
      PROVE  OwnersLogged(x)'
  <2> DEFINE e == ClaimEvent(w, t)
  <2>1. ClaimNext(w, t, age) /\ writeActivity(t, <<e>>)
    BY <1>3 DEF ClaimNextLogged
  <2>2. NextToken(t) \in Version /\ claimed_by[t] \in Worker \cup {NoWorker}
    BY <2>1, StoreConstants DEF ClaimNext, NextToken, Version, IInv, TypeOK
  <2>3. e \in Event /\ IsClaim(e) /\ e.worker = w /\ e.token = ownership_version[t] + 1
    BY <2>2 DEF ClaimEvent, Event, IsClaim, NextToken
  <2>4. /\ claimed_by'[t] = w /\ ownership_version'[t] = ownership_version[t] + 1
        /\ x # t => /\ claimed_by'[x] = claimed_by[x]
                    /\ ownership_version'[x] = ownership_version[x] /\ status'[x] = status[x]
    BY <2>1 DEF ClaimNext, NextToken, IInv, TypeOK
  <2>5. status[t] # "pruned"
    BY <2>1 DEF ClaimNext, Claimable, Active
  <2> HIDE DEF e
  <2>6. <<e>> \in Seq(Event)
    BY <2>3
  <2>7. x # t => activity'[x] = activity[x]
    BY <2>1, <2>6, WrittenIsNew
  <2> QED
    BY <2>1, <2>3, <2>4, <2>5, <2>7, OwnersClaim, SameOwners
<1>4. ASSUME NEW w \in Worker, NEW t \in Task, NEW age \in Age, NEW k \in Version,
             StartCurrentStepLogged(w, t, k, age)
      PROVE  OwnersLogged(x)'
  <2> DEFINE e == StartEvent(w, t)
  <2>1. StartCurrentStep(w, t, k, age) /\ writeActivity(t, <<e>>)
    BY <1>4 DEF StartCurrentStepLogged
  <2>2. CurrentPosition(t) \in Position
    BY CurrentPositionType DEF IInv
  <2>3. /\ claimed_by[t] = w /\ claimed_by' = claimed_by
        /\ ownership_version' = ownership_version
        /\ status[t] # "pruned" /\ (x # t => status'[x] = status[x])
    BY <2>1 DEF StartCurrentStep, CanStart, Owns, Exists, IInv, TypeOK
  <2>4. e \in Event /\ OfTheOwner(t, e)
    BY <2>2, <2>3, StoreConstants DEF StartEvent, Event, OfTheOwner, IsClaim
  <2> HIDE DEF e
  <2>5. <<e>> \in Seq(Event) /\ \A j \in 1..Len(<<e>>) : OfTheOwner(t, <<e>>[j])
    BY <2>4
  <2>6. x # t => activity'[x] = activity[x]
    BY <2>1, <2>5, WrittenIsNew
  <2> QED
    BY <2>1, <2>3, <2>5, <2>6, OwnersWrite, SameOwners
<1>5. ASSUME NEW w \in Worker, NEW t \in Task, NEW age \in Age, NEW k \in Version,
             NEW p \in Position, NEW ok \in BOOLEAN, CompleteStepLogged(w, t, k, p, ok, age)
      PROVE  OwnersLogged(x)'
  <2> DEFINE r == ReportEvent(w, t, k, p, ok)
             new == <<r>> \o OutcomeEvents(t, p, ok)
  <2>1. CompleteStep(w, t, k, p, ok, age) /\ writeActivity(t, new)
    BY <1>5 DEF CompleteStepLogged
  <2>2. /\ claimed_by[t] = w /\ ownership_version[t] = k /\ claimed_by' = claimed_by
        /\ ownership_version' = ownership_version /\ status[t] # "pruned"
    BY <2>1 DEF CompleteStep, CanReport, Owns, Exists
  <2>3. x # t => status'[x] = status[x]
    BY <2>1 DEF CompleteStep, AdvanceTask, FinishTask, FailTask, KeepTask, IInv, TypeOK
  <2>4. /\ new \in Seq(Event) /\ Len(new) \in {1, 2} /\ new[1] = r
        /\ \A i \in 2..Len(new) : new[i].event \in {"task_done", "task_failed"}
    <3>1. AdvanceTask(t, p, ok) \/ FinishTask(t, p, ok) \/ FailTask(t, p, ok) \/ KeepTask(t, p, ok)
      BY <2>1 DEF CompleteStep
    <3>2. new \in Seq(Event)
      BY WrittenByReport
    <3>3. /\ Len(new) \in {1, 2} /\ new[1] = r
          /\ \A i \in 2..Len(new) : new[i].event \in {"task_done", "task_failed"}
      BY <3>1, ReportEvents
    <3> QED
      BY <3>2, <3>3
  <2>5. r.event = "step_reported" /\ r.worker = w /\ r.token = k
    BY ReportEventFacts
  <2> HIDE DEF r, new
  <2>6. ASSUME NEW j \in 1..Len(new) PROVE OfTheOwner(t, new[j])
    <3>1. CASE j = 1
      BY <2>2, <2>4, <2>5, <3>1, StoreConstants DEF OfTheOwner, IsClaim
    <3>2. CASE j # 1
      BY <2>4, <3>2 DEF OfTheOwner, IsClaim
    <3> QED
      BY <3>1, <3>2
  <2>7. x # t => activity'[x] = activity[x]
    BY <2>1, <2>4, WrittenIsNew
  <2> QED
    BY <2>1, <2>2, <2>3, <2>4, <2>6, <2>7, OwnersWrite, SameOwners
<1>6. CASE PruneDeleteLogged
  <2>1. CASE x \in victims
    <3>1. activity'[x] = <<>> /\ status'[x] = "pruned" /\ Len(<<>>) = 0
      BY <1>6, <2>1, EmptySeq DEF PruneDeleteLogged, PruneDelete
    <3>2. HandOversLogged(x)'
      BY <3>1 DEF HandOversLogged
    <3>3. ASSUME NEW i \in 1..Len(activity'[x]) PROVE IsTheOwners(x, i)'
      BY <3>1, <3>3
    <3> QED
      BY <3>2, <3>3 DEF OwnersLogged
  <2>2. CASE x \notin victims
    BY <1>6, <2>2, SameOwners DEF PruneDeleteLogged, PruneDelete
  <2> QED
    BY <2>1, <2>2
<1>7. CASE Unlogged
  BY <1>7, SameOwners DEF Unlogged, RenewLease, PruneSnapshot, PruneAbort, Tick
<1>8. CASE UNCHANGED activityVars
  BY <1>8, SameOwners DEF activityVars, vars
<1> QED
  BY <1>1, <1>2, <1>3, <1>4, <1>5, <1>6, <1>7, <1>8 DEF ActivityNext

\* There is one latest claim, so the one that CHOOSE picks.
LEMMA OwnersAreLatest ==
  ASSUME ActivityTypeOK, AllOwnersLogged
  PROVE  EventsAreTheOwners
<1> SUFFICES ASSUME NEW t \in Task, NEW i \in 1..Len(activity[t])
             PROVE  LET e == activity[t][i]
                        claims == {j \in 1..i : IsClaim(activity[t][j])}
                        latest == CHOOSE j \in claims : \A h \in claims : h <= j IN
                    /\ IsClaim(e) => e.token = Cardinality(claims)
                    /\ e.event \in {"step_started", "step_reported"} =>
                         claims # {} /\ e.worker = activity[t][latest].worker
                    /\ e.event = "step_reported" => e.token = activity[t][latest].token
  BY DEF EventsAreTheOwners
<1> DEFINE e == activity[t][i]
           claims == {j \in 1..i : IsClaim(activity[t][j])}
           latest == CHOOSE j \in claims : \A h \in claims : h <= j
<1>1. claims = ClaimsUpTo(t, i) /\ IsTheOwners(t, i)
  BY DEF ClaimsUpTo, AllOwnersLogged, OwnersLogged
<1>2. IsClaim(e) => e.token = Cardinality(claims)
  BY <1>1 DEF IsTheOwners
<1>3. ASSUME e.event \in {"step_started", "step_reported"}
      PROVE  /\ claims # {} /\ e.worker = activity[t][latest].worker
             /\ e.event = "step_reported" => e.token = activity[t][latest].token
  <2>1. PICK l \in 1..i : /\ IsLatestClaim(t, i, l)
                          /\ e.worker = activity[t][l].worker
                          /\ e.event = "step_reported" => e.token = activity[t][l].token
    BY <1>1, <1>3 DEF IsTheOwners
  <2>2. l \in claims /\ \A h \in claims : h <= l
    BY <1>1, <2>1 DEF IsLatestClaim
  <2>3. latest \in claims /\ \A h \in claims : h <= latest
    BY <2>2
  <2>4. claims \subseteq Int
    OBVIOUS
  <2> HIDE DEF latest, claims
  <2>5. latest = l
    BY <2>2, <2>3, <2>4
  <2> QED
    BY <2>1, <2>2, <2>5
<1> QED
  BY <1>2, <1>3

(* The log tells every hand-over once, under the number of its token, and
   whatever was started or reported between two of them was started and
   reported by the owner the first one named. *)
THEOREM EventsAreTheOwnersAlways == ActivitySpec => []EventsAreTheOwners
<1>1. ActivityInit => AllOwnersLogged
  <2> SUFFICES ASSUME ActivityInit, NEW t \in Task PROVE OwnersLogged(t)
    BY DEF AllOwnersLogged
  <2>1. /\ Len(activity[t]) = 0 /\ ownership_version[t] = 0 /\ claimed_by[t] = NoWorker
    BY EmptySeq DEF ActivityInit, Init
  <2>2. ClaimsUpTo(t, 0) = {} /\ Cardinality({}) = 0
    BY FS_EmptySet DEF ClaimsUpTo
  <2>3. \A i \in 1..Len(activity[t]) : IsTheOwners(t, i)
    BY <2>1
  <2> QED
    BY <2>1, <2>2, <2>3 DEF OwnersLogged, HandOversLogged
<1>2. ActivityTypeOK /\ IInv /\ AllOwnersLogged /\ [ActivityNext]_activityVars
        => AllOwnersLogged'
  BY OwnersLoggedNext DEF AllOwnersLogged
<1>3. ActivityTypeOK /\ AllOwnersLogged => EventsAreTheOwners
  BY OwnersAreLatest
<1> QED
  BY <1>1, <1>2, <1>3, ActivityTypeCorrect, StoreInvariantLogged, PTL DEF ActivitySpec
-----------------------------------------------------------------------------
(* The replay of a whole log. Replay is a recursive function, and what one
   computes on every log is an induction over data; here the induction is over
   the behaviour instead: a transaction appends one event or two, and the
   replay of the longer log is that of the shorter one with one step more. *)

IsReplay(s, f) ==
  f = [n \in 0..Len(s) |-> IF n = 0 THEN NothingTold ELSE Told(f[n - 1], s[n])]

\* The log has one replay, and it ends with v.
ReplaysTo(s, v) ==
  \E f : IsReplay(s, f) /\ (\A g : IsReplay(s, g) => g = f) /\ f[Len(s)] = v

LEMMA ReplayOfLog ==
  ASSUME NEW s, NEW v, ReplaysTo(s, v)
  PROVE  Replay(s) = v
<1> DEFINE told == CHOOSE g : IsReplay(s, g)
<1>1. PICK f : IsReplay(s, f) /\ (\A g : IsReplay(s, g) => g = f) /\ f[Len(s)] = v
  BY DEF ReplaysTo
<1>2. told = f
  BY <1>1
<1>3. Replay(s) = told[Len(s)]
  BY DEF Replay, IsReplay
<1> QED
  BY <1>1, <1>2, <1>3

LEMMA EmptyReplay == Len(<<>>) = 0 => ReplaysTo(<<>>, NothingTold)
<1> SUFFICES ASSUME Len(<<>>) = 0 PROVE ReplaysTo(<<>>, NothingTold)
  OBVIOUS
<1> DEFINE f == [n \in 0..0 |-> NothingTold]
<1>1. IsReplay(<<>>, f)
  BY DEF IsReplay
<1>2. \A g : IsReplay(<<>>, g) => g = f
  BY DEF IsReplay
<1>3. f[0] = NothingTold
  OBVIOUS
<1> QED
  BY <1>1, <1>2, <1>3 DEF ReplaysTo

LEMMA LongerReplay ==
  ASSUME NEW s \in Seq(Event), NEW e \in Event, NEW v, ReplaysTo(s, v)
  PROVE  ReplaysTo(s \o <<e>>, Told(v, e))
<1>1. PICK f : IsReplay(s, f) /\ (\A g : IsReplay(s, g) => g = f) /\ f[Len(s)] = v
  BY DEF ReplaysTo
<1>2. PICK n \in Nat : n = Len(s)
  BY LenProperties
<1>3. PICK z : z = s \o <<e>>
  OBVIOUS
<1>4. Len(z) = n + 1 /\ z[n + 1] = e /\ \A i \in 1..n : z[i] = s[i]
  <2>1. <<e>> \in Seq(Event) /\ Len(<<e>>) = 1 /\ <<e>>[1] = e
    OBVIOUS
  <2>2. /\ Len(z) = n + 1
        /\ \A i \in 1..n + 1 : z[i] = IF i <= n THEN s[i] ELSE <<e>>[i - n]
    BY <1>2, <1>3, <2>1, ConcatProperties
  <2>3. z[n + 1] = <<e>>[(n + 1) - n] /\ (n + 1) - n = 1
    BY <1>2, <2>2
  <2>4. \A i \in 1..n : z[i] = s[i]
    BY <1>2, <2>2
  <2> QED
    BY <2>1, <2>2, <2>3, <2>4
<1> DEFINE h == [m \in 0..n + 1 |-> IF m <= n THEN f[m] ELSE Told(v, e)]
<1>5. IsReplay(z, h)
  <2>1. \A m \in 0..n : f[m] = IF m = 0 THEN NothingTold ELSE Told(f[m - 1], s[m])
    BY <1>1, <1>2 DEF IsReplay
  <2>2. ASSUME NEW m \in 0..n + 1
        PROVE  h[m] = IF m = 0 THEN NothingTold ELSE Told(h[m - 1], z[m])
    <3>1. CASE m = 0
      BY <2>1, <3>1
    <3>2. CASE m \in 1..n
      BY <1>4, <2>1, <3>2
    <3>3. CASE m = n + 1
      <4>1. h[m] = Told(v, e) /\ h[m - 1] = f[n] /\ f[n] = v /\ z[m] = e
        BY <1>1, <1>2, <1>4, <3>3
      <4> QED
        BY <3>3, <4>1
    <3> QED
      BY <3>1, <3>2, <3>3
  <2>3. h = [m \in 0..n + 1 |-> IF m = 0 THEN NothingTold ELSE Told(h[m - 1], z[m])]
    BY <2>2
  <2> QED
    BY <1>4, <2>3 DEF IsReplay
<1>6. ASSUME NEW g, IsReplay(z, g) PROVE g = h
  <2>1. /\ g = [m \in 0..n + 1 |-> g[m]]
        /\ \A m \in 0..n + 1 : g[m] = IF m = 0 THEN NothingTold ELSE Told(g[m - 1], z[m])
    BY <1>4, <1>6 DEF IsReplay
  <2> DEFINE k == [m \in 0..n |-> g[m]]
  <2>2. IsReplay(s, k)
    <3>1. ASSUME NEW m \in 0..n
          PROVE  k[m] = IF m = 0 THEN NothingTold ELSE Told(k[m - 1], s[m])
      <4>1. k[m] = IF m = 0 THEN NothingTold ELSE Told(g[m - 1], z[m])
        BY <2>1
      <4>2. m # 0 => z[m] = s[m] /\ g[m - 1] = k[m - 1]
        BY <1>4
      <4> QED
        BY <4>1, <4>2
    <3>2. k = [m \in 0..n |-> IF m = 0 THEN NothingTold ELSE Told(k[m - 1], s[m])]
      BY <3>1
    <3> QED
      BY <1>2, <3>2 DEF IsReplay
  <2>3. \A m \in 0..n : g[m] = f[m]
    <3>1. k = f
      BY <1>1, <2>2
    <3> QED
      BY <3>1
  <2>4. g[n + 1] = Told(v, e)
    <3>1. g[n + 1] = Told(g[n], e)
      <4>1. n + 1 \in 0..n + 1 /\ n + 1 # 0 /\ (n + 1) - 1 = n
        BY <1>2
      <4> QED
        BY <1>4, <2>1, <4>1
    <3>2. g[n] = v
      BY <1>1, <1>2, <2>3
    <3> QED
      BY <3>1, <3>2
  <2>5. \A m \in 0..n + 1 : g[m] = h[m]
    BY <1>2, <2>3, <2>4
  <2> QED
    BY <2>1, <2>5
<1>7. h[Len(z)] = Told(v, e)
  BY <1>4
<1> QED
  BY <1>3, <1>5, <1>6, <1>7 DEF ReplaysTo

\* A log and the tables that agree still do after a transaction that tells its change.
LEMMA ReplayTold ==
  ASSUME NEW x \in Task, activity[x] \in Seq(Event), activity'[x] \in Seq(Event),
         ReplaysTo(activity[x], InTables(x)), TellsItsChange(x)
  PROVE  ReplaysTo(activity'[x], InTables(x)')
<1>1. CASE status'[x] = "pruned" /\ activity'[x] = <<>>
  <2>1. InTables(x)' = NothingTold
    BY <1>1 DEF InTables, Exists
  <2> QED
    BY <1>1, <2>1, EmptyReplay, EmptySeq
<1>2. CASE /\ activity'[x] = activity[x] \o NewEvents(x)
           /\ Len(NewEvents(x)) <= 2
           /\ InTables(x)' = ToldByNewEvents(x)
  <2>1. PICK new : new = NewEvents(x)
    OBVIOUS
  <2>2. new \in Seq(Event) /\ Len(new) \in Nat
    <3>1. /\ Len(activity[x]) \in Nat /\ Len(activity'[x]) \in Nat
      BY LenProperties
    <3>2. \A i \in Len(activity[x]) + 1 .. Len(activity'[x]) : activity'[x][i] \in Event
      BY <3>1, ElementOfSeq
    <3>3. new = SubSeq(activity'[x], Len(activity[x]) + 1, Len(activity'[x]))
      BY <2>1 DEF NewEvents
    <3>4. new \in Seq(Event)
      BY <3>1, <3>2, <3>3, SubSeqProperties
    <3> QED
      BY <3>4, LenProperties
  <2>3. CASE Len(new) = 0
    <3>1. new = <<>> /\ InTables(x)' = InTables(x)
      BY <1>2, <2>1, <2>2, <2>3, EmptySeq DEF ToldByNewEvents
    <3>2. activity'[x] = activity[x]
      BY <1>2, <2>1, <3>1, ConcatEmptySeq
    <3> QED
      BY <3>1, <3>2
  <2>4. CASE Len(new) = 1
    <3>1. new[1] \in Event /\ new = <<new[1]>>
      <4>1. 1 \in 1..Len(new)
        BY <2>4
      <4>2. new[1] \in Event
        BY <2>2, <4>1, ElementOfSeq
      <4>3. new = <<new[1]>>
        BY <2>2, <2>4, OneLong
      <4> QED
        BY <4>2, <4>3
    <3>2. InTables(x)' = Told(InTables(x), new[1])
      BY <1>2, <2>1, <2>4 DEF ToldByNewEvents
    <3> QED
      BY <1>2, <2>1, <3>1, <3>2, LongerReplay
  <2>5. CASE Len(new) = 2
    <3>1. PICK d \in Event, e \in Event : d = new[1] /\ e = new[2] /\ new = <<d>> \o <<e>>
      <4>1. 1 \in 1..Len(new) /\ 2 \in 1..Len(new)
        BY <2>5
      <4>2. new[1] \in Event /\ new[2] \in Event
        BY <2>2, <4>1, ElementOfSeq
      <4>3. new = <<new[1]>> \o <<new[2]>>
        BY <2>2, <2>5, TwoLong
      <4> QED
        BY <4>2, <4>3
    <3>2. InTables(x)' = Told(Told(InTables(x), d), e)
      BY <1>2, <2>1, <2>5, <3>1 DEF ToldByNewEvents
    <3>3. activity'[x] = (activity[x] \o <<d>>) \o <<e>>
      <4>1. <<d>> \in Seq(Event) /\ <<e>> \in Seq(Event)
        OBVIOUS
      <4> QED
        BY <1>2, <2>1, <3>1, <4>1, ConcatAssociative
    <3>4. activity[x] \o <<d>> \in Seq(Event)
      BY ConcatProperties
    <3> QED
      BY <3>2, <3>3, <3>4, LongerReplay
  <2>6. Len(new) <= 2
    BY <1>2, <2>1
  <2>7. Len(new) = 0 \/ Len(new) = 1 \/ Len(new) = 2
    <3>1. \A n \in Nat : n <= 2 => n = 0 \/ n = 1 \/ n = 2
      OBVIOUS
    <3> QED
      BY Zenon, <2>2, <2>6, <3>1
  <2> QED
    BY <2>3, <2>4, <2>5, <2>7
<1> QED
  BY <1>1, <1>2 DEF TellsItsChange

LogReplays == \A t \in Task : ReplaysTo(activity[t], InTables(t))

(* From its log alone a reader knows where a task stands: replaying the events
   gives what the other tables say of it, in every state. *)
THEOREM LogTellsTablesAlways == ActivitySpec => []LogTellsTables
<1>1. ActivityInit => LogReplays
  <2> SUFFICES ASSUME ActivityInit, NEW t \in Task PROVE ReplaysTo(activity[t], InTables(t))
    BY DEF LogReplays
  <2>1. activity[t] = <<>> /\ InTables(t) = NothingTold
    BY DEF ActivityInit, Init, InTables, Exists
  <2> QED
    BY <2>1, EmptyReplay, EmptySeq
<1>2. ActivityTypeOK /\ ActivityTypeOK' /\ IInv /\ Unborn /\ LogReplays
        /\ [ActivityNext]_activityVars => LogReplays'
  <2> SUFFICES ASSUME ActivityTypeOK, ActivityTypeOK', IInv, Unborn, LogReplays,
                      [ActivityNext]_activityVars, NEW x \in Task
               PROVE  ReplaysTo(activity'[x], InTables(x)')
    BY DEF LogReplays
  <2>1. CASE ActivityNext
    <3>1. activity[x] \in Seq(Event) /\ activity'[x] \in Seq(Event)
      BY DEF ActivityTypeOK
    <3> QED
      BY <2>1, <3>1, StepTells, ReplayTold DEF LogReplays
  <2>2. CASE UNCHANGED activityVars
    <3>1. activity'[x] = activity[x] /\ InTables(x)' = InTables(x)
      BY <2>2, SameRowsSameTables DEF activityVars, vars
    <3> QED
      BY <3>1 DEF LogReplays
  <2> QED
    BY <2>1, <2>2
<1>3. LogReplays => LogTellsTables
  BY ReplayOfLog DEF LogReplays, LogTellsTables
<1> QED
  BY <1>1, <1>2, <1>3, ActivityTypeCorrect, StoreInvariantLogged, UnbornAlways, PTL
  DEF ActivitySpec
=============================================================================
