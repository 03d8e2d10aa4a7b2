----------------------------- MODULE ActivityLog -----------------------------
(***************************************************************************)
(* The activity log: the rows of activity_logs that every transaction of   *)
(* internal/store/store.go writes with writeActivity, on top of TaskStore. *)
(*                                                                         *)
(* A row gets its id while the transaction holds the lock of its task, so  *)
(* the rows of one task are numbered in the order of their commits and are *)
(* a sequence here. Of their details the model keeps what a reader needs   *)
(* to follow the task. The demo writes rows by a statement of its own      *)
(* (RecordClaimDemoAttempt); its tasks are in ClaimDemo.                   *)
(***************************************************************************)
EXTENDS TaskStore, Sequences

CONSTANT MaxEvents   \* bound on the events of a task

ASSUME ActivityConstants == MaxEvents \in Nat

VARIABLE activity    \* the rows of activity_logs of each task, by id

activityVars == <<vars, activity>>

Event ==
  [event : {"task_created"}, step_count : Position]
    \cup [event : {"task_claimed"}, worker : Worker, token : Version]
    \cup [event : {"task_reclaimed"}, worker : Worker, token : Version,
          previous_worker : Worker \cup {NoWorker}]
    \cup [event : {"step_started"}, step : Position, worker : Worker, resumed : BOOLEAN]
    \cup [event : {"step_reported"}, step : Position, worker : Worker, token : Version,
          reported_success : BOOLEAN, final_success : BOOLEAN, duplicate_report : BOOLEAN]
    \cup [event : {"task_failed"}, step : Position]
    \cup [event : {"task_done", "task_cancelled"}]

ActivityTypeOK ==
  /\ TypeOK
  /\ activity \in [Task -> Seq(Event)]

-----------------------------------------------------------------------------
(* What each transaction writes *)

\* The status read at the start of the transaction decides between the two.
FaultyClaimEvent(w, t) ==
  [event |-> "task_claimed", worker |-> w, token |-> ownership_version[t]]
ClaimEvent(w, t) ==
  IF status[t] = "pending"
    THEN [event |-> "task_claimed", worker |-> w, token |-> NextToken(t)]
    ELSE [event |-> "task_reclaimed", worker |-> w, token |-> NextToken(t),
          previous_worker |-> claimed_by[t]]

StartEvent(w, t) ==
  [event |-> "step_started", step |-> CurrentPosition(t), worker |-> w,
   resumed |-> step_status[t][CurrentPosition(t)] = "running"]

\* SELECT EXISTS (SELECT 1 FROM step_logs ...), before the report writes its own.
FaultyIsDuplicate(t, p) == step_log[t][p] = "success"
IsDuplicate(t, p) == step_log[t][p] # "none"

ReportEvent(w, t, k, p, ok) ==
  [event |-> "step_reported", step |-> p, worker |-> w, token |-> k,
   reported_success |-> ok, final_success |-> MergedLog(t, p, ok) = "success",
   duplicate_report |-> IsDuplicate(t, p)]

\* taskCompleted and taskFailed
FaultyOutcomeEvents(t, p, ok) ==
  CASE IsFirstSuccess(t, p, ok) -> <<[event |-> "task_done"]>>
    [] IsFirstFailure(t, p, ok) -> <<[event |-> "task_failed", step |-> p]>>
    [] OTHER -> <<>>
OutcomeEvents(t, p, ok) ==
  CASE IsFirstSuccess(t, p, ok) /\ LaterRows(t, p) = {} -> <<[event |-> "task_done"]>>
    [] IsFirstFailure(t, p, ok) -> <<[event |-> "task_failed", step |-> p]>>
    [] OTHER -> <<>>

writeActivity(t, events) ==
  /\ Len(activity[t]) + Len(events) <= MaxEvents
  /\ activity' = [activity EXCEPT ![t] = @ \o events]

-----------------------------------------------------------------------------
ActivityInit == Init /\ activity = [t \in Task |-> <<>>]

CreateTaskLogged(t, n) ==
  /\ CreateTask(t, n)
  /\ writeActivity(t, <<[event |-> "task_created", step_count |-> n]>>)

ClaimNextLogged(w, t, age) ==
  /\ ClaimNext(w, t, age)
  /\ writeActivity(t, <<ClaimEvent(w, t)>>)

StartCurrentStepLogged(w, t, k, age) ==
  /\ StartCurrentStep(w, t, k, age)
  /\ writeActivity(t, <<StartEvent(w, t)>>)

CompleteStepLogged(w, t, k, p, ok, age) ==
  /\ CompleteStep(w, t, k, p, ok, age)
  /\ writeActivity(t, <<ReportEvent(w, t, k, p, ok)>> \o OutcomeEvents(t, p, ok))

CancelTaskLogged(t) ==
  /\ CancelTask(t)
  /\ writeActivity(t, <<[event |-> "task_cancelled"]>>)

\* The rows go with their task (ON DELETE CASCADE).
PruneDeleteLogged ==
  /\ PruneDelete
  /\ activity' = [t \in Task |-> IF t \in victims THEN <<>> ELSE activity[t]]

\* A renewal is not logged, and choosing the victims of a pruning pass is not.
Unlogged ==
  /\ \/ \E w \in Worker, t \in Task, k \in Version, age \in Age : RenewLease(w, t, k, age)
     \/ \E V \in SUBSET Task : PruneSnapshot(V)
     \/ PruneAbort
     \/ Tick
  /\ UNCHANGED activity

ActivityNext ==
  \/ \E t \in Task : CancelTaskLogged(t) \/ \E n \in Position : CreateTaskLogged(t, n)
  \/ \E w \in Worker, t \in Task, age \in Age :
       \/ ClaimNextLogged(w, t, age)
       \/ \E k \in Version :
            \/ StartCurrentStepLogged(w, t, k, age)
            \/ \E p \in Position, ok \in BOOLEAN : CompleteStepLogged(w, t, k, p, ok, age)
  \/ PruneDeleteLogged
  \/ Unlogged

ActivitySpec == ActivityInit /\ [][ActivityNext]_activityVars

-----------------------------------------------------------------------------
(* Properties *)

\* A task as somebody who only reads its log can know it.
NothingTold == [status |-> "none", owner |-> NoWorker, token |-> 0, steps |-> {},
                current |-> 0, done |-> {}]

\* The first success of step p: the next step is up. That of the last one is
\* followed by task_done.
ToldSuccess(v, p) ==
  [v EXCEPT !.status = "claimed", !.done = @ \cup {p},
            !.current = IF p + 1 \in v.steps THEN p + 1 ELSE p]

Told(v, e) ==
  CASE e.event = "task_created" ->
         [NothingTold EXCEPT !.status = "pending", !.steps = 1..e.step_count]
    [] e.event \in {"task_claimed", "task_reclaimed"} ->
         [v EXCEPT !.status = "claimed", !.owner = e.worker, !.token = e.token]
    [] e.event = "step_started" -> [v EXCEPT !.status = "running", !.current = e.step]
    [] e.event = "step_reported" ->
         IF e.final_success /\ e.step \notin v.done THEN ToldSuccess(v, e.step) ELSE v
    [] e.event = "task_done" -> [v EXCEPT !.status = "done"]
    [] e.event = "task_failed" -> [v EXCEPT !.status = "failed"]
    [] e.event = "task_cancelled" -> [v EXCEPT !.status = "cancelled"]

\* The same of its rows in the other tables.
StepsDone(t) == {p \in Position : step_status[t][p] = "done"}
RowsOfTask(t) ==
  [status |-> status[t], owner |-> claimed_by[t], token |-> ownership_version[t],
   steps |-> Rows(t), current |-> current_step[t], done |-> StepsDone(t)]
InTables(t) == IF Exists(t) THEN RowsOfTask(t) ELSE NothingTold

Replay(events) ==
  LET told[n \in 0..Len(events)] ==
        IF n = 0 THEN NothingTold ELSE Told(told[n - 1], events[n])
  IN told[Len(events)]

(* The log is the history of the task: from its events alone a reader gets its
   status, owner, token, current step and the steps that are done. No
   transaction changes these without a word, and none tells of a change it did
   not make (writeActivity is called inside each transaction). *)
LogTellsTables == \A t \in Task : Replay(activity[t]) = InTables(t)

NewEvents(t) == SubSeq(activity'[t], Len(activity[t]) + 1, Len(activity'[t]))

ToldByNewEvents(t) ==
  LET new == NewEvents(t) IN
  CASE Len(new) = 0 -> InTables(t)
    [] Len(new) = 1 -> Told(InTables(t), new[1])
    [] Len(new) = 2 -> Told(Told(InTables(t), new[1]), new[2])

TellsItsChange(t) ==
  \/ status'[t] = "pruned" /\ activity'[t] = <<>>
  \/ /\ activity'[t] = activity[t] \o NewEvents(t)
     /\ Len(NewEvents(t)) <= 2
     /\ InTables(t)' = ToldByNewEvents(t)

(* Each step of LogTellsTables: a transaction appends at most two events, and
   they say exactly what it did to the task; what was written before stays
   until the task is pruned. *)
EventsTellChange == [][\A t \in Task : TellsItsChange(t)]_activityVars

IsClaim(e) == e.event \in {"task_claimed", "task_reclaimed"}

(* Every hand-over is in the log once, and what happened under a token is
   logged while it was the latest: between two claims there are only reports by
   the owner that the first one named, with its token, and starts by that owner. *)
EventsAreTheOwners ==
  \A t \in Task : \A i \in 1..Len(activity[t]) :
    LET e == activity[t][i]
        claims == {j \in 1..i : IsClaim(activity[t][j])}
        latest == CHOOSE j \in claims : \A h \in claims : h <= j IN
    /\ IsClaim(e) => e.token = Cardinality(claims)
    /\ e.event \in {"step_started", "step_reported"} =>
         claims # {} /\ e.worker = activity[t][latest].worker
    /\ e.event = "step_reported" => e.token = activity[t][latest].token

(* What makes EventsAreTheOwners inductive: the claims in the log of a task are
   counted by its token, and the last of them names the worker and the token
   that its row holds. *)
ClaimsUpTo(t, i) == {j \in 1..i : IsClaim(activity[t][j])}
IsLatestClaim(t, i, l) == l \in ClaimsUpTo(t, i) /\ \A h \in ClaimsUpTo(t, i) : h <= l

IsTheOwners(t, i) ==
  LET e == activity[t][i] IN
  /\ IsClaim(e) => e.token = Cardinality(ClaimsUpTo(t, i))
  /\ e.event \in {"step_started", "step_reported"} =>
       \E l \in 1..i : /\ IsLatestClaim(t, i, l)
                       /\ e.worker = activity[t][l].worker
                       /\ e.event = "step_reported" => e.token = activity[t][l].token

HandOversLogged(t) ==
  status[t] # "pruned" =>
    /\ Cardinality(ClaimsUpTo(t, Len(activity[t]))) = ownership_version[t]
    /\ claimed_by[t] # NoWorker =>
         \E l \in 1..Len(activity[t]) : /\ IsLatestClaim(t, Len(activity[t]), l)
                                       /\ activity[t][l].worker = claimed_by[t]
                                       /\ activity[t][l].token = ownership_version[t]

OwnersLogged(t) == HandOversLogged(t) /\ \A i \in 1..Len(activity[t]) : IsTheOwners(t, i)
AllOwnersLogged == \A t \in Task : OwnersLogged(t)

IsFirstReport(e, p) == e.event = "step_reported" /\ e.step = p /\ ~e.duplicate_report

(* "First write" is said of one report of a step, the one that made its row in
   step_logs, however many arrive and whatever they say (reportFive in app.js
   takes its verdict from these answers). *)
FirstReportIsUnique ==
  \A t \in Task, p \in Position :
    /\ step_log[t][p] # "none" <=> \E i \in 1..Len(activity[t]) : IsFirstReport(activity[t][i], p)
    /\ \A i, j \in 1..Len(activity[t]) :
         IsFirstReport(activity[t][i], p) /\ IsFirstReport(activity[t][j], p) => i = j

(* The cancellation of a task is the last thing its log says: nothing a worker
   sends later gets an event (CancelTask fences the workers in flight). *)
CancelledIsLastEvent ==
  \A t \in Task : \A i \in 1..Len(activity[t]) :
    activity[t][i].event = "task_cancelled" => i = Len(activity[t])
=============================================================================
