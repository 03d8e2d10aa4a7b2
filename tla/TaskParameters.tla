---------------------------- MODULE TaskParameters ----------------------------
(***************************************************************************)
(* The parameter columns of internal/store/store.go on top of TaskStore:   *)
(* where a task's dictionaries come from, when they are frozen and which   *)
(* of them a worker is handed for a step.                                  *)
(*                                                                         *)
(* Each transaction is the one of TaskStore with its assignments to these  *)
(* columns added.                                                          *)
(***************************************************************************)
EXTENDS TaskStore, Parameters

CONSTANT Null  \* a parameter column that is NULL

ASSUME NullIsNoDictionary == Null \notin Values

VARIABLES
  base_parameters,            \* tasks.base_parameters
  group_overrides,            \* task_groups.overrides of the task's group
  step_overrides,             \* steps.overrides by position
  group_parameters_snapshot,  \* tasks.group_parameters_snapshot
  effective_parameters,       \* tasks.effective_parameters
  resolved_parameters,        \* steps.resolved_parameters by position
  handed                      \* history: the dictionaries workers got for a step

given == <<base_parameters, group_overrides, step_overrides>>
derived == <<group_parameters_snapshot, effective_parameters, resolved_parameters, handed>>
allVars == <<vars, given, derived>>

NoOverrides == [p \in Position |-> NoValues]

ParametersTypeOK ==
  /\ base_parameters \in [Task -> Values]
  /\ group_overrides \in [Task -> Values]
  /\ step_overrides \in [Task -> [Position -> Values]]
  /\ group_parameters_snapshot \in [Task -> Values \cup {Null}]
  /\ effective_parameters \in [Task -> Values \cup {Null}]
  /\ resolved_parameters \in [Task -> [Position -> Values \cup {Null}]]
  /\ handed \in [Task -> [Position -> SUBSET Values]]
  /\ \A t \in Task : status[t] \in Active =>
       group_parameters_snapshot[t] # Null /\ effective_parameters[t] # Null

\* A first claim computes the dictionary the task starts with; a takeover finds
\* the one the previous owner left.
FaultyEffectiveAtClaim(t) == AtTaskStart(base_parameters[t], group_overrides[t])
EffectiveAtClaim(t) ==
  IF status[t] = "pending" THEN AtTaskStart(base_parameters[t], group_overrides[t])
                           ELSE effective_parameters[t]

FaultySnapshotAtClaim(t) == group_overrides[t]
SnapshotAtClaim(t) ==
  IF status[t] = "pending" THEN group_overrides[t] ELSE group_parameters_snapshot[t]

\* What a resumed step is given: what it was given the first time.
FaultyResumedParameters(t, p) ==
  AtStep(AtTaskStart(base_parameters[t], group_overrides[t]), step_overrides[t][p])
ResumedParameters(t, p) == resolved_parameters[t][p]

StartedParameters(t, p) == AtStep(effective_parameters[t], step_overrides[t][p])

-----------------------------------------------------------------------------
ParametersInit ==
  /\ Init
  /\ base_parameters = [t \in Task |-> NoValues]
  /\ group_overrides = [t \in Task |-> NoValues]
  /\ step_overrides = [t \in Task |-> NoOverrides]
  /\ group_parameters_snapshot = [t \in Task |-> Null]
  /\ effective_parameters = [t \in Task |-> Null]
  /\ resolved_parameters = [t \in Task |-> [p \in Position |-> Null]]
  /\ handed = [t \in Task |-> [p \in Position |-> {}]]

\* Every task is created in a group of its own. overrides[p] is what the caller
\* sends for step p.
CreateTaskWith(t, n, base, group, overrides) ==
  /\ CreateTask(t, n)
  /\ \A p \in Position : p > n => overrides[p] = NoValues
  /\ base_parameters' = [base_parameters EXCEPT ![t] = base]
  /\ group_overrides' = [group_overrides EXCEPT ![t] = group]
  /\ step_overrides' = [step_overrides EXCEPT ![t] = overrides]
  /\ UNCHANGED derived

ClaimNextWithParameters(w, t, age) ==
  /\ ClaimNext(w, t, age)
  /\ effective_parameters' = [effective_parameters EXCEPT ![t] = EffectiveAtClaim(t)]
  /\ group_parameters_snapshot' = [group_parameters_snapshot EXCEPT ![t] = SnapshotAtClaim(t)]
  /\ UNCHANGED <<given, resolved_parameters, handed>>

HandOut(t, p, values) == handed' = [handed EXCEPT ![t][p] = @ \cup {values}]

StartCurrentStepWithParameters(w, t, k, age) ==
  LET p == CurrentPosition(t) IN
  /\ StartCurrentStep(w, t, k, age)
  /\ \/ /\ ResumeStep(t)
        /\ HandOut(t, p, ResumedParameters(t, p))
        /\ UNCHANGED <<effective_parameters, resolved_parameters>>
     \/ /\ BeginStep(t)
        /\ HandOut(t, p, StartedParameters(t, p))
        /\ resolved_parameters' = [resolved_parameters EXCEPT ![t][p] = StartedParameters(t, p)]
        /\ effective_parameters' = [effective_parameters EXCEPT ![t] = StartedParameters(t, p)]
  /\ UNCHANGED <<given, group_parameters_snapshot>>

\* Deleted rows take their dictionaries with them.
PruneWithParameters ==
  /\ Prune
  /\ LET Kept(f, default) == [t \in Task |-> IF status'[t] = "pruned" THEN default ELSE f[t]] IN
     /\ base_parameters' = Kept(base_parameters, NoValues)
     /\ group_overrides' = Kept(group_overrides, NoValues)
     /\ step_overrides' = Kept(step_overrides, NoOverrides)
     /\ group_parameters_snapshot' = Kept(group_parameters_snapshot, Null)
     /\ effective_parameters' = Kept(effective_parameters, Null)
     /\ resolved_parameters' = Kept(resolved_parameters, [p \in Position |-> Null])
     /\ handed' = Kept(handed, [p \in Position |-> {}])

\* Somebody edits the group while its tasks are under way: no operation of the
\* Store does, an administrator with SQL may.
ChangeGroup(t, group) ==
  /\ Exists(t)
  /\ group_overrides' = [group_overrides EXCEPT ![t] = group]
  /\ UNCHANGED <<vars, base_parameters, step_overrides, derived>>

\* The transactions that leave the parameter columns alone.
OtherStep ==
  /\ \/ \E t \in Task : CancelTask(t)
     \/ \E w \in Worker, t \in Task, k \in Version, age \in Age :
          \/ RenewLease(w, t, k, age)
          \/ \E p \in Position, ok \in BOOLEAN : CompleteStep(w, t, k, p, ok, age)
     \/ Tick
  /\ UNCHANGED <<given, derived>>

ParametersNext ==
  \/ \E t \in Task, n \in Position, base \in Values, group \in Values,
        overrides \in [Position -> Values] : CreateTaskWith(t, n, base, group, overrides)
  \/ \E w \in Worker, t \in Task, age \in Age :
       \/ ClaimNextWithParameters(w, t, age)
       \/ \E k \in Version : StartCurrentStepWithParameters(w, t, k, age)
  \/ \E t \in Task, group \in Values : ChangeGroup(t, group)
  \/ PruneWithParameters
  \/ OtherStep

ParametersSpec == ParametersInit /\ [][ParametersNext]_allVars

-----------------------------------------------------------------------------
(* Properties *)

WasClaimed(t) == group_parameters_snapshot[t] # Null
StartedWith(t) == AtTaskStart(base_parameters[t], group_parameters_snapshot[t])
Started(t) == {p \in Position : resolved_parameters[t][p] # Null}

StickySoFar(t) ==
  WasClaimed(t) =>
    /\ \A p \in Started(t) :
         resolved_parameters[t][p] = Sticky(StartedWith(t), step_overrides[t], p)
    /\ \E n \in 0..MaxSteps :
         /\ Started(t) = 1..n
         /\ effective_parameters[t] = Sticky(StartedWith(t), step_overrides[t], n)

(* Each step runs with the parameters the task started with, as changed by the
   latest override of every step up to and including it, whoever ran the steps
   before it, however often they were taken over, and whatever became of the
   group meanwhile. *)
ParametersAreSticky == \A t \in Task : StickySoFar(t)

(* Every worker that runs a step, the first and those that resume it after a
   crash, is handed the same dictionary: the idempotency key task:<id>:step:<n>
   stands for one piece of work. *)
ResumedWithSameParameters ==
  \A t \in Task, p \in Position : \A v1, v2 \in handed[t][p] : v1 = v2

(* The group's parameters are read once: when they change after the first
   claim the running task keeps its snapshot, across takeovers too. *)
SnapshotIsFrozen ==
  [][\A t \in Task : WasClaimed(t) =>
       \/ group_parameters_snapshot'[t] = group_parameters_snapshot[t]
       \/ status'[t] = "pruned"]_allVars

(* The inductive invariant: which columns are filled in follows from how far
   the task and its steps have come. *)
ParametersWellFormed(t) ==
  /\ WasClaimed(t) <=> effective_parameters[t] # Null
  /\ ~WasClaimed(t) => Started(t) = {}
  /\ status[t] \in {"absent", "pending", "pruned"} => ~WasClaimed(t)
  /\ \A p \in Position :
       /\ step_status[t][p] \in {"running", "done", "failed"} => p \in Started(t)
       /\ step_status[t][p] \in {"absent", "pending"} => p \notin Started(t)
       /\ handed[t][p] \subseteq {resolved_parameters[t][p]}

ParametersIInv ==
  IInv /\ ParametersTypeOK /\ \A t \in Task : ParametersWellFormed(t) /\ StickySoFar(t)
=============================================================================
