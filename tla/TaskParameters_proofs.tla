------------------------ MODULE TaskParameters_proofs ------------------------
(***************************************************************************)
(* Proofs about TaskParameters, for every set of tasks, workers, keys and  *)
(* values and every value of the bounds.                                   *)
(***************************************************************************)
EXTENDS TaskParameters, TaskStore_proofs

-----------------------------------------------------------------------------
(* The step that AtStep takes is the step from one sticky dictionary to the
   next, for dictionaries of any size and any number of steps. *)

LEMMA NonEmptyDomain ==
  ASSUME NEW o
  PROVE  DOMAIN NonEmpty(o) = {k \in DOMAIN o : o[k] # EmptyText}
BY DEF NonEmpty, Restrict

(* Before any step a task has the parameters it started with. *)
THEOREM StickyAtStart ==
  ASSUME NEW start \in Values, NEW overrides
  PROVE  Sticky(start, overrides, 0) = start
<1>1. 1..0 = {}
  OBVIOUS
<1>2. StickyKeys(start, overrides, 0) = DOMAIN start
  BY <1>1 DEF StickyKeys
<1>3. \A k : Overriders(overrides, 0, k) = {}
  BY <1>1 DEF Overriders
<1>4. start = [k \in DOMAIN start |-> start[k]]
  BY DEF Values
<1> QED
  BY <1>2, <1>3, <1>4 DEF Sticky

LEMMA LatestOfStep ==
  ASSUME NEW overrides, NEW n \in Nat, NEW k, k \in DOMAIN NonEmpty(overrides[n + 1])
  PROVE  Latest(Overriders(overrides, n + 1, k)) = n + 1
BY DEF Latest, Overriders

LEMMA OverridersOfStep ==
  ASSUME NEW overrides, NEW n \in Nat, NEW k, k \notin DOMAIN NonEmpty(overrides[n + 1])
  PROVE  Overriders(overrides, n + 1, k) = Overriders(overrides, n, k)
BY DEF Overriders

(* Starting the next step makes its overrides the latest ones: the incremental
   merge of StartCurrentStep computes exactly the reference dictionary. *)
THEOREM StickyAtNextStep ==
  ASSUME NEW start, NEW overrides, NEW n \in Nat
  PROVE  AtStep(Sticky(start, overrides, n), overrides[n + 1]) = Sticky(start, overrides, n + 1)
<1> DEFINE over == NonEmpty(overrides[n + 1])
           before == Sticky(start, overrides, n)
           after == Sticky(start, overrides, n + 1)
           merged == AtStep(before, overrides[n + 1])
<1>1. DOMAIN before = StickyKeys(start, overrides, n)
  BY DEF Sticky
<1>2. 1..(n + 1) = 1..n \cup {n + 1}
  OBVIOUS
<1>3. StickyKeys(start, overrides, n + 1) = StickyKeys(start, overrides, n) \cup DOMAIN over
  BY <1>2 DEF StickyKeys
<1>4. merged = [k \in StickyKeys(start, overrides, n + 1) |->
                  IF k \in DOMAIN over THEN over[k] ELSE before[k]]
  BY <1>1, <1>3 DEF AtStep, Overlaid
<1>5. ASSUME NEW k \in StickyKeys(start, overrides, n + 1)
      PROVE  after[k] = IF k \in DOMAIN over THEN over[k] ELSE before[k]
  <2>1. CASE k \in DOMAIN over
    <3>1. n + 1 \in Overriders(overrides, n + 1, k)
      BY <2>1 DEF Overriders
    <3>2. after[k] = overrides[n + 1][k]
      BY <2>1, <3>1, LatestOfStep DEF Sticky
    <3>3. over[k] = overrides[n + 1][k]
      BY <2>1 DEF NonEmpty, Restrict
    <3> QED
      BY <2>1, <3>2, <3>3
  <2>2. CASE k \notin DOMAIN over
    <3>1. Overriders(overrides, n + 1, k) = Overriders(overrides, n, k)
      BY <2>2, OverridersOfStep
    <3>2. k \in StickyKeys(start, overrides, n)
      BY <1>3, <2>2
    <3> QED
      BY <2>2, <3>1, <3>2 DEF Sticky
  <2> QED
    BY <2>1, <2>2
<1>6. after = [k \in StickyKeys(start, overrides, n + 1) |-> after[k]]
  BY DEF Sticky
<1> QED
  BY <1>4, <1>5, <1>6

-----------------------------------------------------------------------------
(* The parameter columns are added to the transactions of TaskStore without
   changing them: forget them, and what is left is a behaviour of TaskStore. *)

LEMMA StoreInit == ParametersInit => Init
BY DEF ParametersInit

LEMMA StoreNext == [ParametersNext]_allVars => [Next]_vars
<1> SUFFICES ASSUME [ParametersNext]_allVars PROVE [Next]_vars
  OBVIOUS
<1>1. ASSUME NEW t \in Task, NEW n \in Position, NEW base \in Values, NEW group \in Values,
             NEW overrides \in [Position -> Values],
             CreateTaskWith(t, n, base, group, overrides)
      PROVE  Next
  BY <1>1 DEF CreateTaskWith, Next
<1>2. ASSUME NEW w \in Worker, NEW t \in Task, NEW age \in Age,
             ClaimNextWithParameters(w, t, age)
      PROVE  Next
  BY <1>2 DEF ClaimNextWithParameters, Next
<1>3. ASSUME NEW w \in Worker, NEW t \in Task, NEW age \in Age, NEW k \in Version,
             StartCurrentStepWithParameters(w, t, k, age)
      PROVE  Next
  BY <1>3 DEF StartCurrentStepWithParameters, Next
<1>4. ASSUME NEW t \in Task, NEW group \in Values, ChangeGroup(t, group)
      PROVE  UNCHANGED vars
  BY <1>4 DEF ChangeGroup
<1>5. CASE PruneWithParameters
  BY <1>5 DEF PruneWithParameters, Next
<1>6. CASE OtherStep
  BY <1>6 DEF OtherStep, Next
<1>7. CASE UNCHANGED allVars
  BY <1>7 DEF allVars
<1> QED
  BY <1>1, <1>2, <1>3, <1>4, <1>5, <1>6, <1>7 DEF ParametersNext

(* What is proved of the task table holds with its parameter columns too. *)
THEOREM ParametersImplementStore == ParametersSpec => Spec
BY StoreInit, StoreNext, PTL DEF ParametersSpec, Spec

-----------------------------------------------------------------------------
(* Dictionaries stay dictionaries. *)

LEMMA OverlaidType ==
  ASSUME NEW a \in Values, NEW b \in Values
  PROVE  Overlaid(a, b) \in Values
<1>1. PICK K \in SUBSET Key : a \in [K -> Val]
  BY DEF Values
<1>2. PICK L \in SUBSET Key : b \in [L -> Val]
  BY DEF Values
<1>3. Overlaid(a, b) \in [K \cup L -> Val]
  BY <1>1, <1>2 DEF Overlaid
<1> QED
  BY <1>3 DEF Values

LEMMA NonEmptyType ==
  ASSUME NEW o \in Values
  PROVE  NonEmpty(o) \in Values
<1>1. PICK K \in SUBSET Key : o \in [K -> Val]
  BY DEF Values
<1>2. NonEmpty(o) \in [{k \in K : o[k] # EmptyText} -> Val]
  BY <1>1 DEF NonEmpty, Restrict
<1> QED
  BY <1>2 DEF Values

LEMMA AtTaskStartType == \A a, b \in Values : AtTaskStart(a, b) \in Values
BY OverlaidType DEF AtTaskStart

LEMMA AtStepType == \A a, b \in Values : AtStep(a, b) \in Values
BY OverlaidType, NonEmptyType DEF AtStep

LEMMA NoValuesType == NoValues \in Values
<1>1. NoValues \in [{} -> Val]
  BY DEF NoValues
<1> QED
  BY <1>1 DEF Values

-----------------------------------------------------------------------------
(* The inductive invariant *)

LEMMA ParametersIInvInit == ParametersInit => ParametersIInv
<1> SUFFICES ASSUME ParametersInit PROVE ParametersIInv
  OBVIOUS
<1>1. IInv
  BY IInvInit DEF ParametersInit
<1>2. ParametersTypeOK
  BY NoValuesType DEF ParametersInit, ParametersTypeOK, Init, NoOverrides, Active
<1>3. ASSUME NEW t \in Task PROVE ParametersWellFormed(t) /\ StickySoFar(t)
  BY DEF ParametersInit, Init, ParametersWellFormed, StickySoFar, WasClaimed, Started
<1> QED
  BY <1>1, <1>2, <1>3 DEF ParametersIInv

(* A step of the table that leaves a task's dictionaries alone keeps them in
   order if it starts no step and does not take the task back to pending. *)
LEMMA SameParameters ==
  ASSUME ParametersIInv, NEW x \in Task,
         group_parameters_snapshot'[x] = group_parameters_snapshot[x],
         effective_parameters'[x] = effective_parameters[x],
         resolved_parameters'[x] = resolved_parameters[x],
         base_parameters'[x] = base_parameters[x], step_overrides'[x] = step_overrides[x],
         handed'[x] = handed[x],
         status'[x] \in {"absent", "pending", "pruned"} => status'[x] = status[x],
         \A p \in Position :
           \/ step_status'[x][p] = step_status[x][p]
           \/ step_status'[x][p] = "cancelled"
           \/ /\ step_status[x][p] \in {"running", "done", "failed"}
              /\ step_status'[x][p] \notin {"absent", "pending"}
  PROVE  ParametersWellFormed(x)' /\ StickySoFar(x)'
<1>1. (WasClaimed(x) <=> WasClaimed(x)') /\ Started(x)' = Started(x)
      /\ StartedWith(x)' = StartedWith(x)
  BY DEF WasClaimed, Started, StartedWith
<1>2. StickySoFar(x)'
  BY <1>1 DEF ParametersIInv, StickySoFar
<1>3. ParametersWellFormed(x)'
  BY <1>1 DEF ParametersIInv, ParametersWellFormed
<1> QED
  BY <1>2, <1>3

LEMMA OtherKeeps ==
  ASSUME ParametersIInv, OtherStep, NEW x \in Task
  PROVE  /\ ParametersWellFormed(x)' /\ StickySoFar(x)'
         /\ status'[x] \in Active => WasClaimed(x)
<1> USE DEF Active
<1>0. status[x] \in Active => WasClaimed(x)
  BY DEF ParametersIInv, ParametersTypeOK, WasClaimed
<1>1. UNCHANGED <<given, derived>>
  BY DEF OtherStep
<1>2. ASSUME NEW t \in Task, CancelTask(t)
      PROVE  /\ status'[x] \in {status[x], "cancelled"}
             /\ \A p \in Position : step_status'[x][p] \in {step_status[x][p], "cancelled"}
  BY <1>2 DEF ParametersIInv, IInv, TypeOK, CancelTask, UnfinishedCancelled
<1>3. ASSUME NEW w \in Worker, NEW t \in Task, NEW k \in Version, NEW age \in Age,
             RenewLease(w, t, k, age)
      PROVE  status' = status /\ step_status' = step_status
  BY <1>3 DEF RenewLease
<1>4. ASSUME NEW w \in Worker, NEW t \in Task, NEW k \in Version, NEW age \in Age,
             NEW p \in Position, NEW ok \in BOOLEAN, CompleteStep(w, t, k, p, ok, age)
      PROVE  /\ step_status[t][p] \in {"running", "done", "failed"}
             /\ x # t => status'[x] = status[x]
             /\ status'[t] = status[t] \/ status'[t] \in {"claimed", "done", "failed"}
             /\ \A q \in Position : (x = t /\ q = p) \/ step_status'[x][q] = step_status[x][q]
             /\ step_status'[t][p] = step_status[t][p] \/ step_status'[t][p] \in {"done", "failed"}
  <2>1. step_status[t][p] \in {"running", "done", "failed"}
    BY <1>4, ReportFacts DEF CompleteStep, ParametersIInv
  <2> QED
    BY <1>4, <2>1 DEF ParametersIInv, IInv, TypeOK, CompleteStep, AdvanceTask, FinishTask,
      FailTask, KeepTask
<1>5. CASE Tick
  BY <1>0, <1>1, <1>5, SameParameters DEF Tick, given, derived
<1>6. ASSUME NEW t \in Task, CancelTask(t)
      PROVE  /\ ParametersWellFormed(x)' /\ StickySoFar(x)'
             /\ status'[x] \in Active => WasClaimed(x)
  BY <1>0, <1>1, <1>2, <1>6, SameParameters DEF given, derived
<1>7. ASSUME NEW w \in Worker, NEW t \in Task, NEW k \in Version, NEW age \in Age,
             RenewLease(w, t, k, age)
      PROVE  /\ ParametersWellFormed(x)' /\ StickySoFar(x)'
             /\ status'[x] \in Active => WasClaimed(x)
  BY <1>0, <1>1, <1>3, <1>7, SameParameters DEF given, derived
<1>8. ASSUME NEW w \in Worker, NEW t \in Task, NEW k \in Version, NEW age \in Age,
             NEW p \in Position, NEW ok \in BOOLEAN, CompleteStep(w, t, k, p, ok, age)
      PROVE  /\ ParametersWellFormed(x)' /\ StickySoFar(x)'
             /\ status'[x] \in Active => WasClaimed(x)
  <2>1. WasClaimed(t)
    BY <1>4, <1>8 DEF ParametersIInv, ParametersWellFormed
  <2>2. ParametersWellFormed(x)' /\ StickySoFar(x)'
    BY <1>1, <1>4, <1>8, SameParameters DEF given, derived
  <2> QED
    BY <1>0, <1>4, <1>8, <2>1, <2>2
<1> QED
  BY <1>5, <1>6, <1>7, <1>8 DEF OtherStep

LEMMA CreateWithKeeps ==
  ASSUME ParametersIInv, NEW t \in Task, NEW n \in Position, NEW base \in Values,
         NEW group \in Values, NEW overrides \in [Position -> Values],
         CreateTaskWith(t, n, base, group, overrides)
  PROVE  ParametersTypeOK' /\ \A x \in Task : ParametersWellFormed(x)' /\ StickySoFar(x)'
<1>1. /\ CreateTask(t, n) /\ UNCHANGED derived
      /\ base_parameters' = [base_parameters EXCEPT ![t] = base]
      /\ group_overrides' = [group_overrides EXCEPT ![t] = group]
      /\ step_overrides' = [step_overrides EXCEPT ![t] = overrides]
  BY DEF CreateTaskWith
<1>2. status[t] = "absent" /\ status' = [status EXCEPT ![t] = "pending"]
  BY <1>1 DEF CreateTask
<1>3. ParametersTypeOK'
  BY <1>1, <1>2 DEF ParametersIInv, IInv, TypeOK, ParametersTypeOK, derived, Active
<1>4. ASSUME NEW x \in Task, x # t PROVE ParametersWellFormed(x)' /\ StickySoFar(x)'
  <2>1. status'[x] = status[x] /\ step_status'[x] = step_status[x]
    BY <1>1, <1>4 DEF ParametersIInv, IInv, TypeOK, CreateTask
  <2> QED
    BY <1>1, <1>4, <2>1, SameParameters DEF ParametersIInv, ParametersTypeOK, derived
<1>5. ParametersWellFormed(t)' /\ StickySoFar(t)'
  <2>1. ~WasClaimed(t) /\ Started(t) = {}
    BY <1>2 DEF ParametersIInv, ParametersWellFormed
  <2>2. ~WasClaimed(t)' /\ Started(t)' = {}
    BY <1>1, <2>1 DEF WasClaimed, Started, derived
  <2>3. \A p \in Position : step_status'[t][p] \in {"pending", "absent"}
    BY <1>1 DEF ParametersIInv, IInv, TypeOK, CreateTask
  <2> QED
    BY <1>1, <2>1, <2>2, <2>3 DEF ParametersIInv, ParametersWellFormed, StickySoFar, derived
<1> QED
  BY <1>3, <1>4, <1>5

(* The first claim starts the sticky dictionary, a takeover leaves it alone. *)
LEMMA ClaimWithKeeps ==
  ASSUME ParametersIInv, NEW w \in Worker, NEW t \in Task, NEW age \in Age,
         ClaimNextWithParameters(w, t, age)
  PROVE  ParametersTypeOK' /\ \A x \in Task : ParametersWellFormed(x)' /\ StickySoFar(x)'
<1>1. /\ effective_parameters' = [effective_parameters EXCEPT ![t] = EffectiveAtClaim(t)]
      /\ group_parameters_snapshot' = [group_parameters_snapshot EXCEPT ![t] = SnapshotAtClaim(t)]
      /\ UNCHANGED <<given, resolved_parameters, handed>>
  BY DEF ClaimNextWithParameters
<1>2. /\ status[t] \in Active \cup {"pending"}
      /\ status' = [status EXCEPT ![t] = "claimed"]
      /\ step_status' = step_status
  BY DEF ClaimNextWithParameters, ClaimNext, Claimable
<1>3. EffectiveAtClaim(t) \in Values /\ SnapshotAtClaim(t) \in Values
  BY <1>2, AtTaskStartType
  DEF ParametersIInv, ParametersTypeOK, EffectiveAtClaim, SnapshotAtClaim, Active
<1>4. ParametersTypeOK'
  BY <1>1, <1>2, <1>3, NullIsNoDictionary
  DEF ParametersIInv, IInv, TypeOK, ParametersTypeOK, given, Active
<1>5. ASSUME NEW x \in Task, x # t \/ status[t] \in Active
      PROVE  ParametersWellFormed(x)' /\ StickySoFar(x)'
  <2>1. /\ effective_parameters'[x] = effective_parameters[x]
        /\ group_parameters_snapshot'[x] = group_parameters_snapshot[x]
    BY <1>1, <1>5
    DEF ParametersIInv, ParametersTypeOK, EffectiveAtClaim, SnapshotAtClaim, Active
  <2>2. status'[x] = status[x] \/ status'[x] = "claimed"
    BY <1>2 DEF ParametersIInv, IInv, TypeOK
  <2> QED
    BY <1>1, <1>2, <2>1, <2>2, SameParameters DEF given
<1>6. ASSUME status[t] = "pending" PROVE ParametersWellFormed(t)' /\ StickySoFar(t)'
  <2>1. Started(t) = {}
    BY <1>6 DEF ParametersIInv, ParametersWellFormed
  <2>2. Started(t)' = 1..0
    BY <1>1, <2>1 DEF Started
  <2>3. effective_parameters'[t] = StartedWith(t)' /\ StartedWith(t)' \in Values
    BY <1>1, <1>3, <1>6
    DEF ParametersIInv, ParametersTypeOK, StartedWith, EffectiveAtClaim, SnapshotAtClaim, given
  <2>4. effective_parameters'[t] = Sticky(StartedWith(t)', step_overrides'[t], 0)
    BY <2>3, StickyAtStart
  <2>5. StickySoFar(t)'
    BY <2>2, <2>4, StoreConstants DEF StickySoFar
  <2>6. group_parameters_snapshot'[t] # Null /\ effective_parameters'[t] # Null
    BY <1>1, <1>3, NullIsNoDictionary DEF ParametersIInv, ParametersTypeOK
  <2>7. status'[t] = "claimed"
    BY <1>2 DEF ParametersIInv, IInv, TypeOK
  <2>8. ParametersWellFormed(t)'
    BY <1>1, <1>2, <2>1, <2>2, <2>6, <2>7
    DEF ParametersIInv, ParametersWellFormed, WasClaimed
  <2> QED
    BY <2>5, <2>8
<1> QED
  BY <1>2, <1>4, <1>5, <1>6

(* Starting a step takes the sticky dictionary one step on; resuming one hands
   out what the step was started with. *)
LEMMA StartWithKeeps ==
  ASSUME ParametersIInv, NEW w \in Worker, NEW t \in Task, NEW k \in Version, NEW age \in Age,
         StartCurrentStepWithParameters(w, t, k, age)
  PROVE  ParametersTypeOK' /\ \A x \in Task : ParametersWellFormed(x)' /\ StickySoFar(x)'
<1> DEFINE p == CurrentPosition(t)
<1>1. /\ StartCurrentStep(w, t, k, age)
      /\ UNCHANGED <<given, group_parameters_snapshot>>
      /\ status' = [status EXCEPT ![t] = "running"]
      /\ status[t] \in {"pending", "claimed", "running"}
      /\ claimed_by[t] = w
  BY DEF StartCurrentStepWithParameters, StartCurrentStep, CanStart, Owns, Exists, Terminal,
    ParametersIInv, IInv, TypeOK, TaskStatus, Active
<1>2. p \in Position /\ status[t] \in Active
  BY <1>1, CurrentPositionType, StoreConstants DEF ParametersIInv, IInv, WellFormed, Active
<1>3. /\ WasClaimed(t) /\ WasClaimed(t)' /\ effective_parameters[t] \in Values
      /\ StartedWith(t)' = StartedWith(t) /\ step_overrides' = step_overrides
  BY <1>1, <1>2 DEF ParametersIInv, ParametersTypeOK, WasClaimed, StartedWith, given
<1>4. CASE ResumeStep(t) /\ HandOut(t, p, ResumedParameters(t, p))
           /\ UNCHANGED <<effective_parameters, resolved_parameters>>
  <2>1. step_status' = step_status /\ step_status[t][p] = "running"
    BY <1>4 DEF ResumeStep
  <2>2. resolved_parameters[t][p] \in Values
    BY <1>2, <2>1 DEF ParametersIInv, ParametersWellFormed, ParametersTypeOK, Started
  <2>3. ParametersTypeOK'
    BY <1>1, <1>2, <1>4, <2>2
    DEF ParametersIInv, IInv, TypeOK, ParametersTypeOK, HandOut, ResumedParameters, given, Active
  <2>4. ASSUME NEW x \in Task PROVE ParametersWellFormed(x)' /\ StickySoFar(x)'
    <3>1. (WasClaimed(x) <=> WasClaimed(x)') /\ Started(x)' = Started(x)
          /\ StartedWith(x)' = StartedWith(x)
      BY <1>1, <1>4 DEF WasClaimed, Started, StartedWith, given
    <3>2. StickySoFar(x)'
      BY <1>3, <1>4, <3>1 DEF ParametersIInv, StickySoFar
    <3>3. \A q \in Position : handed'[x][q] \subseteq {resolved_parameters'[x][q]}
      BY <1>2, <1>4
      DEF ParametersIInv, ParametersWellFormed, ParametersTypeOK, HandOut, ResumedParameters
    <3>4. status'[x] = status[x] \/ status'[x] = "running"
      BY <1>1 DEF ParametersIInv, IInv, TypeOK
    <3>5. ParametersWellFormed(x)'
      BY <1>4, <2>1, <3>1, <3>3, <3>4 DEF ParametersIInv, ParametersWellFormed
    <3> QED
      BY <3>2, <3>5
  <2> QED
    BY <2>3, <2>4
<1>5. CASE /\ BeginStep(t) /\ HandOut(t, p, StartedParameters(t, p))
           /\ resolved_parameters' = [resolved_parameters EXCEPT ![t][p] = StartedParameters(t, p)]
           /\ effective_parameters' = [effective_parameters EXCEPT ![t] = StartedParameters(t, p)]
  <2>1. step_status[t][p] = "pending"
        /\ step_status' = [step_status EXCEPT ![t][p] = "running"]
    BY <1>5 DEF BeginStep
  <2>2. StartedParameters(t, p) \in Values
    BY <1>2, <1>3, AtStepType DEF ParametersIInv, ParametersTypeOK, StartedParameters
  <2>3. ParametersTypeOK'
    BY <1>1, <1>2, <1>5, <2>2, NullIsNoDictionary
    DEF ParametersIInv, IInv, TypeOK, ParametersTypeOK, HandOut, given, Active
  <2>4. ASSUME NEW x \in Task, x # t PROVE ParametersWellFormed(x)' /\ StickySoFar(x)'
    <3>1. /\ status'[x] = status[x] /\ step_status'[x] = step_status[x]
          /\ effective_parameters'[x] = effective_parameters[x]
          /\ resolved_parameters'[x] = resolved_parameters[x] /\ handed'[x] = handed[x]
      BY <1>1, <1>5, <2>1, <2>4
      DEF ParametersIInv, IInv, TypeOK, ParametersTypeOK, HandOut
    <3> QED
      BY <1>1, <2>4, <3>1, SameParameters DEF given
  <2>5. Started(t) = 1..(p - 1)
    <3>1. PICK n \in 0..MaxSteps : Started(t) = 1..n
      BY <1>3 DEF ParametersIInv, StickySoFar
    <3>2. \A q \in Position : q < p => q \in Started(t)
      BY <1>1, <1>2
      DEF ParametersIInv, IInv, WellFormed, ExistingWellFormed, ParametersWellFormed, Exists, Active
    <3>3. p \notin Started(t)
      BY <1>2, <2>1 DEF ParametersIInv, ParametersWellFormed
    <3>4. n = p - 1
      <4>1. ~(p <= n)
        BY <1>2, <3>1, <3>3 DEF Position
      <4>2. p - 1 <= n
        BY <1>2, <3>1, <3>2, StoreConstants DEF Position
      <4> QED
        BY <1>2, <4>1, <4>2, <3>1, StoreConstants DEF Position
    <3> QED
      BY <3>1, <3>4
  <2>6. effective_parameters[t] = Sticky(StartedWith(t), step_overrides[t], p - 1)
    <3>1. PICK n \in 0..MaxSteps :
            /\ Started(t) = 1..n
            /\ effective_parameters[t] = Sticky(StartedWith(t), step_overrides[t], n)
      BY <1>3 DEF ParametersIInv, StickySoFar
    <3>2. n = p - 1
      BY <1>2, <2>5, <3>1, StoreConstants DEF Position
    <3> QED
      BY <3>1, <3>2
  <2>7. StartedParameters(t, p) = Sticky(StartedWith(t), step_overrides[t], p)
    <3>1. p - 1 \in Nat /\ (p - 1) + 1 = p
      BY <1>2, StoreConstants DEF Position
    <3> QED
      BY <2>6, <3>1, StickyAtNextStep DEF StartedParameters
  <2>8. Started(t)' = 1..p
    <3>1. \A q \in Position : resolved_parameters'[t][q] # Null <=> q \in Started(t) \/ q = p
      BY <1>2, <1>5, <2>2, NullIsNoDictionary DEF ParametersIInv, ParametersTypeOK, Started
    <3>2. Started(t)' = {q \in Position : q \in Started(t) \/ q = p}
      BY <3>1 DEF Started
    <3> QED
      BY <1>2, <2>5, <3>2, StoreConstants DEF Position
  <2>9. \A q \in Position : resolved_parameters'[t][q] =
           IF q = p THEN StartedParameters(t, p) ELSE resolved_parameters[t][q]
    BY <1>2, <1>5 DEF ParametersIInv, ParametersTypeOK
  <2>10. effective_parameters'[t] = StartedParameters(t, p)
    BY <1>5 DEF ParametersIInv, ParametersTypeOK
  <2>11. StickySoFar(t)'
    <3>1. \A q \in Started(t)' :
            resolved_parameters'[t][q] = Sticky(StartedWith(t), step_overrides[t], q)
      <4> SUFFICES ASSUME NEW q \in Started(t)'
                   PROVE  resolved_parameters'[t][q] = Sticky(StartedWith(t), step_overrides[t], q)
        OBVIOUS
      <4>1. q \in Position /\ (q = p \/ q \in Started(t))
        BY <1>2, <2>5, <2>8, StoreConstants DEF Position, Started
      <4> QED
        BY <1>3, <2>7, <2>9, <4>1 DEF ParametersIInv, StickySoFar
    <3>2. p \in 0..MaxSteps
      BY <1>2, StoreConstants DEF Position
    <3> QED
      BY <1>3, <2>7, <2>8, <2>10, <3>1, <3>2 DEF StickySoFar
  <2>12. ParametersWellFormed(t)'
    <3>1. WasClaimed(t)' /\ effective_parameters'[t] # Null /\ status'[t] = "running"
      BY <1>1, <1>3, <2>2, <2>10, NullIsNoDictionary DEF ParametersIInv, IInv, TypeOK
    <3>2. ASSUME NEW q \in Position
          PROVE  /\ step_status'[t][q] \in {"running", "done", "failed"} => q \in Started(t)'
                 /\ step_status'[t][q] \in {"absent", "pending"} => q \notin Started(t)'
                 /\ handed'[t][q] \subseteq {resolved_parameters'[t][q]}
      <4>1. q \in Started(t)' <=> q = p \/ q \in Started(t)
        BY <1>2, <2>5, <2>8, StoreConstants DEF Position
      <4>2. step_status'[t][q] = IF q = p THEN "running" ELSE step_status[t][q]
        BY <1>2, <2>1 DEF ParametersIInv, IInv, TypeOK
      <4>3. resolved_parameters[t][p] = Null
        BY <1>2, <2>1 DEF ParametersIInv, ParametersWellFormed, Started
      <4>4. handed[t][p] = {}
        BY <1>2, <4>3, NullIsNoDictionary
        DEF ParametersIInv, ParametersTypeOK, ParametersWellFormed
      <4>5. handed'[t][q] = IF q = p THEN {StartedParameters(t, p)} ELSE handed[t][q]
        BY <1>2, <1>5, <4>4 DEF ParametersIInv, ParametersTypeOK, HandOut
      <4>6. handed'[t][q] \subseteq {resolved_parameters'[t][q]}
        BY <2>9, <4>5 DEF ParametersIInv, ParametersWellFormed
      <4> QED
        BY <4>1, <4>2, <4>6 DEF ParametersIInv, ParametersWellFormed
    <3> QED
      BY <3>1, <3>2 DEF ParametersWellFormed
  <2> QED
    BY <2>3, <2>4, <2>11, <2>12
<1> QED
  BY <1>4, <1>5 DEF StartCurrentStepWithParameters

LEMMA PruneWithKeeps ==
  ASSUME ParametersIInv, PruneWithParameters
  PROVE  ParametersTypeOK' /\ \A x \in Task : ParametersWellFormed(x)' /\ StickySoFar(x)'
<1>1. /\ base_parameters' = [t \in Task |->
            IF status'[t] = "pruned" THEN NoValues ELSE base_parameters[t]]
      /\ group_overrides' = [t \in Task |->
            IF status'[t] = "pruned" THEN NoValues ELSE group_overrides[t]]
      /\ step_overrides' = [t \in Task |->
            IF status'[t] = "pruned" THEN NoOverrides ELSE step_overrides[t]]
      /\ group_parameters_snapshot' = [t \in Task |->
            IF status'[t] = "pruned" THEN Null ELSE group_parameters_snapshot[t]]
      /\ effective_parameters' = [t \in Task |->
            IF status'[t] = "pruned" THEN Null ELSE effective_parameters[t]]
      /\ resolved_parameters' = [t \in Task |->
            IF status'[t] = "pruned" THEN [p \in Position |-> Null] ELSE resolved_parameters[t]]
      /\ handed' = [t \in Task |->
            IF status'[t] = "pruned" THEN [p \in Position |-> {}] ELSE handed[t]]
  BY DEF PruneWithParameters
<1>2. ASSUME NEW x \in Task
      PROVE  \/ status'[x] = "pruned"
             \/ status'[x] = status[x] /\ step_status'[x] = step_status[x]
  BY DEF PruneWithParameters, Prune, PruneSnapshot, PruneDelete, PruneAbort
<1>3. IInv'
  BY IInvNext DEF ParametersIInv, PruneWithParameters, Next
<1>4. ParametersTypeOK'
  BY <1>1, <1>2, NoValuesType
  DEF ParametersIInv, ParametersTypeOK, NoOverrides, Active
<1>5. ASSUME NEW x \in Task, status'[x] # "pruned"
      PROVE  ParametersWellFormed(x)' /\ StickySoFar(x)'
  BY <1>1, <1>2, <1>5, SameParameters
<1>6. ASSUME NEW x \in Task, status'[x] = "pruned"
      PROVE  ParametersWellFormed(x)' /\ StickySoFar(x)'
  <2>1. ~WasClaimed(x)' /\ Started(x)' = {}
    BY <1>1, <1>6 DEF WasClaimed, Started
  <2>2. \A p \in Position : step_status'[x][p] = "absent" /\ handed'[x][p] = {}
    BY <1>1, <1>3, <1>6 DEF IInv, WellFormed, MissingWellFormed, Exists
  <2> QED
    BY <1>1, <1>6, <2>1, <2>2 DEF ParametersWellFormed, StickySoFar
<1> QED
  BY <1>4, <1>5, <1>6

LEMMA OtherTypes == ParametersIInv /\ OtherStep => ParametersTypeOK'
<1> SUFFICES ASSUME ParametersIInv, OtherStep PROVE ParametersTypeOK'
  OBVIOUS
<1>1. UNCHANGED <<given, derived>>
  BY DEF OtherStep
<1>2. ASSUME NEW x \in Task, status'[x] \in Active
      PROVE  group_parameters_snapshot'[x] # Null /\ effective_parameters'[x] # Null
  <2>1. WasClaimed(x)
    BY <1>2, OtherKeeps
  <2> QED
    BY <1>1, <2>1 DEF ParametersIInv, ParametersWellFormed, WasClaimed, derived
<1> QED
  BY <1>1, <1>2 DEF ParametersIInv, ParametersTypeOK, given, derived

LEMMA ChangeGroupKeeps ==
  ASSUME ParametersIInv, NEW t \in Task, NEW group \in Values, ChangeGroup(t, group)
  PROVE  ParametersTypeOK' /\ \A x \in Task : ParametersWellFormed(x)' /\ StickySoFar(x)'
<1>1. ParametersTypeOK'
  BY DEF ParametersIInv, ParametersTypeOK, ChangeGroup, vars, derived
<1>2. ASSUME NEW x \in Task PROVE ParametersWellFormed(x)' /\ StickySoFar(x)'
  BY SameParameters DEF ChangeGroup, vars, derived
<1> QED
  BY <1>1, <1>2

LEMMA ParametersIInvNext == ParametersIInv /\ [ParametersNext]_allVars => ParametersIInv'
<1> SUFFICES ASSUME ParametersIInv, [ParametersNext]_allVars PROVE ParametersIInv'
  OBVIOUS
<1> DEFINE Kept == ParametersTypeOK' /\ \A x \in Task : ParametersWellFormed(x)' /\ StickySoFar(x)'
<1>1. ASSUME NEW t \in Task, NEW n \in Position, NEW base \in Values, NEW group \in Values,
             NEW overrides \in [Position -> Values],
             CreateTaskWith(t, n, base, group, overrides)
      PROVE  Kept
  BY <1>1, CreateWithKeeps
<1>2. ASSUME NEW w \in Worker, NEW t \in Task, NEW age \in Age,
             ClaimNextWithParameters(w, t, age)
      PROVE  Kept
  BY <1>2, ClaimWithKeeps
<1>3. ASSUME NEW w \in Worker, NEW t \in Task, NEW age \in Age, NEW k \in Version,
             StartCurrentStepWithParameters(w, t, k, age)
      PROVE  Kept
  BY <1>3, StartWithKeeps
<1>4. ASSUME NEW t \in Task, NEW group \in Values, ChangeGroup(t, group) PROVE Kept
  BY <1>4, ChangeGroupKeeps
<1>5. ASSUME PruneWithParameters PROVE Kept
  BY <1>5, PruneWithKeeps
<1>6. ASSUME OtherStep PROVE Kept
  BY <1>6, OtherKeeps, OtherTypes
<1>7. ASSUME UNCHANGED allVars PROVE Kept
  <2>1. ParametersTypeOK'
    BY <1>7 DEF ParametersIInv, ParametersTypeOK, allVars, vars, given, derived
  <2>2. ASSUME NEW x \in Task PROVE ParametersWellFormed(x)' /\ StickySoFar(x)'
    BY <1>7, SameParameters DEF allVars, vars, given, derived
  <2> QED
    BY <2>1, <2>2
<1>8. Kept
  BY <1>1, <1>2, <1>3, <1>4, <1>5, <1>6, <1>7 DEF ParametersNext
<1>9. IInv'
  BY IInvNext, StoreNext DEF ParametersIInv
<1> QED
  BY <1>8, <1>9 DEF ParametersIInv

(* The columns a task's dictionaries are kept in are filled in exactly as far
   as the task has come. *)
THEOREM ParametersWellFormedAlways == ParametersSpec => []ParametersIInv
BY ParametersIInvInit, ParametersIInvNext, PTL DEF ParametersSpec

-----------------------------------------------------------------------------
(* What follows from it *)

(* Every step of every task runs with the merge of the task's starting
   parameters and the latest override of each key, for any number of steps,
   keys, takeovers and edits of the group. *)
THEOREM ParametersAreStickyAlways == ParametersSpec => []ParametersAreSticky
<1>1. ParametersIInv => ParametersAreSticky
  BY DEF ParametersIInv, ParametersAreSticky
<1> QED
  BY <1>1, ParametersWellFormedAlways, PTL

(* A worker that resumes a step is handed what the worker that started it was. *)
THEOREM ResumedWithSameParametersAlways == ParametersSpec => []ResumedWithSameParameters
<1>1. ParametersIInv => ResumedWithSameParameters
  BY DEF ParametersIInv, ParametersWellFormed, ResumedWithSameParameters
<1> QED
  BY <1>1, ParametersWellFormedAlways, PTL

LEMMA SnapshotKeptByNext ==
  ASSUME ParametersIInv, [ParametersNext]_allVars, NEW x \in Task, WasClaimed(x)
  PROVE  group_parameters_snapshot'[x] = group_parameters_snapshot[x] \/ status'[x] = "pruned"
<1>1. status[x] \notin {"absent", "pending"}
  BY DEF ParametersIInv, ParametersWellFormed
<1>2. ASSUME NEW w \in Worker, NEW t \in Task, NEW age \in Age,
             ClaimNextWithParameters(w, t, age)
      PROVE  group_parameters_snapshot'[x] = group_parameters_snapshot[x]
  BY <1>1, <1>2 DEF ParametersIInv, ParametersTypeOK, ClaimNextWithParameters, SnapshotAtClaim
<1>3. CASE PruneWithParameters
  BY <1>3 DEF PruneWithParameters
<1>4. CASE \/ OtherStep
           \/ UNCHANGED allVars
           \/ \E t \in Task, group \in Values : ChangeGroup(t, group)
           \/ \E t \in Task, n \in Position, base, group \in Values,
                 overrides \in [Position -> Values] : CreateTaskWith(t, n, base, group, overrides)
           \/ \E w \in Worker, t \in Task, age \in Age, k \in Version :
                 StartCurrentStepWithParameters(w, t, k, age)
  BY <1>4 DEF OtherStep, ChangeGroup, CreateTaskWith, StartCurrentStepWithParameters, allVars, derived
<1> QED
  BY <1>2, <1>3, <1>4 DEF ParametersNext

(* The group's parameters are read at the first claim and never again. *)
THEOREM SnapshotIsFrozenAlways == ParametersSpec => SnapshotIsFrozen
<1>1. ParametersIInv /\ [ParametersNext]_allVars =>
        [\A t \in Task : WasClaimed(t) =>
           \/ group_parameters_snapshot'[t] = group_parameters_snapshot[t]
           \/ status'[t] = "pruned"]_allVars
  BY SnapshotKeptByNext
<1> QED
  BY <1>1, ParametersWellFormedAlways, PTL DEF ParametersSpec, SnapshotIsFrozen
=============================================================================
