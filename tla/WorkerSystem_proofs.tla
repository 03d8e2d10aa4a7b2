------------------------- MODULE WorkerSystem_proofs -------------------------
(***************************************************************************)
(* Proofs about WorkerSystem, for any number of processes, tasks, steps    *)
(* and faults, and whatever processes share a worker id.                   *)
(***************************************************************************)
EXTENDS WorkerSystem, TaskStore_proofs

-----------------------------------------------------------------------------
(* The processes and the user change the table by its transactions only. *)

LEMMA AgeZero == 0 \in Age
BY StoreConstants DEF Age

LEMMA CallersAreTyped ==
  ASSUME SystemIInv
  PROVE  /\ \A p \in Process : /\ IdOf[p] \in Worker /\ proc[p].token \in Version
                               /\ proc[p].pc # "idle" => proc[p].task \in Task
         /\ button # NoButton => /\ button.task \in Task /\ button.worker \in Worker
                                 /\ button.token \in Version
BY WorkerConfiguration DEF SystemIInv, SystemTypeOK, ProcessState, TokensInUse

LEMMA ReportIsNext ==
  ASSUME NEW w \in Worker, NEW t \in Task, NEW k \in Version, NEW s, NEW ok \in BOOLEAN,
         CompleteStep(w, t, k, s, ok, 0)
  PROVE  Next /\ s \in Position
<1>1. s \in Position
  BY DEF CompleteStep, AcceptsReport, Rows
<1> QED
  BY <1>1, AgeZero DEF Next

LEMMA SystemStoreNext == SystemIInv /\ [SystemNext]_systemVars => [Next]_vars
<1> SUFFICES ASSUME SystemIInv, [SystemNext]_systemVars PROVE [Next]_vars
  OBVIOUS
<1>1. ASSUME NEW p \in Process, Claim(p) \/ ClaimAnswerLost(p) PROVE Next
  BY <1>1, AgeZero, CallersAreTyped DEF Claim, ClaimAnswerLost, Next
<1>2. ASSUME NEW p \in Process, Execute(p) PROVE [Next]_vars
  <2>1. CASE StartOrLeave(p)
    BY <2>1, AgeZero, CallersAreTyped DEF StartOrLeave, Next
  <2>2. CASE Renew(p)
    BY <2>2, AgeZero, CallersAreTyped DEF Renew, Next
  <2>3. CASE ReportDone(p)
    BY <2>3, ReportIsNext, CallersAreTyped DEF ReportDone
  <2> QED
    BY <1>2, <2>1, <2>2, <2>3 DEF Execute
<1>3. ASSUME NEW p \in Process, Crash(p) \/ Stall(p) \/ Resume(p) PROVE UNCHANGED vars
  BY <1>3 DEF Crash, Stall, Resume
<1>4. ASSUME NEW p \in Process, CallAnswerLost(p) PROVE Next
  <2>1. proc[p].pc # "idle"
    BY <1>4 DEF CallAnswerLost
  <2>2. CASE StartCurrentStep(IdOf[p], proc[p].task, proc[p].token, 0)
    BY <2>1, <2>2, AgeZero, CallersAreTyped DEF Next
  <2>3. CASE RenewLease(IdOf[p], proc[p].task, proc[p].token, 0)
    BY <2>1, <2>3, AgeZero, CallersAreTyped DEF Next
  <2>4. CASE CompleteStep(IdOf[p], proc[p].task, proc[p].token, proc[p].step, TRUE, 0)
    BY <2>1, <2>4, ReportIsNext, CallersAreTyped
  <2> QED
    BY <1>4, <2>2, <2>3, <2>4 DEF CallAnswerLost
<1>5. ASSUME NEW t \in Task, Cancel(t) PROVE Next
  BY <1>5 DEF Cancel, Next
<1>6. ASSUME NEW t \in Task, NEW n \in Position, Submit(t, n) PROVE Next
  BY <1>6 DEF Submit, Next
<1>7. ASSUME NEW t \in Task, ShowButton(t) PROVE UNCHANGED vars
  BY <1>7 DEF ShowButton
<1>8. ASSUME NEW ok \in BOOLEAN, PressButton(ok) PROVE Next
  BY <1>8, ReportIsNext, CallersAreTyped DEF PressButton
<1>9. CASE PassTime
  BY <1>9 DEF PassTime, Next
<1>10. CASE UNCHANGED systemVars
  BY <1>10 DEF systemVars
<1> QED
  BY <1>1, <1>2, <1>3, <1>4, <1>5, <1>6, <1>7, <1>8, <1>9, <1>10 DEF SystemNext

-----------------------------------------------------------------------------
(* What the transactions leave of ownership: all but ClaimNext keep the owner
   and the token, and none shortens the lease of a task that stays alive. *)

Alive == Active \cup {"failed"}

OwnerKept(t) ==
  /\ claimed_by'[t] = claimed_by[t] /\ ownership_version'[t] = ownership_version[t]
  /\ status[t] \in Active \cup Terminal => status'[t] \in Active \cup Terminal
  /\ status'[t] \in Alive =>
       status[t] \in Alive /\ lease_left'[t] \in {lease_left[t], LeaseDuration}

LEMMA CancelKeepsOwner ==
  ASSUME IInv, NEW t \in Task, CancelTask(t), NEW x \in Task
  PROVE  OwnerKept(x)
BY DEF IInv, TypeOK, CancelTask, OwnerKept, Alive, Active, Terminal

LEMMA CreateKeepsOwner ==
  ASSUME IInv, NEW t \in Task, NEW n \in Position, CreateTask(t, n), NEW x \in Task
  PROVE  OwnerKept(x)
BY DEF IInv, TypeOK, CreateTask, OwnerKept, Alive, Active, Terminal

LEMMA RenewKeepsOwner ==
  ASSUME IInv, NEW w \in Worker, NEW t \in Task, NEW k \in Version, RenewLease(w, t, k, 0),
         NEW x \in Task
  PROVE  OwnerKept(x) /\ k = ownership_version[t] /\ lease_left'[t] = LeaseDuration
         /\ status'[t] \in Active
BY StoreConstants
DEF IInv, TypeOK, RenewLease, CanRenew, Owns, NewLease, OwnerKept, Alive, Active

LEMMA StartKeepsOwner ==
  ASSUME IInv, NEW w \in Worker, NEW t \in Task, NEW k \in Version, StartCurrentStep(w, t, k, 0),
         NEW x \in Task
  PROVE  OwnerKept(x) /\ k = ownership_version[t] /\ lease_left' = lease_left
<1>1. k = ownership_version[t] /\ status[t] \in Active \cup {"pending"}
  BY DEF IInv, TypeOK, TaskStatus, StartCurrentStep, CanStart, Owns, Exists, Active, Terminal
<1>2. status[t] # "pending"
  BY StoreConstants DEF IInv, WellFormed, StartCurrentStep, CanStart, Owns
<1> QED
  BY <1>1, <1>2 DEF IInv, TypeOK, StartCurrentStep, OwnerKept, Alive, Active, Terminal

LEMMA ReportKeepsOwner ==
  ASSUME IInv, NEW w \in Worker, NEW t \in Task, NEW k \in Version, NEW s \in Position,
         NEW ok \in BOOLEAN, CompleteStep(w, t, k, s, ok, 0), NEW x \in Task
  PROVE  OwnerKept(x) /\ k = ownership_version[t]
         /\ (status'[x] \in Alive => lease_left'[x] = lease_left[x])
<1>1. k = ownership_version[t] /\ UNCHANGED <<claimed_by, ownership_version>>
  BY DEF CompleteStep, CanReport, Owns
<1>2. CASE x # t
  BY <1>1, <1>2
  DEF IInv, TypeOK, CompleteStep, AdvanceTask, FinishTask, FailTask, KeepTask, OwnerKept
<1>3. CASE x = t
  <2>1. CanReport(t, w, k, 0) /\ AcceptsReport(t, s)
    BY DEF CompleteStep
  <2>2. status[t] \in Active \cup {"done", "failed"}
    BY <2>1, AgeZero, ReportFacts
  <2>3. CASE AdvanceTask(t, s, ok)
    <3>1. status[t] # "done"
      BY <2>1, <2>3, AgeZero, ReportFacts DEF AdvanceTask, IsFirstSuccess, Active
    <3> QED
      BY <1>1, <1>3, <2>2, <2>3, <3>1
      DEF IInv, TypeOK, AdvanceTask, OwnerKept, Alive, Active, Terminal
  <2>4. CASE FinishTask(t, s, ok)
    BY <1>1, <1>3, <2>4 DEF IInv, TypeOK, FinishTask, OwnerKept, Alive, Active, Terminal
  <2>5. CASE FailTask(t, s, ok)
    <3>1. status[t] \in Active
      BY <2>1, <2>5, AgeZero, ReportFacts DEF FailTask, IsFirstFailure
    <3> QED
      BY <1>1, <1>3, <2>5, <3>1
      DEF IInv, TypeOK, FailTask, LeaseAfterFailure, OwnerKept, Alive, Active, Terminal
  <2>6. CASE KeepTask(t, s, ok)
    BY <1>1, <1>3, <2>6 DEF KeepTask, OwnerKept
  <2> QED
    BY <2>3, <2>4, <2>5, <2>6 DEF CompleteStep
<1> QED
  BY <1>1, <1>2, <1>3

-----------------------------------------------------------------------------
(* Steps in which a process keeps its task, or gives it up *)

LEMMA AliveHasLease ==
  ASSUME IInv, NEW t \in Task, status[t] \in Alive
  PROVE  lease_left[t] \in LongExpired..LeaseDuration
BY DEF IInv, TypeOK, WellFormed, LeaseLeft, Alive, Active

LEMMA UnrenewedType ==
  ASSUME SystemTypeOK, NEW p \in Process
  PROVE  Unrenewed(proc[p]) \in 0..(2 * HeartbeatInterval)
<1>1. /\ proc[p].pc \in {"idle", "starting", "working"} /\ proc[p].done_in \in 0..StepDelay
      /\ proc[p].beat_in \in 0..HeartbeatInterval /\ proc[p].beat_due \in BOOLEAN
  BY DEF SystemTypeOK, ProcessState
<1>2. StepDelay \in Nat /\ HeartbeatInterval \in Nat
  BY WorkerConfiguration
<1>3. CASE proc[p].pc # "working"
  BY <1>2, <1>3 DEF Unrenewed
<1>4. CASE proc[p].pc = "working" /\ Waited(proc[p]) < HeartbeatInterval
  BY <1>1, <1>2, <1>4 DEF Unrenewed, Waited
<1>5. CASE proc[p].pc = "working" /\ ~(Waited(proc[p]) < HeartbeatInterval)
  <2>1. CASE proc[p].beat_due
    BY <1>1, <1>2, <1>5, <2>1 DEF Unrenewed, Waited
  <2>2. CASE ~proc[p].beat_due
    BY <1>1, <1>2, <1>5, <2>2 DEF Unrenewed, Waited
  <2> QED
    BY <2>1, <2>2
<1> QED
  BY <1>3, <1>4, <1>5

\* What has to be shown of a process that goes on with its task.
GoesOn(p) ==
  LET t == proc[p].task IN
  /\ t # NoTask /\ proc'[p].task = t /\ proc'[p].token = proc[p].token
  /\ proc'[p].pc # "idle" /\ (proc'[p].pc = "working" => proc'[p].beat_in > 0)
  /\ HeartbeatFits /\ HealthyOwns(p) /\ proc'[p].health = "ok" =>
       /\ proc[p].health = "ok"
       /\ proc'[p].pc = "working" => BeatsInTime(proc'[p])
       /\ status'[t] \in Alive => lease_left'[t] >= LeaseDuration - Unrenewed(proc'[p])

LEMMA CallsKeep ==
  ASSUME SystemIInv, IInv', SystemTypeOK',
         \A t \in Task : /\ OwnerKept(t)
                         /\ last_token'[t] \in {last_token[t], ownership_version[t]},
         \A p \in Process : proc'[p] = proc[p] \/ proc'[p] = Idle \/ GoesOn(p),
         button' = button \/ (button'.task # NoTask /\ button'.worker # NoWorker)
  PROVE  SystemIInv'
<1>1. \A p \in Process : proc[p].task # NoTask => proc[p].task \in Task
  BY DEF SystemIInv, SystemTypeOK, ProcessState
<1>2. \A t \in Task : ownership_version[t] \in Nat /\ ownership_version'[t] = ownership_version[t]
  BY DEF SystemIInv, IInv, TypeOK, Version, OwnerKept
<1>3. \A p \in Process : proc'[p].task # NoTask =>
        proc'[p].task = proc[p].task /\ proc'[p].token = proc[p].token
  BY DEF GoesOn, Idle
<1>4. TokensInUse'
  <2>1. (button # NoButton => button.task # NoTask /\ button.worker # NoWorker)'
    BY DEF SystemIInv, TokensInUse
  <2>2. \A t \in Task : last_token'[t] <= ownership_version'[t]
    BY <1>2 DEF SystemIInv, TokensInUse
  <2>3. ASSUME NEW p \in Process
        PROVE  /\ proc'[p].pc = "idle" <=> proc'[p].task = NoTask
               /\ proc'[p].pc = "idle" => proc'[p].health = "ok"
               /\ proc'[p].pc = "working" => proc'[p].beat_in > 0
               /\ proc'[p].task # NoTask =>
                    /\ status'[proc'[p].task] \in Active \cup Terminal
                    /\ proc'[p].token <= ownership_version'[proc'[p].task]
    <3>1. CASE proc'[p] = proc[p] \/ GoesOn(p)
      BY <1>1, <1>2, <3>1 DEF SystemIInv, TokensInUse, GoesOn, OwnerKept
    <3>2. CASE proc'[p] = Idle
      BY <3>2 DEF Idle
    <3> QED
      BY <3>1, <3>2
  <2> QED
    BY <2>1, <2>2, <2>3 DEF TokensInUse
<1>5. TokensAreUnique'
  BY <1>3 DEF SystemIInv, TokensAreUnique, Holds
<1>6. ASSUME HeartbeatFits, NEW p \in Process PROVE HealthyOwns(p)'
  <2>1. HealthyOwns(p)
    BY <1>6 DEF SystemIInv
  <2>2. CASE proc'[p] = Idle
    BY <2>2 DEF HealthyOwns, Idle
  <2>3. CASE proc'[p] = proc[p]
    <3> DEFINE t == proc[p].task
    <3> SUFFICES ASSUME proc[p].task # NoTask, proc[p].health = "ok"
                 PROVE  HealthyOwns(p)'
      BY <2>3 DEF HealthyOwns
    <3>1. t \in Task
      BY <1>1
    <3>2. claimed_by'[t] = IdOf[p] /\ ownership_version'[t] = proc[p].token
      BY <2>1, <3>1 DEF HealthyOwns, OwnerKept
    <3>3. ASSUME status'[t] \in Alive PROVE lease_left'[t] >= LeaseDuration - Unrenewed(proc[p])
      <4>1. status[t] \in Alive /\ lease_left'[t] \in {lease_left[t], LeaseDuration}
        BY <3>1, <3>3 DEF OwnerKept
      <4>2. lease_left[t] >= LeaseDuration - Unrenewed(proc[p])
        BY <2>1, <4>1 DEF HealthyOwns, Alive
      <4>3. LeaseDuration >= LeaseDuration - Unrenewed(proc[p])
        BY UnrenewedType, StoreConstants, WorkerConfiguration DEF SystemIInv
      <4> QED
        BY <4>1, <4>2, <4>3
    <3>4. proc[p].pc = "working" => BeatsInTime(proc[p])
      BY <2>1 DEF HealthyOwns
    <3> QED
      BY <2>3, <3>2, <3>3, <3>4 DEF HealthyOwns, Alive, BeatsInTime, Unrenewed, Waited
  <2>4. CASE GoesOn(p)
    <3> DEFINE t == proc[p].task
    <3> SUFFICES ASSUME proc'[p].health = "ok" PROVE HealthyOwns(p)'
      BY DEF HealthyOwns
    <3>1. /\ t \in Task /\ proc'[p].task = t /\ proc'[p].token = proc[p].token
          /\ t # NoTask /\ proc[p].health = "ok"
          /\ proc'[p].pc = "working" => BeatsInTime(proc'[p])
          /\ status'[t] \in Alive => lease_left'[t] >= LeaseDuration - Unrenewed(proc'[p])
      BY <1>1, <1>6, <2>1, <2>4 DEF GoesOn
    <3>2. claimed_by'[t] = IdOf[p] /\ ownership_version'[t] = proc'[p].token
      BY <2>1, <3>1 DEF HealthyOwns, OwnerKept
    <3> QED
      BY <3>1, <3>2 DEF HealthyOwns, Alive, BeatsInTime, Unrenewed, Waited
  <2> QED
    BY <2>2, <2>3, <2>4
<1> QED
  BY <1>4, <1>5, <1>6 DEF SystemIInv

-----------------------------------------------------------------------------
(* Claims: the new token is greater than all in use, and no healthy process
   loses its task to one. *)

LEMMA HealthyIsNotClaimable ==
  ASSUME SystemIInv, HeartbeatFits, NEW p \in Process, NEW t \in Task,
         proc[p].task = t, proc[p].health = "ok", Claimable(t, 0)
  PROVE  FALSE
<1>1. t # NoTask
  BY WorkerBounds
<1>2. status[t] \in Active /\ ExpiredAt(t, 0)
  BY <1>1 DEF Claimable, SystemIInv, TokensInUse, Active, Terminal
<1>3. lease_left[t] \in LongExpired..LeaseDuration
  BY <1>2, AliveHasLease DEF SystemIInv, Alive
<1>4. lease_left[t] < 0
  BY <1>2, <1>3 DEF ExpiredAt, LongExpired
<1>5. lease_left[t] >= LeaseDuration - Unrenewed(proc[p])
  BY <1>1, <1>2 DEF SystemIInv, HealthyOwns
<1>6. Unrenewed(proc[p]) \in 0..(2 * HeartbeatInterval)
  BY UnrenewedType DEF SystemIInv
<1> QED
  BY <1>3, <1>4, <1>5, <1>6, StoreConstants, WorkerConfiguration DEF HeartbeatFits, LongExpired

LEMMA ClaimsKeep ==
  ASSUME SystemIInv, IInv', SystemTypeOK', NEW p \in Process, NEW t \in Task,
         ClaimNext(IdOf[p], t, 0), Accepted(t, ownership_version'[t]),
         \A q \in Process : q # p => proc'[q] = proc[q],
         \/ proc'[p] = proc[p]
         \/ /\ proc'[p].pc = "starting" /\ proc'[p].task = t
            /\ proc'[p].token = ownership_version'[t],
         button' = button
  PROVE  SystemIInv'
<1>1. /\ Claimable(t, 0)
      /\ status'[t] = "claimed" /\ claimed_by'[t] = IdOf[p]
      /\ ownership_version'[t] = ownership_version[t] + 1 /\ lease_left'[t] = LeaseDuration
      /\ \A x \in Task : x # t =>
           /\ status'[x] = status[x] /\ claimed_by'[x] = claimed_by[x]
           /\ ownership_version'[x] = ownership_version[x] /\ lease_left'[x] = lease_left[x]
  BY StoreConstants DEF SystemIInv, IInv, TypeOK, ClaimNext, NextToken, NewLease
<1>2. /\ last_token'[t] = ownership_version'[t]
      /\ \A x \in Task : x # t => last_token'[x] = last_token[x]
      /\ \A x \in Task : ownership_version[x] \in Nat
  BY DEF SystemIInv, IInv, TypeOK, SystemTypeOK, Accepted, Version
<1>3. t # NoTask
  BY WorkerBounds
<1>4. \A q \in Process : /\ proc[q].task # NoTask => proc[q].task \in Task
                         /\ proc[q].token \in Nat
  BY DEF SystemIInv, SystemTypeOK, ProcessState, Version
<1>5. TokensInUse'
  <2>1. (button # NoButton => button.task # NoTask /\ button.worker # NoWorker)'
    BY DEF SystemIInv, TokensInUse
  <2>2. \A x \in Task : last_token'[x] <= ownership_version'[x]
    BY <1>1, <1>2 DEF SystemIInv, TokensInUse
  <2>3. ASSUME NEW q \in Process
        PROVE  /\ proc'[q].pc = "idle" <=> proc'[q].task = NoTask
               /\ proc'[q].pc = "idle" => proc'[q].health = "ok"
               /\ proc'[q].pc = "working" => proc'[q].beat_in > 0
               /\ proc'[q].task # NoTask =>
                    /\ status'[proc'[q].task] \in Active \cup Terminal
                    /\ proc'[q].token <= ownership_version'[proc'[q].task]
    <3>1. CASE proc'[q] = proc[q]
      <4>1. ASSUME proc[q].task # NoTask
            PROVE  /\ status'[proc[q].task] \in Active \cup Terminal
                   /\ proc[q].token <= ownership_version'[proc[q].task]
        BY <1>1, <1>2, <1>4, <4>1 DEF SystemIInv, TokensInUse, Active
      <4> QED
        BY <3>1, <4>1 DEF SystemIInv, TokensInUse
    <3>2. CASE proc'[q] # proc[q]
      BY <1>1, <1>2, <1>3, <3>2 DEF Active
    <3> QED
      BY <3>1, <3>2
  <2> QED
    BY <2>1, <2>2, <2>3 DEF TokensInUse
<1>6. TokensAreUnique'
  <2>1. \A q \in Process : ~Holds(q, t, ownership_version'[t])
    BY <1>1, <1>2, <1>3, <1>4 DEF SystemIInv, TokensInUse, Holds
  <2> QED
    BY <2>1 DEF SystemIInv, TokensAreUnique, Holds
<1>7. ASSUME HeartbeatFits, NEW q \in Process PROVE HealthyOwns(q)'
  <2>1. CASE proc'[q] = proc[q]
    <3>1. CASE proc[q].task # NoTask /\ proc[q].health = "ok"
      <4>1. proc[q].task # t
        BY <1>1, <1>7, <3>1, HealthyIsNotClaimable
      <4>2. /\ status'[proc[q].task] = status[proc[q].task]
            /\ claimed_by'[proc[q].task] = claimed_by[proc[q].task]
            /\ ownership_version'[proc[q].task] = ownership_version[proc[q].task]
            /\ lease_left'[proc[q].task] = lease_left[proc[q].task]
        BY <1>1, <1>4, <3>1, <4>1
      <4>3. HealthyOwns(q)
        BY <1>7 DEF SystemIInv
      <4> QED
        BY <2>1, <4>2, <4>3 DEF HealthyOwns, BeatsInTime, Unrenewed, Waited
    <3>2. CASE ~(proc[q].task # NoTask /\ proc[q].health = "ok")
      BY <2>1, <3>2 DEF HealthyOwns
    <3> QED
      BY <3>1, <3>2
  <2>2. CASE proc'[q] # proc[q]
    <3>1. q = p /\ proc'[q].pc = "starting" /\ proc'[q].task = t
          /\ proc'[q].token = ownership_version'[t]
      BY <2>2
    <3>2. Unrenewed(proc'[q]) = HeartbeatInterval
      BY <3>1 DEF Unrenewed
    <3>3. lease_left'[t] >= LeaseDuration - Unrenewed(proc'[q])
      BY <1>1, <3>2, StoreConstants, WorkerConfiguration
    <3> QED
      BY <1>1, <3>1, <3>3 DEF HealthyOwns, BeatsInTime, Unrenewed, Waited
  <2> QED
    BY <2>1, <2>2
<1> QED
  BY <1>5, <1>6, <1>7 DEF SystemIInv

-----------------------------------------------------------------------------
(* Type correctness *)

LEMMA IdleType == Idle \in ProcessState
BY StoreConstants, WorkerConfiguration, WorkerBounds DEF Idle, ProcessState, Version

LEMMA ElapsedType ==
  ASSUME NEW s \in ProcessState, s.pc = "working" => s.beat_in > 0
  PROVE  Elapsed(s) \in ProcessState
<1>1. CASE s.pc # "working"
  BY <1>1 DEF Elapsed
<1>2. CASE s.pc = "working"
  <2>1. s.done_in \in 0..StepDelay /\ s.beat_in \in 1..HeartbeatInterval /\ s.beat_due \in BOOLEAN
    BY <1>2, WorkerConfiguration DEF ProcessState
  <2>2. /\ (IF s.done_in = 0 THEN 0 ELSE s.done_in - 1) \in 0..StepDelay
        /\ (IF s.beat_in = 1 THEN HeartbeatInterval ELSE s.beat_in - 1) \in 0..HeartbeatInterval
        /\ (s.beat_due \/ s.beat_in = 1) \in BOOLEAN
    BY <2>1, WorkerConfiguration
  <2> QED
    BY <1>2, <2>2 DEF Elapsed, ProcessState
<1> QED
  BY <1>1, <1>2

LEMMA ElapsedKeeps ==
  ASSUME NEW s \in ProcessState
  PROVE  /\ Elapsed(s).pc = s.pc /\ Elapsed(s).task = s.task /\ Elapsed(s).token = s.token
         /\ Elapsed(s).health = s.health
         /\ s.pc # "working" => Elapsed(s) = s
         /\ s.pc = "working" /\ s.beat_in > 0 => Elapsed(s).beat_in > 0
<1>1. CASE s.pc # "working"
  BY <1>1 DEF Elapsed
<1>2. CASE s.pc = "working"
  <2>1. /\ Elapsed(s).pc = s.pc /\ Elapsed(s).task = s.task /\ Elapsed(s).token = s.token
        /\ Elapsed(s).health = s.health
        /\ Elapsed(s).beat_in = IF s.beat_in = 1 THEN HeartbeatInterval ELSE s.beat_in - 1
    BY <1>2 DEF Elapsed, ProcessState
  <2>2. s.beat_in \in 0..HeartbeatInterval
    BY DEF ProcessState
  <2>3. s.beat_in > 0 => Elapsed(s).beat_in > 0
    BY <2>1, <2>2, WorkerConfiguration
  <2> QED
    BY <1>2, <2>1, <2>3
<1> QED
  BY <1>1, <1>2

LEMMA StartWaitingType ==
  ASSUME SystemIInv, NEW p \in Process, proc[p].pc = "starting", StartWaiting(p)
  PROVE  proc' \in [Process -> ProcessState]
<1>1. CurrentPosition(proc[p].task) \in 0..MaxSteps
  BY CallersAreTyped, CurrentPositionType, StoreConstants DEF SystemIInv, IInv, Position
<1>2. StepDelay \in 0..StepDelay /\ FirstBeat \in 0..HeartbeatInterval
  BY WorkerConfiguration DEF FirstBeat
<1>3. ASSUME NEW s \in ProcessState, NEW c \in 0..MaxSteps
      PROVE  [s EXCEPT !.pc = "working", !.step = c, !.done_in = StepDelay,
                       !.beat_in = FirstBeat, !.beat_due = FALSE] \in ProcessState
  BY <1>2 DEF ProcessState
<1>4. proc \in [Process -> ProcessState]
  BY DEF SystemIInv, SystemTypeOK
<1> QED
  BY <1>1, <1>3, <1>4 DEF StartWaiting

LEMMA ExecuteTypes ==
  ASSUME SystemIInv, NEW p \in Process, Execute(p)
  PROVE  proc' \in [Process -> ProcessState] /\ last_token' \in [Task -> Version]
         /\ button' = button /\ faults' = faults
<1> DEFINE t == proc[p].task
           k == proc[p].token
<1>1. /\ proc \in [Process -> ProcessState] /\ last_token \in [Task -> Version]
      /\ k \in Version
  BY CallersAreTyped DEF SystemIInv, SystemTypeOK
<1>2. Forget(p) => proc' \in [Process -> ProcessState]
  BY <1>1, IdleType DEF Forget
<1>3. Accepted(t, k) => last_token' \in [Task -> Version]
  BY <1>1 DEF Accepted
<1>4. CASE StartOrLeave(p)
  BY <1>1, <1>2, <1>3, <1>4, StartWaitingType DEF StartOrLeave
<1>5. CASE Renew(p)
  <2>1. [proc EXCEPT ![p].beat_due = FALSE] \in [Process -> ProcessState]
    BY <1>1 DEF ProcessState
  <2> QED
    BY <1>1, <1>2, <1>3, <1>5, <2>1 DEF Renew
<1>6. CASE ReportDone(p)
  <2>1. [proc EXCEPT ![p].pc = "starting"] \in [Process -> ProcessState]
    BY <1>1 DEF ProcessState
  <2> QED
    BY <1>1, <1>2, <1>3, <1>6, <2>1 DEF ReportDone
<1> QED
  BY <1>4, <1>5, <1>6 DEF Execute

LEMMA FaultTypes ==
  ASSUME SystemIInv, NEW p \in Process,
         Crash(p) \/ Stall(p) \/ Resume(p) \/ CallAnswerLost(p)
  PROVE  proc' \in [Process -> ProcessState] /\ last_token' \in [Task -> Version]
         /\ button' = button /\ faults' \in 0..MaxFaults
<1>1. /\ proc \in [Process -> ProcessState] /\ last_token \in [Task -> Version]
      /\ proc[p].token \in Version /\ faults \in 0..MaxFaults /\ MaxFaults \in Nat
  BY CallersAreTyped, WorkerBounds DEF SystemIInv, SystemTypeOK
<1>2. Forget(p) => proc' \in [Process -> ProcessState]
  BY <1>1, IdleType DEF Forget
<1>3. Fault => faults' \in 0..MaxFaults
  BY <1>1 DEF Fault
<1>4. \A h \in {"stalled", "resumed"} : [proc EXCEPT ![p].health = h] \in [Process -> ProcessState]
  BY <1>1 DEF ProcessState
<1>5. Accepted(proc[p].task, proc[p].token) => last_token' \in [Task -> Version]
  BY <1>1 DEF Accepted
<1> QED
  BY <1>1, <1>2, <1>3, <1>4, <1>5 DEF Crash, Stall, Resume, CallAnswerLost

LEMMA ClaimTypes ==
  ASSUME SystemIInv, TypeOK', NEW p \in Process, Claim(p) \/ ClaimAnswerLost(p)
  PROVE  SystemTypeOK'
<1>1. /\ proc \in [Process -> ProcessState] /\ last_token \in [Task -> Version]
      /\ faults \in 0..MaxFaults /\ MaxFaults \in Nat
  BY WorkerBounds DEF SystemIInv, SystemTypeOK
<1>2. \A t \in Task : ownership_version'[t] \in Version
  BY DEF TypeOK
<1>3. last_token' \in [Task -> Version] /\ button' = button
  BY <1>1, <1>2 DEF Claim, ClaimAnswerLost, Accepted
<1>4. proc' \in [Process -> ProcessState]
  <2>1. \A t \in Task, k \in Version :
          [proc[p] EXCEPT !.pc = "starting", !.task = t, !.token = k] \in ProcessState
    BY <1>1 DEF ProcessState
  <2>2. CASE Claim(p)
    <3>1. PICK t \in Task : proc' = [proc EXCEPT ![p] =
            [@ EXCEPT !.pc = "starting", !.task = t, !.token = ownership_version'[t]]]
      BY <2>2 DEF Claim
    <3> QED
      BY <1>1, <1>2, <2>1, <3>1
  <2>3. CASE ClaimAnswerLost(p)
    BY <1>1, <2>3 DEF ClaimAnswerLost
  <2> QED
    BY <2>2, <2>3
<1>5. faults' \in 0..MaxFaults
  <2>1. CASE Claim(p)
    BY <1>1, <2>1 DEF Claim
  <2>2. CASE ClaimAnswerLost(p)
    BY <1>1, <2>2 DEF ClaimAnswerLost, Fault
  <2> QED
    BY <2>1, <2>2
<1> QED
  BY <1>3, <1>4, <1>5 DEF SystemIInv, SystemTypeOK, ProcessState, Version

-----------------------------------------------------------------------------
(* The actions of a process *)

LEMMA UnchangedKeepsOwner ==
  ASSUME UNCHANGED vars, NEW x \in Task
  PROVE  OwnerKept(x)
BY DEF vars, OwnerKept

LEMMA ForgetKeeps ==
  ASSUME SystemTypeOK, NEW p \in Process, Forget(p)
  PROVE  \A q \in Process : proc'[q] = proc[q] \/ proc'[q] = Idle
BY DEF SystemTypeOK, Forget

LEMMA AcceptedKeeps ==
  ASSUME SystemTypeOK, NEW t \in Task, Accepted(t, ownership_version[t]), NEW x \in Task
  PROVE  last_token'[x] \in {last_token[x], ownership_version[x]}
BY DEF SystemTypeOK, Accepted

LEMMA StartGoesOn ==
  ASSUME SystemIInv, NEW p \in Process, proc[p].pc = "starting",
         StartCurrentStep(IdOf[p], proc[p].task, proc[p].token, 0), StartWaiting(p)
  PROVE  GoesOn(p) /\ \A q \in Process : q # p => proc'[q] = proc[q]
<1> DEFINE t == proc[p].task
<1>1. t \in Task /\ t # NoTask
  BY CallersAreTyped, WorkerBounds
<1>2. OwnerKept(t) /\ lease_left' = lease_left
  BY <1>1, CallersAreTyped, StartKeepsOwner DEF SystemIInv
<1>3. /\ proc'[p].task = t /\ proc'[p].token = proc[p].token /\ proc'[p].pc = "working"
      /\ proc'[p].health = proc[p].health /\ proc'[p].done_in = StepDelay
      /\ proc'[p].beat_in = HeartbeatInterval /\ proc'[p].beat_due = FALSE
      /\ \A q \in Process : q # p => proc'[q] = proc[q]
  BY DEF SystemIInv, SystemTypeOK, ProcessState, StartWaiting, FirstBeat
<1>4. Waited(proc'[p]) = 0 /\ HeartbeatInterval > 0
  BY <1>3, WorkerConfiguration DEF Waited
<1>5. Unrenewed(proc'[p]) = HeartbeatInterval
  BY <1>3, <1>4, WorkerConfiguration DEF Unrenewed
<1>6. BeatsInTime(proc'[p])
  BY <1>3, <1>4, WorkerConfiguration DEF BeatsInTime
<1>7. ASSUME HealthyOwns(p), proc[p].health = "ok", status'[t] \in Alive
      PROVE  lease_left'[t] >= LeaseDuration - HeartbeatInterval
  <2>1. Unrenewed(proc[p]) = HeartbeatInterval
    BY DEF Unrenewed
  <2> QED
    BY <1>1, <1>2, <1>7, <2>1 DEF HealthyOwns, OwnerKept, Alive
<1> QED
  BY <1>1, <1>3, <1>4, <1>5, <1>6, <1>7 DEF GoesOn

LEMMA RenewGoesOn ==
  ASSUME SystemIInv, NEW p \in Process, proc[p].pc = "working", proc[p].beat_due,
         RenewLease(IdOf[p], proc[p].task, proc[p].token, 0),
         proc' = [proc EXCEPT ![p].beat_due = FALSE]
  PROVE  GoesOn(p) /\ \A q \in Process : q # p => proc'[q] = proc[q]
<1> DEFINE t == proc[p].task
<1>1. t \in Task /\ t # NoTask
  BY CallersAreTyped, WorkerBounds
<1>2. lease_left'[t] = LeaseDuration
  BY <1>1, CallersAreTyped, RenewKeepsOwner DEF SystemIInv
<1>3. /\ proc'[p].task = t /\ proc'[p].token = proc[p].token /\ proc'[p].pc = "working"
      /\ proc'[p].health = proc[p].health /\ proc'[p].done_in = proc[p].done_in
      /\ proc'[p].beat_in = proc[p].beat_in /\ proc'[p].beat_due = FALSE
      /\ proc[p].beat_in > 0
      /\ \A q \in Process : q # p => proc'[q] = proc[q]
  BY DEF SystemIInv, SystemTypeOK, ProcessState, TokensInUse
<1>4. ASSUME HealthyOwns(p), proc[p].health = "ok"
      PROVE  BeatsInTime(proc'[p]) /\ Unrenewed(proc'[p]) = 0
  <2>1. /\ BeatsInTime(proc[p]) /\ proc[p].beat_due = TRUE
        /\ Waited(proc[p]) \in Int /\ Waited(proc'[p]) = Waited(proc[p])
        /\ HeartbeatInterval \in Nat
    BY <1>1, <1>3, <1>4, WorkerConfiguration
    DEF HealthyOwns, Waited, SystemIInv, SystemTypeOK, ProcessState
  <2>2. ~(Waited(proc[p]) < HeartbeatInterval) /\ proc[p].beat_in = HeartbeatInterval
    BY <2>1 DEF BeatsInTime
  <2>3. BeatsInTime(proc'[p])
    BY <1>3, <2>1, <2>2 DEF BeatsInTime
  <2>4. Unrenewed(proc'[p]) = 0
    BY <1>3, <2>1, <2>2 DEF Unrenewed
  <2> QED
    BY <2>3, <2>4
<1> QED
  BY <1>1, <1>2, <1>3, <1>4, StoreConstants DEF GoesOn

LEMMA ReportGoesOn ==
  ASSUME SystemIInv, NEW p \in Process, proc[p].pc = "working", proc[p].done_in = 0,
         CompleteStep(IdOf[p], proc[p].task, proc[p].token, proc[p].step, TRUE, 0),
         proc' = [proc EXCEPT ![p].pc = "starting"]
  PROVE  GoesOn(p) /\ \A q \in Process : q # p => proc'[q] = proc[q]
<1> DEFINE t == proc[p].task
<1>1. t \in Task /\ t # NoTask
  BY CallersAreTyped, WorkerBounds
<1>2. OwnerKept(t) /\ (status'[t] \in Alive => lease_left'[t] = lease_left[t])
  BY <1>1, CallersAreTyped, ReportIsNext, ReportKeepsOwner DEF SystemIInv
<1>3. /\ proc'[p].task = t /\ proc'[p].token = proc[p].token /\ proc'[p].pc = "starting"
      /\ proc'[p].health = proc[p].health
      /\ \A q \in Process : q # p => proc'[q] = proc[q]
  BY DEF SystemIInv, SystemTypeOK, ProcessState
<1>4. Unrenewed(proc'[p]) = HeartbeatInterval
  BY <1>3 DEF Unrenewed
<1>5. ASSUME HeartbeatFits, HealthyOwns(p), proc[p].health = "ok", status'[t] \in Alive
      PROVE  lease_left'[t] >= LeaseDuration - HeartbeatInterval
  <2>1. /\ Waited(proc[p]) > HeartbeatInterval /\ proc[p].beat_in \in 0..HeartbeatInterval
        /\ proc[p].beat_due \in BOOLEAN /\ HeartbeatInterval \in Nat /\ Waited(proc[p]) \in Int
    BY <1>5, WorkerConfiguration
    DEF HeartbeatFits, Waited, SystemIInv, SystemTypeOK, ProcessState
  <2>2. Unrenewed(proc[p]) \in 0..HeartbeatInterval
    <3>1. CASE proc[p].beat_due
      BY <2>1, <3>1 DEF Unrenewed
    <3>2. CASE ~proc[p].beat_due
      BY <2>1, <3>2 DEF Unrenewed
    <3> QED
      BY <3>1, <3>2
  <2>3. status[t] \in Alive /\ lease_left[t] >= LeaseDuration - Unrenewed(proc[p])
    BY <1>1, <1>2, <1>5 DEF HealthyOwns, OwnerKept, Alive
  <2>4. lease_left[t] \in Int
    BY <1>1, <2>3, AliveHasLease, StoreConstants DEF SystemIInv, LongExpired
  <2> QED
    BY <1>2, <1>5, <2>1, <2>2, <2>3, <2>4, StoreConstants
<1> QED
  BY <1>1, <1>3, <1>4, <1>5 DEF GoesOn

LEMMA ExecuteKeeps ==
  ASSUME SystemIInv, IInv', SystemTypeOK', NEW p \in Process, Execute(p)
  PROVE  SystemIInv'
<1> DEFINE t == proc[p].task
           k == proc[p].token
<1>1. proc[p].pc # "idle" /\ button' = button
  BY DEF Execute, StartOrLeave, Renew, ReportDone
<1>2. IdOf[p] \in Worker /\ t \in Task /\ k \in Version /\ IInv /\ SystemTypeOK
  BY <1>1, CallersAreTyped DEF SystemIInv
<1>3. ASSUME Forget(p), UNCHANGED <<vars, last_token>> PROVE SystemIInv'
  BY <1>1, <1>2, <1>3, ForgetKeeps, UnchangedKeepsOwner, CallsKeep
<1>4. ASSUME Accepted(t, k), k = ownership_version[t], \A x \in Task : OwnerKept(x),
             GoesOn(p) \/ proc'[p] = Idle, \A q \in Process : q # p => proc'[q] = proc[q]
      PROVE  SystemIInv'
  BY <1>1, <1>2, <1>4, AcceptedKeeps, CallsKeep
<1>5. CASE StartOrLeave(p)
  <2>1. ASSUME StartCurrentStep(IdOf[p], t, k, 0), StartWaiting(p), Accepted(t, k)
        PROVE  SystemIInv'
    <3>1. proc[p].pc = "starting"
      BY <1>5 DEF StartOrLeave
    <3>2. k = ownership_version[t] /\ \A x \in Task : OwnerKept(x)
      BY <1>2, <2>1, StartKeepsOwner
    <3> QED
      BY <1>4, <2>1, <3>1, <3>2, StartGoesOn
  <2> QED
    BY <1>3, <1>5, <2>1 DEF StartOrLeave
<1>6. CASE Renew(p)
  <2>1. ASSUME RenewLease(IdOf[p], t, k, 0), proc' = [proc EXCEPT ![p].beat_due = FALSE],
               Accepted(t, k)
        PROVE  SystemIInv'
    <3>1. proc[p].pc = "working" /\ proc[p].beat_due
      BY <1>6 DEF Renew
    <3>2. k = ownership_version[t] /\ \A x \in Task : OwnerKept(x)
      BY <1>2, <2>1, RenewKeepsOwner
    <3> QED
      BY <1>4, <2>1, <3>1, <3>2, RenewGoesOn
  <2> QED
    BY <1>3, <1>6, <2>1 DEF Renew
<1>7. CASE ReportDone(p)
  <2>1. ASSUME CompleteStep(IdOf[p], t, k, proc[p].step, TRUE, 0), Accepted(t, k),
               Forget(p) \/ proc' = [proc EXCEPT ![p].pc = "starting"]
        PROVE  SystemIInv'
    <3>1. proc[p].pc = "working" /\ proc[p].done_in = 0
      BY <1>7 DEF ReportDone
    <3>2. k = ownership_version[t] /\ \A x \in Task : OwnerKept(x)
      BY <1>2, <2>1, ReportIsNext, ReportKeepsOwner
    <3>3. CASE Forget(p)
      <4>1. proc'[p] = Idle /\ \A q \in Process : q # p => proc'[q] = proc[q]
        BY <1>2, <3>3 DEF SystemTypeOK, Forget
      <4> QED
        BY <1>4, <2>1, <3>2, <4>1
    <3>4. CASE proc' = [proc EXCEPT ![p].pc = "starting"]
      BY <1>4, <2>1, <3>1, <3>2, <3>4, ReportGoesOn
    <3> QED
      BY <2>1, <3>3, <3>4
  <2> QED
    BY <1>3, <1>7, <2>1 DEF ReportDone
<1> QED
  BY <1>5, <1>6, <1>7 DEF Execute

LEMMA FaultsKeep ==
  ASSUME SystemIInv, IInv', SystemTypeOK', NEW p \in Process,
         Crash(p) \/ Stall(p) \/ Resume(p) \/ CallAnswerLost(p)
  PROVE  SystemIInv'
<1>1. IInv /\ SystemTypeOK /\ button' = button
  BY DEF SystemIInv, Crash, Stall, Resume, CallAnswerLost
<1>2. CASE Crash(p)
  BY <1>1, <1>2, ForgetKeeps, UnchangedKeepsOwner, CallsKeep DEF Crash
<1>3. ASSUME UNCHANGED <<vars, last_token>>, proc[p].pc # "idle", NEW h \in {"stalled", "resumed"},
             proc' = [proc EXCEPT ![p].health = h]
      PROVE  SystemIInv'
  <2>1. GoesOn(p) /\ \A q \in Process : q # p => proc'[q] = proc[q]
    BY <1>1, <1>3 DEF SystemIInv, SystemTypeOK, ProcessState, TokensInUse, GoesOn
  <2> QED
    BY <1>1, <1>3, <2>1, UnchangedKeepsOwner, CallsKeep
<1>4. CASE Stall(p)
  BY <1>3, <1>4 DEF Stall
<1>5. CASE Resume(p)
  BY <1>3, <1>5 DEF Resume, SystemIInv, TokensInUse
<1>6. CASE CallAnswerLost(p)
  <2> DEFINE t == proc[p].task
             k == proc[p].token
  <2>1. IdOf[p] \in Worker /\ t \in Task /\ k \in Version
    BY <1>6, CallersAreTyped DEF CallAnswerLost
  <2>2. k = ownership_version[t] /\ \A x \in Task : OwnerKept(x)
    <3>1. CASE StartCurrentStep(IdOf[p], t, k, 0)
      BY <1>1, <2>1, <3>1, StartKeepsOwner
    <3>2. CASE RenewLease(IdOf[p], t, k, 0)
      BY <1>1, <2>1, <3>2, RenewKeepsOwner
    <3>3. CASE CompleteStep(IdOf[p], t, k, proc[p].step, TRUE, 0)
      BY <1>1, <2>1, <3>3, ReportIsNext, ReportKeepsOwner
    <3> QED
      BY <1>6, <3>1, <3>2, <3>3 DEF CallAnswerLost
  <2>3. Forget(p) /\ Accepted(t, k)
    BY <1>6 DEF CallAnswerLost
  <2> QED
    BY <1>1, <2>1, <2>2, <2>3, ForgetKeeps, AcceptedKeeps, CallsKeep
<1> QED
  BY <1>2, <1>4, <1>5, <1>6

-----------------------------------------------------------------------------
(* The user *)

LEMMA UserKeeps ==
  ASSUME SystemIInv, IInv', TypeOK',
         \/ \E t \in Task : Cancel(t) \/ ShowButton(t) \/ \E n \in Position : Submit(t, n)
         \/ \E ok \in BOOLEAN : PressButton(ok)
  PROVE  SystemIInv'
<1>1. IInv /\ SystemTypeOK
  BY DEF SystemIInv
<1>2. ASSUME UNCHANGED local, \A x \in Task : OwnerKept(x) PROVE SystemIInv'
  <2>1. SystemTypeOK'
    BY <1>1, <1>2 DEF local, SystemTypeOK, ProcessState, Version
  <2> QED
    BY <1>2, <2>1, CallsKeep DEF local
<1>3. ASSUME NEW t \in Task, Cancel(t) PROVE SystemIInv'
  BY <1>1, <1>2, <1>3, CancelKeepsOwner DEF Cancel
<1>4. ASSUME NEW t \in Task, NEW n \in Position, Submit(t, n) PROVE SystemIInv'
  BY <1>1, <1>2, <1>4, CreateKeepsOwner DEF Submit
<1>5. ASSUME NEW t \in Task, ShowButton(t) PROVE SystemIInv'
  <2>1. /\ button' = [task |-> t, worker |-> claimed_by[t], token |-> ownership_version[t],
                      step |-> CurrentPosition(t)]
        /\ UNCHANGED <<vars, proc, faults, last_token>> /\ status[t] = "running"
    BY <1>5 DEF ShowButton
  <2>2. claimed_by[t] \in Worker /\ ownership_version[t] \in Version
    BY <1>1, <2>1 DEF IInv, TypeOK, WellFormed, Active
  <2>3. CurrentPosition(t) \in 0..MaxSteps
    BY <1>1, CurrentPositionType, StoreConstants DEF IInv, Position
  <2>4. SystemTypeOK'
    BY <1>1, <2>1, <2>2, <2>3 DEF SystemTypeOK, ProcessState, Version
  <2>5. button'.task # NoTask /\ button'.worker # NoWorker
    BY <2>1, <2>2, StoreConstants, WorkerBounds
  <2> QED
    BY <2>1, <2>4, <2>5, UnchangedKeepsOwner, CallsKeep
<1>6. ASSUME NEW ok \in BOOLEAN, PressButton(ok) PROVE SystemIInv'
  <2>1. /\ button.worker \in Worker /\ button.task \in Task /\ button.token \in Version
        /\ CompleteStep(button.worker, button.task, button.token, button.step, ok, 0)
        /\ Accepted(button.task, button.token) /\ UNCHANGED <<proc, button, faults>>
    BY <1>6, CallersAreTyped DEF PressButton
  <2>2. button.token = ownership_version[button.task] /\ \A x \in Task : OwnerKept(x)
    BY <1>1, <2>1, ReportIsNext, ReportKeepsOwner
  <2>3. SystemTypeOK'
    BY <1>1, <2>1 DEF SystemTypeOK, ProcessState, Version, Accepted
  <2> QED
    BY <1>1, <2>1, <2>2, <2>3, AcceptedKeeps, CallsKeep
<1> QED
  BY <1>3, <1>4, <1>5, <1>6

-----------------------------------------------------------------------------
(* Time *)

(* While a healthy process waits, each tick adds one to the time it has not
   renewed its lease, whether its heartbeat comes due or not. *)
LEMMA ElapsedInTime ==
  ASSUME NEW s \in ProcessState, s.pc = "working", s.beat_in > 0, ~s.beat_due, s.done_in # 0,
         BeatsInTime(s)
  PROVE  BeatsInTime(Elapsed(s)) /\ Unrenewed(Elapsed(s)) = Unrenewed(s) + 1
<1> DEFINE e == Elapsed(s)
           H == HeartbeatInterval
<1>1. /\ s.done_in \in 1..StepDelay /\ s.beat_in \in 1..H /\ H \in Nat \ {0}
      /\ s.beat_due = FALSE /\ StepDelay \in Nat
  BY WorkerConfiguration DEF ProcessState
<1>2. /\ e.pc = "working" /\ e.done_in = s.done_in - 1
      /\ e.beat_in = IF s.beat_in = 1 THEN H ELSE s.beat_in - 1
      /\ e.beat_due = (s.beat_in = 1)
  BY <1>1 DEF Elapsed, ProcessState
<1>3. Waited(s) \in Nat /\ Waited(e) = Waited(s) + 1
  BY <1>1, <1>2 DEF Waited
<1> HIDE DEF e
<1>4. CASE Waited(s) < H
  <2>1. s.beat_in = H - Waited(s) /\ Unrenewed(s) = H + Waited(s)
    <3>1. s.beat_in = H - Waited(s)
      BY <1>4 DEF BeatsInTime
    <3>2. Unrenewed(s) = H + Waited(s)
      BY <1>1, <1>3, <1>4 DEF Unrenewed
    <3> QED
      BY <3>1, <3>2
  <2>2. CASE Waited(e) < H
    <3>4. s.beat_in # 1
      BY <1>1, <1>3, <2>1, <2>2
    <3>1. e.beat_due = FALSE /\ e.beat_in = H - Waited(e)
      <4>1. e.beat_due = FALSE /\ e.beat_in = s.beat_in - 1
        BY <1>2, <3>4
      <4> QED
        BY <1>1, <1>3, <2>1, <4>1
    <3>2. BeatsInTime(e)
      BY <1>1, <1>3, <2>2, <3>1 DEF BeatsInTime
    <3>3. Unrenewed(e) = H + Waited(e)
      BY <1>1, <1>2, <1>3, <2>2 DEF Unrenewed
    <3> QED
      BY <1>1, <1>3, <2>1, <3>2, <3>3 DEF e
  <2>3. CASE ~(Waited(e) < H)
    <3>1. Waited(e) = H /\ s.beat_in = 1
      BY <1>1, <1>3, <1>4, <2>1, <2>3
    <3>4. e.beat_due = TRUE /\ e.beat_in = H
      BY <1>2, <3>1
    <3>2. BeatsInTime(e)
      BY <1>1, <3>1, <3>4 DEF BeatsInTime
    <3>3. Unrenewed(e) = 2 * H
      BY <1>1, <1>2, <3>1, <3>4 DEF Unrenewed
    <3> QED
      BY <1>1, <1>3, <2>1, <3>1, <3>2, <3>3 DEF e
  <2> QED
    BY <2>2, <2>3
<1>5. CASE ~(Waited(s) < H)
  <2>1. Unrenewed(s) = H - s.beat_in /\ Waited(e) > H
    BY <1>1, <1>3, <1>5 DEF Unrenewed
  <2>2. CASE s.beat_in = 1
    <3>1. e.beat_due = TRUE /\ e.beat_in = H
      BY <1>2, <2>2
    <3>2. BeatsInTime(e)
      BY <1>1, <1>3, <2>1, <3>1 DEF BeatsInTime
    <3>3. Unrenewed(e) = H
      BY <1>1, <1>2, <1>3, <2>1, <3>1 DEF Unrenewed
    <3> QED
      BY <1>1, <2>1, <2>2, <3>2, <3>3 DEF e
  <2>3. CASE s.beat_in # 1
    <3>1. e.beat_due = FALSE /\ e.beat_in = s.beat_in - 1
      BY <1>2, <2>3
    <3>2. BeatsInTime(e)
      BY <1>1, <1>3, <2>1, <3>1 DEF BeatsInTime
    <3>3. Unrenewed(e) = H - e.beat_in
      BY <1>1, <1>2, <1>3, <2>1, <3>1 DEF Unrenewed
    <3> QED
      BY <1>1, <2>1, <3>1, <3>2, <3>3 DEF e
  <2> QED
    BY <2>2, <2>3
<1> QED
  BY <1>4, <1>5 DEF e

LEMMA TickTakesOne ==
  ASSUME IInv, Tick, NEW t \in Task, status[t] \in Alive
  PROVE  lease_left[t] \in Int /\ lease_left'[t] \in {lease_left[t], lease_left[t] - 1}
BY AliveHasLease, StoreConstants DEF Tick, LongExpired

LEMMA PassTimeKeeps ==
  ASSUME SystemIInv, IInv', TypeOK', PassTime
  PROVE  SystemIInv'
<1>1. /\ IInv /\ SystemTypeOK /\ TokensInUse /\ Tick
      /\ UNCHANGED <<status, claimed_by, ownership_version, button, faults, last_token>>
      /\ \A p \in Process : proc[p] \in ProcessState /\ ~Urgent(p)
      /\ proc' = [p \in Process |-> Elapsed(proc[p])]
  BY DEF SystemIInv, SystemTypeOK, PassTime, Tick
<1>2. \A p \in Process : Elapsed(proc[p]) \in ProcessState
  BY <1>1, ElapsedType DEF TokensInUse
<1>3. SystemTypeOK'
  BY <1>1, <1>2 DEF SystemTypeOK, ProcessState, Version
<1>4. ASSUME NEW p \in Process
      PROVE  /\ proc'[p].pc = proc[p].pc /\ proc'[p].task = proc[p].task
             /\ proc'[p].token = proc[p].token /\ proc'[p].health = proc[p].health
             /\ proc[p].pc # "working" => proc'[p] = proc[p]
             /\ proc'[p].pc = "working" => proc'[p].beat_in > 0
  <2>1. proc'[p] = Elapsed(proc[p]) /\ proc[p] \in ProcessState
    BY <1>1
  <2>2. proc[p].pc = "working" => proc[p].beat_in > 0
    BY <1>1 DEF TokensInUse
  <2> QED
    BY <2>1, <2>2, ElapsedKeeps
<1>5. TokensInUse'
  BY <1>1, <1>4 DEF TokensInUse
<1>6. TokensAreUnique'
  BY <1>4 DEF SystemIInv, TokensAreUnique, Holds
<1>7. ASSUME HeartbeatFits, NEW p \in Process PROVE HealthyOwns(p)'
  <2> DEFINE t == proc[p].task
  <2> SUFFICES ASSUME t # NoTask, proc[p].health = "ok" PROVE HealthyOwns(p)'
    BY <1>4 DEF HealthyOwns
  <2>1. t \in Task /\ HealthyOwns(p) /\ proc[p].pc = "working"
    BY <1>1, <1>7 DEF SystemIInv, ProcessState, TokensInUse, Urgent
  <2>2. ~proc[p].beat_due /\ proc[p].done_in # 0 /\ BeatsInTime(proc[p]) /\ proc[p].beat_in > 0
    BY <1>1, <2>1 DEF Urgent, HealthyOwns, TokensInUse
  <2>3. BeatsInTime(proc'[p]) /\ Unrenewed(proc'[p]) = Unrenewed(proc[p]) + 1
    BY <1>1, <2>1, <2>2, ElapsedInTime
  <2>4. claimed_by'[t] = IdOf[p] /\ ownership_version'[t] = proc'[p].token
    BY <1>1, <1>4, <2>1 DEF HealthyOwns
  <2>5. ASSUME status'[t] \in Alive
        PROVE  lease_left'[t] >= LeaseDuration - Unrenewed(proc'[p])
    <3>1. lease_left[t] >= LeaseDuration - Unrenewed(proc[p])
      BY <1>1, <2>1, <2>5 DEF HealthyOwns, Alive
    <3>2. lease_left[t] \in Int /\ lease_left'[t] \in {lease_left[t], lease_left[t] - 1}
      BY <1>1, <2>1, <2>5, TickTakesOne
    <3>3. Unrenewed(proc[p]) \in Int
      BY <1>1, UnrenewedType, WorkerConfiguration
    <3> QED
      BY <2>3, <3>1, <3>2, <3>3, StoreConstants
  <2> QED
    BY <1>4, <2>3, <2>4, <2>5 DEF HealthyOwns, Alive, BeatsInTime, Unrenewed, Waited
<1> QED
  BY <1>1, <1>3, <1>5, <1>6, <1>7 DEF SystemIInv

-----------------------------------------------------------------------------
(* The inductive invariant *)

LEMMA SystemIInvInit == SystemInit => SystemIInv
<1> SUFFICES ASSUME SystemInit PROVE SystemIInv
  OBVIOUS
<1>1. IInv /\ proc = [p \in Process |-> Idle]
  BY IInvInit DEF SystemInit
<1>2. SystemTypeOK
  BY <1>1, IdleType, StoreConstants, WorkerBounds
  DEF SystemInit, SystemTypeOK, IInv, NoButton, Version
<1>3. \A p \in Process : proc[p].task = NoTask /\ proc[p].pc = "idle" /\ proc[p].health = "ok"
  BY <1>1 DEF Idle
<1>4. TokensInUse /\ TokensAreUnique
  BY <1>3 DEF SystemInit, Init, TokensInUse, TokensAreUnique, NoButton
<1> QED
  BY <1>1, <1>2, <1>3, <1>4 DEF SystemIInv, HealthyOwns

LEMMA SystemIInvNext == SystemIInv /\ [SystemNext]_systemVars => SystemIInv'
<1> SUFFICES ASSUME SystemIInv, [SystemNext]_systemVars PROVE SystemIInv'
  OBVIOUS
<1>1. IInv' /\ TypeOK'
  BY SystemStoreNext, IInvNext DEF SystemIInv, IInv
<1>2. button \in [task : Task \cup {NoTask}, worker : Worker \cup {NoWorker}, token : Version,
                  step : 0..MaxSteps] /\ faults \in 0..MaxFaults
  BY DEF SystemIInv, SystemTypeOK
<1>3. ASSUME NEW p \in Process, Claim(p) \/ ClaimAnswerLost(p) PROVE SystemIInv'
  <2>1. SystemTypeOK'
    BY <1>1, <1>3, ClaimTypes
  <2>2. CASE Claim(p)
    <3>1. PICK t \in Task : /\ ClaimNext(IdOf[p], t, 0) /\ Accepted(t, ownership_version'[t])
                           /\ proc' = [proc EXCEPT ![p] = [@ EXCEPT !.pc = "starting", !.task = t,
                                         !.token = ownership_version'[t]]]
      BY <2>2 DEF Claim
    <3>2. /\ proc'[p].pc = "starting" /\ proc'[p].task = t
          /\ proc'[p].token = ownership_version'[t]
          /\ \A q \in Process : q # p => proc'[q] = proc[q]
      BY <3>1 DEF SystemIInv, SystemTypeOK, ProcessState
    <3> QED
      BY <1>1, <2>1, <2>2, <3>1, <3>2, ClaimsKeep DEF Claim
  <2>3. CASE ClaimAnswerLost(p)
    BY <1>1, <2>1, <2>3, ClaimsKeep DEF ClaimAnswerLost
  <2> QED
    BY <1>3, <2>2, <2>3
<1>4. ASSUME NEW p \in Process, Execute(p) PROVE SystemIInv'
  <2>1. SystemTypeOK'
    BY <1>1, <1>2, <1>4, ExecuteTypes DEF SystemTypeOK, ProcessState, Version
  <2> QED
    BY <1>1, <1>4, <2>1, ExecuteKeeps
<1>5. ASSUME NEW p \in Process, Crash(p) \/ Stall(p) \/ Resume(p) \/ CallAnswerLost(p)
      PROVE  SystemIInv'
  <2>1. SystemTypeOK'
    BY <1>1, <1>2, <1>5, FaultTypes DEF SystemTypeOK, ProcessState, Version
  <2> QED
    BY <1>1, <1>5, <2>1, FaultsKeep
<1>6. CASE PassTime
  BY <1>1, <1>6, PassTimeKeeps
<1>7. CASE UNCHANGED systemVars
  <2>1. UNCHANGED local /\ UNCHANGED vars
    BY <1>7 DEF systemVars
  <2>2. SystemTypeOK'
    BY <1>1, <2>1 DEF local, SystemIInv, SystemTypeOK, ProcessState, Version
  <2> QED
    BY <1>1, <2>1, <2>2, UnchangedKeepsOwner, CallsKeep DEF local
<1> QED
  BY <1>1, <1>3, <1>4, <1>5, <1>6, <1>7, UserKeeps DEF SystemNext

-----------------------------------------------------------------------------
(* The system's theorems *)

(* Whatever the worker processes and the users do, stall, crash and lose, the
   table changes as TaskStore says: its theorems hold of the whole system. *)
THEOREM SystemImplementsStore == SystemSpec => Spec
<1>1. SystemInit => Init
  BY DEF SystemInit
<1> QED
  BY <1>1, SystemIInvInit, SystemIInvNext, SystemStoreNext, PTL DEF SystemSpec, Spec

(* The types, the tokens in use and, when a configuration lets heartbeats come
   in time, the leases of the healthy processes. *)
THEOREM SystemWellFormedAlways == SystemSpec => []SystemIInv
BY SystemIInvInit, SystemIInvNext, PTL DEF SystemSpec

(* Two processes never hold the same task with the same token, those that share
   a worker id and those whose claims were lost included (ClaimNext takes
   ownership_version + 1 and nothing ever lowers it). *)
THEOREM TokensAreUniqueAlways == SystemSpec => []TokensAreUnique
<1>1. SystemIInv => TokensAreUnique
  BY DEF SystemIInv
<1> QED
  BY <1>1, SystemWellFormedAlways, PTL

LEMMA AcceptedInOrder ==
  ASSUME SystemIInv, [SystemNext]_systemVars, NEW x \in Task
  PROVE  last_token'[x] >= last_token[x]
<1>1. /\ last_token \in [Task -> Version] /\ IInv /\ MaxVersion \in Nat
      /\ \A t \in Task : ownership_version[t] \in Nat /\ last_token[t] \in Nat
                       /\ last_token[t] <= ownership_version[t]
  BY StoreConstants DEF SystemIInv, SystemTypeOK, IInv, TypeOK, TokensInUse, Version
<1>2. ASSUME NEW t \in Task, NEW k \in Nat, k >= ownership_version[t], Accepted(t, k)
      PROVE  last_token'[x] >= last_token[x]
  BY <1>1, <1>2 DEF Accepted
<1>3. ASSUME last_token' = last_token PROVE last_token'[x] >= last_token[x]
  BY <1>1, <1>3
<1>4. ASSUME NEW w \in Worker, NEW t \in Task, NEW k \in Version, NEW s, NEW ok \in BOOLEAN,
             Accepted(t, k),
             \/ StartCurrentStep(w, t, k, 0) \/ RenewLease(w, t, k, 0)
             \/ CompleteStep(w, t, k, s, ok, 0)
      PROVE  last_token'[x] >= last_token[x]
  <2>1. k = ownership_version[t]
    BY <1>1, <1>4, StartKeepsOwner DEF RenewLease, CanRenew, CompleteStep, CanReport, Owns
  <2> QED
    BY <1>1, <1>2, <1>4, <2>1
<1>5. ASSUME NEW p \in Process, Claim(p) \/ ClaimAnswerLost(p)
      PROVE  last_token'[x] >= last_token[x]
  <2>1. PICK t \in Task : ClaimNext(IdOf[p], t, 0) /\ Accepted(t, ownership_version'[t])
    BY <1>5 DEF Claim, ClaimAnswerLost
  <2>2. ownership_version'[t] = ownership_version[t] + 1
    BY <1>1, <2>1 DEF IInv, TypeOK, ClaimNext, NextToken
  <2> QED
    BY <1>1, <1>2, <2>1, <2>2
<1>6. ASSUME NEW p \in Process, Execute(p) \/ CallAnswerLost(p)
      PROVE  last_token'[x] >= last_token[x]
  <2>1. proc[p].pc # "idle"
    BY <1>6 DEF Execute, StartOrLeave, Renew, ReportDone, CallAnswerLost
  <2>2. IdOf[p] \in Worker /\ proc[p].task \in Task /\ proc[p].token \in Version
    BY <2>1, CallersAreTyped
  <2>3. CASE StartOrLeave(p)
    BY <1>3, <1>4, <2>2, <2>3 DEF StartOrLeave
  <2>4. CASE Renew(p)
    BY <1>3, <1>4, <2>2, <2>4 DEF Renew
  <2>5. CASE ReportDone(p)
    BY <1>3, <1>4, <2>2, <2>5 DEF ReportDone
  <2>6. CASE CallAnswerLost(p)
    BY <1>3, <1>4, <2>2, <2>6 DEF CallAnswerLost
  <2> QED
    BY <1>6, <2>3, <2>4, <2>5, <2>6 DEF Execute
<1>7. ASSUME NEW ok \in BOOLEAN, PressButton(ok) PROVE last_token'[x] >= last_token[x]
  BY <1>4, <1>7, CallersAreTyped DEF PressButton
<1>8. ASSUME \/ \E p \in Process : Crash(p) \/ Stall(p) \/ Resume(p)
             \/ \E t \in Task : Cancel(t) \/ ShowButton(t) \/ \E n \in Position : Submit(t, n)
             \/ PassTime \/ UNCHANGED systemVars
      PROVE  last_token'[x] >= last_token[x]
  BY <1>3, <1>8
  DEF Crash, Stall, Resume, Cancel, ShowButton, Submit, PassTime, local, systemVars
<1> QED
  BY <1>5, <1>6, <1>7, <1>8 DEF SystemNext

(* Once a later owner's call was accepted, no call of an earlier owner is. *)
THEOREM OldTokensAreRefusedAlways == SystemSpec => OldTokensAreRefused
<1>1. SystemIInv /\ [SystemNext]_systemVars =>
        [\A t \in Task : last_token'[t] >= last_token[t]]_systemVars
  BY AcceptedInOrder
<1> QED
  BY <1>1, SystemWellFormedAlways, PTL DEF SystemSpec, OldTokensAreRefused

(* Where heartbeats come in time, a process that was never stalled since its
   claim owns its task and has time left on its lease until the task ends. *)
THEOREM HealthyKeepsLeaseAlways ==
  ASSUME HeartbeatFits
  PROVE  SystemSpec => []HealthyKeepsLease
<1>1. SystemIInv => HealthyKeepsLease
  <2> SUFFICES ASSUME SystemIInv, NEW p \in Process, proc[p].task # NoTask,
                      proc[p].health = "ok", status[proc[p].task] \in Active
               PROVE  LET t == proc[p].task IN
                      /\ claimed_by[t] = IdOf[p] /\ ownership_version[t] = proc[p].token
                      /\ lease_left[t] > 0
    BY DEF HealthyKeepsLease
  <2> DEFINE t == proc[p].task
  <2>1. HealthyOwns(p) /\ t \in Task /\ IInv
    BY DEF SystemIInv, SystemTypeOK, ProcessState
  <2>2. claimed_by[t] = IdOf[p] /\ ownership_version[t] = proc[p].token
        /\ lease_left[t] >= LeaseDuration - Unrenewed(proc[p])
    BY <2>1 DEF HealthyOwns
  <2>3. Unrenewed(proc[p]) \in 0..(2 * HeartbeatInterval)
    BY UnrenewedType DEF SystemIInv
  <2>4. lease_left[t] \in Int
    BY <2>1, AliveHasLease, StoreConstants DEF Alive, LongExpired
  <2>5. lease_left[t] > 0
    BY <2>2, <2>3, <2>4, StoreConstants, WorkerConfiguration DEF HeartbeatFits
  <2> QED
    BY <2>2, <2>5
<1> QED
  BY <1>1, SystemWellFormedAlways, PTL

(* And no step has two healthy executors. *)
THEOREM OneHealthyExecutorAlways ==
  ASSUME HeartbeatFits
  PROVE  SystemSpec => []OneHealthyExecutor
<1>1. SystemIInv => OneHealthyExecutor
  <2> SUFFICES ASSUME SystemIInv, NEW p \in Process, NEW q \in Process, p # q,
                      proc[p].pc = "working", proc[q].pc = "working",
                      proc[p].task = proc[q].task,
                      proc[p].health = "ok", proc[q].health = "ok"
               PROVE  FALSE
    BY DEF OneHealthyExecutor
  <2>1. proc[p].task # NoTask /\ HealthyOwns(p) /\ HealthyOwns(q)
    BY DEF SystemIInv, TokensInUse
  <2>2. proc[p].token = proc[q].token
    BY <2>1 DEF HealthyOwns
  <2> QED
    BY <2>1, <2>2 DEF SystemIInv, TokensAreUnique, Holds
<1> QED
  BY <1>1, SystemWellFormedAlways, PTL
=============================================================================
