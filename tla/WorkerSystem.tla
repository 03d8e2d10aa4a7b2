----------------------------- MODULE WorkerSystem -----------------------------
(***************************************************************************)
(* Worker processes (cmd/worker/main.go) and API callers around the task   *)
(* table: the claim loop, executeTask with its heartbeats, and somebody at *)
(* the dashboard who reports steps and cancels tasks.                      *)
(*                                                                         *)
(* Every call of the Store is the transaction of TaskStore with a lock     *)
(* that is free (age 0). A healthy process makes its calls as soon as they *)
(* are due: time does not pass before it did. A stalled one (a paused      *)
(* container, a slow disk or network) makes them at any later time, a      *)
(* crashed one forgets its task and is restarted, and a call can commit    *)
(* with its answer lost. MaxFaults bounds these.                           *)
(*                                                                         *)
(* Retention is left out: it is off by default and works on tasks that     *)
(* ended long before any lease.                                            *)
(***************************************************************************)
EXTENDS TaskStore

CONSTANTS
  Process,            \* worker processes
  IdOf,               \* their -id: nothing stops two of them from sharing one
  StepDelay,          \* -step-delay
  HeartbeatInterval,  \* -heartbeat-interval
  MaxFaults,          \* bound on stalls, crashes and lost answers
  NoTask              \* a process without a task

\* What main checks before it starts.
ASSUME WorkerConfiguration ==
  /\ IdOf \in [Process -> Worker]
  /\ StepDelay \in Nat
  /\ HeartbeatInterval \in Nat \ {0}
  /\ HeartbeatInterval < LeaseDuration

ASSUME WorkerBounds == MaxFaults \in Nat /\ NoTask \notin Task

VARIABLES
  proc,        \* the state of each process
  button,      \* the step a dashboard shows a report button for
  faults,      \* faults so far
  last_token   \* history: the token of the last accepted call, by task

local == <<proc, button, faults, last_token>>
systemVars == <<vars, local>>

Idle ==
  [pc |-> "idle", task |-> NoTask, token |-> 0, step |-> 0,
   done_in |-> 0, beat_in |-> 0, beat_due |-> FALSE, health |-> "ok"]

NoButton == [task |-> NoTask, worker |-> NoWorker, token |-> 0, step |-> 0]

ProcessState ==
  [pc : {"idle", "starting", "working"}, task : Task \cup {NoTask}, token : Version,
   step : 0..MaxSteps, done_in : 0..StepDelay, beat_in : 0..HeartbeatInterval,
   beat_due : BOOLEAN, health : {"ok", "stalled", "resumed"}]

SystemTypeOK ==
  /\ TypeOK
  /\ proc \in [Process -> ProcessState]
  /\ button \in [task : Task \cup {NoTask}, worker : Worker \cup {NoWorker}, token : Version,
                 step : 0..MaxSteps]
  /\ faults \in 0..MaxFaults
  /\ last_token \in [Task -> Version]

-----------------------------------------------------------------------------
(* What a process holds, and what it does with the answers it gets. *)

Holds(p, t, k) == proc[p].task = t /\ proc[p].token = k

Forget(p) == proc' = [proc EXCEPT ![p] = Idle]

Accepted(t, k) == last_token' = [last_token EXCEPT ![t] = k]

\* waitWithHeartbeat makes its timer and its ticker anew for every step.
FaultyFirstBeat == LeaseDuration
FirstBeat == HeartbeatInterval
StartWaiting(p) ==
  proc' = [proc EXCEPT ![p] =
    [@ EXCEPT !.pc = "working", !.step = CurrentPosition(proc[p].task),
              !.done_in = StepDelay, !.beat_in = FirstBeat, !.beat_due = FALSE]]

SystemInit ==
  /\ Init
  /\ proc = [p \in Process |-> Idle]
  /\ button = NoButton
  /\ faults = 0
  /\ last_token = [t \in Task |-> 0]

(* The claim loop of main, and executeTask. *)

Claim(p) ==
  /\ proc[p].pc = "idle"
  /\ \E t \in Task :
       /\ ClaimNext(IdOf[p], t, 0)
       /\ Accepted(t, ownership_version'[t])
       /\ proc' = [proc EXCEPT ![p] =
            [@ EXCEPT !.pc = "starting", !.task = t, !.token = ownership_version'[t]]]
  /\ UNCHANGED <<button, faults>>

\* Every error, ErrTaskTerminal too, ends executeTask; main claims again.
StartOrLeave(p) ==
  LET t == proc[p].task  k == proc[p].token IN
  /\ proc[p].pc = "starting"
  /\ \/ /\ StartCurrentStep(IdOf[p], t, k, 0)
        /\ StartWaiting(p)
        /\ Accepted(t, k)
     \/ /\ ~CanStart(t, IdOf[p], k, 0)
        /\ Forget(p)
        /\ UNCHANGED <<vars, last_token>>
  /\ UNCHANGED <<button, faults>>

Renew(p) ==
  LET t == proc[p].task  k == proc[p].token IN
  /\ proc[p].pc = "working" /\ proc[p].beat_due
  /\ \/ /\ RenewLease(IdOf[p], t, k, 0)
        /\ proc' = [proc EXCEPT ![p].beat_due = FALSE]
        /\ Accepted(t, k)
     \/ /\ ~CanRenew(t, IdOf[p], k, 0)
        /\ Forget(p)
        /\ UNCHANGED <<vars, last_token>>
  /\ UNCHANGED <<button, faults>>

\* With a heartbeat due as well, select takes either.
ReportDone(p) ==
  LET t == proc[p].task  k == proc[p].token  s == proc[p].step IN
  /\ proc[p].pc = "working" /\ proc[p].done_in = 0
  /\ \/ /\ CompleteStep(IdOf[p], t, k, s, TRUE, 0)
        /\ IF status'[t] = "done" THEN Forget(p) ELSE proc' = [proc EXCEPT ![p].pc = "starting"]
        /\ Accepted(t, k)
     \/ /\ ~(CanReport(t, IdOf[p], k, 0) /\ AcceptsReport(t, s))
        /\ Forget(p)
        /\ UNCHANGED <<vars, last_token>>
  /\ UNCHANGED <<button, faults>>

Execute(p) == StartOrLeave(p) \/ Renew(p) \/ ReportDone(p)

(* Faults *)

Fault == faults < MaxFaults /\ faults' = faults + 1

Crash(p) ==
  /\ Fault
  /\ proc[p].pc # "idle" /\ Forget(p)
  /\ UNCHANGED <<vars, button, last_token>>

Stall(p) ==
  /\ Fault
  /\ proc[p].pc # "idle" /\ proc[p].health = "ok"
  /\ proc' = [proc EXCEPT ![p].health = "stalled"]
  /\ UNCHANGED <<vars, button, last_token>>

Resume(p) ==
  /\ proc[p].health = "stalled"
  /\ proc' = [proc EXCEPT ![p].health = "resumed"]
  /\ UNCHANGED <<vars, button, faults, last_token>>

\* The transaction commits, the answer does not arrive: the process sees an
\* error and goes back to claiming.
ClaimAnswerLost(p) ==
  /\ Fault
  /\ proc[p].pc = "idle"
  /\ \E t \in Task : ClaimNext(IdOf[p], t, 0) /\ Accepted(t, ownership_version'[t])
  /\ UNCHANGED <<proc, button>>

CallAnswerLost(p) ==
  LET t == proc[p].task  k == proc[p].token IN
  /\ Fault
  /\ \/ proc[p].pc = "starting" /\ StartCurrentStep(IdOf[p], t, k, 0)
     \/ proc[p].pc = "working" /\ proc[p].beat_due /\ RenewLease(IdOf[p], t, k, 0)
     \/ /\ proc[p].pc = "working" /\ proc[p].done_in = 0
        /\ CompleteStep(IdOf[p], t, k, proc[p].step, TRUE, 0)
  /\ Forget(p)
  /\ Accepted(t, k)
  /\ UNCHANGED button

(* The dashboard and other API callers *)

Submit(t, n) == CreateTask(t, n) /\ UNCHANGED local

Cancel(t) == CancelTask(t) /\ UNCHANGED local

\* renderStep shows the button for a running step, with the owner and token of
\* the moment.
ShowButton(t) ==
  /\ status[t] = "running" /\ step_status[t][CurrentPosition(t)] = "running"
  /\ button' = [task |-> t, worker |-> claimed_by[t], token |-> ownership_version[t],
                step |-> CurrentPosition(t)]
  /\ UNCHANGED <<vars, proc, faults, last_token>>

\* Pressed at any time later, any number of times. The dashboard only sends
\* successes; the API takes failures too.
PressButton(ok) ==
  /\ button # NoButton
  /\ CompleteStep(button.worker, button.task, button.token, button.step, ok, 0)
  /\ Accepted(button.task, button.token)
  /\ UNCHANGED <<proc, button, faults>>

(* Time *)

Urgent(p) ==
  /\ proc[p].health # "stalled"
  /\ \/ proc[p].pc = "starting"
     \/ proc[p].pc = "working" /\ (proc[p].beat_due \/ proc[p].done_in = 0)

\* The timers of a process that waits for its step. A tick that finds the last
\* one not taken is dropped.
Elapsed(s) ==
  IF s.pc # "working" THEN s
  ELSE [s EXCEPT !.done_in = IF @ = 0 THEN 0 ELSE @ - 1,
                 !.beat_in = IF @ = 1 THEN HeartbeatInterval ELSE @ - 1,
                 !.beat_due = @ \/ s.beat_in = 1]

PassTime ==
  /\ \A p \in Process : ~Urgent(p)
  /\ Tick
  /\ proc' = [p \in Process |-> Elapsed(proc[p])]
  /\ UNCHANGED <<button, faults, last_token>>

-----------------------------------------------------------------------------
SystemNext ==
  \/ \E p \in Process :
       \/ Claim(p) \/ Execute(p)
       \/ Crash(p) \/ Stall(p) \/ Resume(p) \/ ClaimAnswerLost(p) \/ CallAnswerLost(p)
  \/ \E t \in Task : Cancel(t) \/ ShowButton(t) \/ \E n \in Position : Submit(t, n)
  \/ \E ok \in BOOLEAN : PressButton(ok)
  \/ PassTime

SystemSpec == SystemInit /\ [][SystemNext]_systemVars

\* Processes run, a stalled one is resumed (or killed and restarted), and time
\* passes. Nobody has to submit, cancel or report anything.
Fairness ==
  /\ WF_systemVars(PassTime)
  /\ \A p \in Process : /\ WF_systemVars(Claim(p))
                        /\ WF_systemVars(Execute(p))
                        /\ WF_systemVars(Resume(p))

FairSpec == SystemSpec /\ Fairness

-----------------------------------------------------------------------------
(* Properties *)

(* No token is given out twice: whatever is claimed, taken over and claimed
   again, by processes with the same name too, two processes never hold the
   same task with the same token (the comment above ClaimNext). *)
TokensAreUnique ==
  \A p, q \in Process : p # q /\ proc[p].task # NoTask =>
    ~Holds(q, proc[p].task, proc[p].token)

(* The calls the table accepts for a task come in the order of their tokens:
   once a newer owner's call was accepted, no call of an earlier owner is,
   however late it arrives (README.md:34, the old token's renewals, starts and
   reports are refused). *)
OldTokensAreRefused ==
  [][\A t \in Task : last_token'[t] >= last_token[t]]_systemVars

(* A process that was never stalled since its claim keeps its task: as long as
   the task is active, it is the owner and its lease has time left. *)
HealthyKeepsLease ==
  \A p \in Process : proc[p].task # NoTask /\ proc[p].health = "ok" =>
    LET t == proc[p].task IN
    status[t] \in Active =>
      claimed_by[t] = IdOf[p] /\ ownership_version[t] = proc[p].token /\ lease_left[t] > 0

(* A step has one healthy executor: if two processes are in the middle of the
   same step, all but the one with the newest token have been stalled since
   their claims. *)
OneHealthyExecutor ==
  \A p, q \in Process :
    /\ p # q /\ proc[p].pc = "working" /\ proc[q].pc = "working"
    /\ proc[p].task = proc[q].task /\ proc[p].step = proc[q].step
    => proc[p].health # "ok" \/ proc[q].health # "ok"

(* No task is left behind: whatever crashes, stalls and loses its answers, a
   task that is pending or active is some day done, failed or cancelled. *)
EveryTaskSettles ==
  \A t \in Task : status[t] \in Active \cup {"pending"} ~> status[t] \in Terminal

(* What the last two need of a configuration, which main does not check: a step
   is long enough for a heartbeat, and a lease for the last heartbeat of one
   step and the first of the next. *)
HeartbeatFits == HeartbeatInterval < StepDelay /\ 2 * HeartbeatInterval < LeaseDuration

(* The inductive invariant. Tokens are unique because each claim takes one that
   is greater than all those in use, and a healthy process stays the owner
   because the lease has more time left than the process lets pass until its
   next heartbeat. *)

TokensInUse ==
  /\ button # NoButton => button.task # NoTask /\ button.worker # NoWorker
  /\ \A t \in Task : last_token[t] <= ownership_version[t]
  /\ \A p \in Process :
       /\ proc[p].pc = "idle" <=> proc[p].task = NoTask
       /\ proc[p].pc = "idle" => proc[p].health = "ok"
       /\ proc[p].pc = "working" => proc[p].beat_in > 0
       /\ proc[p].task # NoTask =>
            /\ status[proc[p].task] \in Active \cup Terminal
            /\ proc[p].token <= ownership_version[proc[p].task]

\* Since a healthy process began to wait for its step.
Waited(s) == StepDelay - s.done_in

\* The heartbeats of a healthy process that waits come every HeartbeatInterval.
BeatsInTime(s) ==
  /\ Waited(s) < HeartbeatInterval =>
       ~s.beat_due /\ s.beat_in = HeartbeatInterval - Waited(s)
  /\ s.beat_due => s.beat_in = HeartbeatInterval
  /\ Waited(s) = HeartbeatInterval => s.beat_in = HeartbeatInterval

\* The longest a healthy process may not have renewed its lease: before its
\* first heartbeat of a step there is the end of the step before.
Unrenewed(s) ==
  CASE s.pc # "working" -> HeartbeatInterval
    [] s.pc = "working" /\ Waited(s) < HeartbeatInterval -> HeartbeatInterval + Waited(s)
    [] s.pc = "working" /\ Waited(s) >= HeartbeatInterval /\ ~s.beat_due ->
         HeartbeatInterval - s.beat_in
    [] s.pc = "working" /\ Waited(s) = HeartbeatInterval /\ s.beat_due -> 2 * HeartbeatInterval
    [] s.pc = "working" /\ Waited(s) > HeartbeatInterval /\ s.beat_due -> HeartbeatInterval

HealthyOwns(p) ==
  proc[p].task # NoTask /\ proc[p].health = "ok" =>
    LET t == proc[p].task IN
    /\ claimed_by[t] = IdOf[p] /\ ownership_version[t] = proc[p].token
    /\ proc[p].pc = "working" => BeatsInTime(proc[p])
    /\ status[t] \in Active \cup {"failed"} =>
         lease_left[t] >= LeaseDuration - Unrenewed(proc[p])

SystemIInv ==
  /\ IInv /\ SystemTypeOK
  /\ TokensInUse /\ TokensAreUnique
  /\ HeartbeatFits => \A p \in Process : HealthyOwns(p)
=============================================================================
