# A TLA+ model of the taskboard

The repository is a small task scheduler: a Go server with an HTML dashboard and
a JSON API, any number of worker processes, and one PostgreSQL database in which
every state change happens. A task is a list of steps; a worker claims the task,
runs its steps one after the other, keeps a lease alive meanwhile, and reports
each step. All coordination is done with row locks, a fencing token
(`ownership_version`) and the database's clock.

This directory models that coordination in TLA+, checks the models with TLC and
proves with TLAPS every safety invariant and action property the runs check: of
the task table, the parameters, the activity log, the worker processes, the
migration, the claim race, the claim demo and the dashboard.

## Inventory

| Component | State | Operations | What makes it correct |
|---|---|---|---|
| Task store (`internal/store/store.go`) | rows of `tasks`, `steps`, `step_logs` | `CreateTask`, `ClaimNext`, `RenewLease`, `StartCurrentStep`, `CompleteStep`, `CancelTask`, `PruneTerminalTasks` | steps done in order and once; `tasks.status`, `steps.status` and `step_logs` agree at every commit; terminal statuses stay; no active task without a lease |
| Parameter merging (`internal/parameters/merge.go`) | three kinds of dictionaries on tasks, groups and steps; the snapshot and the effective dictionary of a task | `AtTaskStart`, `AtStep` and their callers in the store | overrides stick; a takeover resumes with what the first owner was given |
| Worker (`cmd/worker/main.go`) | the task and token in hand, a timer, a ticker | the claim loop, `executeTask`, `waitWithHeartbeat` | a healthy worker keeps its task; an old token is refused; every task ends |
| HTTP API (`internal/httpapi/server.go`) | none of its own but the requests under way | create, cancel, complete, list, activity, health, claim demo | every accepted call is a transaction of the store; the demo cleans up |
| Claim demo (`runClaimDemo`, `ClaimSpecificDemo`, `FinishClaimDemo`) | demo rows of `tasks`, goroutines of a request | create, five racing claims, record, finish | one winner; nothing left behind; a bounded number kept |
| Claim race (`cmd/claim-race/main.go`) | a database of its own; what each process printed | seed, start processes that claim until nothing is left, wait, judge, drop the database | PASS and the failed assertions mean what they say; the race ends |
| Server (`cmd/server/main.go`) | the retention loop's ticker | start, migrate, serve, prune, shut down | nothing but old terminal tasks is deleted |
| Migration (`Migrate`, `migrations/*.sql`) | `schema_migrations`, the schema, an advisory lock | apply each file once under the lock | the ledger tells the schema whoever dies where; nobody serves too early; everybody serves at last; old rows keep satisfying what the new code relies on |
| Dashboard (`web/app.js`, `ListTasks`) | page offset, a flag that a refresh is under way, the page shown | refresh, page, create, cancel, report buttons, demo | what is shown fits together, never goes back and comes to be the table; stale buttons do no harm |
| Activity log (`writeActivity`, `ListActivity`) | `activity_logs` | one row per event, in the event's transaction | the log tells the history of the task |
| Seed, configuration (`cmd/seed`, `configenv`) | none | example data, environment variables | - |

How they interact: workers, the API's handlers and the retention loop call the
store; the store's methods are transactions on the shared tables, serialised per
task by the row lock that each takes first. Workers never talk to one another;
they learn of a takeover or a cancellation only by the answer to their next
call. The dashboard polls.

What is hard here: calls that arrive late, twice or in another order than they
were made; a worker that stalls past its lease and wakes up; two processes with
one worker id; a call that commits and whose answer is lost; `now()`, which is
the time a transaction *began* and is stale after a wait for a row lock; a
statement that chooses its rows before it locks them; a failed task that comes
back to life; a request that dies in the middle of the demo; a process that dies
half way through a migration, or whose unlock fails unnoticed; a list that is read by three statements while the
tasks go on. `PROJECT.json` lists each at its line.

## Modules

`TaskLifecycle` is the abstract specification: a task is a phase, a set of steps
still to do, a holder and a token. It says what the table promises to everybody
else, and no more.

`TaskStore` is the core: one variable per column (a function of the task), one
action per transaction.

| Action | Code (`internal/store/store.go`) |
|---|---|
| `CreateTask` | `CreateTask`: the task, its group and its steps in one transaction |
| `ClaimNext`, `Claimable`, `NextToken` | `ClaimNext`: a pending task or an active one with an expired lease. `SKIP LOCKED` makes it any claimable task, not the first |
| `RenewLease`, `CanRenew` | `RenewLease`, a single `UPDATE` |
| `StartCurrentStep` (`ResumeStep`, `BeginStep`) | `StartCurrentStep`; a step that is running already is handed out again |
| `CompleteStep` (`AdvanceTask`, `FinishTask`, `FailTask`, `KeepTask`) | `CompleteStep`: the upsert of the log row, then the four things it can do to the task |
| `CancelTask` | `CancelTask` |
| `PruneSnapshot`, `PruneDelete`, `PruneAbort` | `PruneTerminalTasks`: the `victims` of the statement's snapshot, and the delete by id |
| `Tick` | the database's clock |

Three choices deserve a word. (1) A transaction is one action, taken at its
commit, because it first locks the task's row and every writer of its steps and
logs does the same. What escapes the lock is modelled: `age` is how long before
its commit the transaction began, so leases are judged and set by an older clock
than other transactions have used; and pruning is two actions. (2) Time is what
a lease has left: `lease_left` falls by one with each `Tick`. Below
`-(MaxAge + 1)` every transaction agrees that it is over, so it stops there. (3) A call that
answers with an error rolls back and is a stuttering step. The answers matter to
the worker, and `WorkerSystem` reads them from the same guards.

`Parameters` holds the merge functions and `Sticky`, which says what they amount
to without a loop over the steps: a key has the value of the latest step that
overrides it. `TaskParameters` extends each transaction of `TaskStore` with its
assignments to the parameter columns, and records in `handed` what workers were
given. `ChangeGroup` stands for a group that is edited by hand while its tasks
run; the store has no such operation, and the snapshot column exists for it.

`WorkerSystem` composes `TaskStore` with worker processes and a user at the
dashboard. A process is `idle` (the claim loop), `starting` (about to call
`StartCurrentStep`) or `working` (inside `waitWithHeartbeat`, or about to report).
`done_in` is the timer, `beat_in` the ticker, `beat_due` the channel of length one
of that ticker. `Claim`, `StartOrLeave`, `Renew` and `ReportDone` are the calls;
any error ends `executeTask` and the process claims again. `Stall`, `Resume`,
`Crash`, `ClaimAnswerLost` and `CallAnswerLost` are what can go wrong.
`ShowButton` and `PressButton` are the report buttons of `app.js`: they carry the
owner and token of an earlier refresh.

`ClaimDemo` models the demo endpoint by itself: demo rows are invisible to
workers (`NOT demo_claim` in `ClaimNext`). Here the row lock itself matters, so a
claim is a lock and a commit, and `FinishClaimDemo` is `MarkFinished` (the update,
and the snapshot of the delete) and its commit.

`ActivityLog` adds the rows of `activity_logs` to each transaction of `TaskStore`. A row gets
its id while its transaction holds the lock of the task, so the events of a task
are a sequence in the order of the commits.

| Action | Events (`writeActivity` in `store.go`) |
|---|---|
| `CreateTaskLogged`, `CancelTaskLogged` | `task_created`, `task_cancelled` |
| `ClaimNextLogged` (`ClaimEvent`) | `task_claimed` or, if the status read was not pending, `task_reclaimed` |
| `StartCurrentStepLogged` (`StartEvent`) | `step_started`, resumed or not |
| `CompleteStepLogged` (`ReportEvent`, `OutcomeEvents`) | `step_reported`, then `task_done` or `task_failed` |
| `PruneDeleteLogged` | the rows go with their task |
| `Unlogged` | nothing: a renewal, the choice of victims |

`Replay` is a reader who knows only the events; `LogTellsTables` says that this
reader knows the task.

`Migration` is the start of every server and worker. Each statement of `Migrate` is an
action (`TakeLock`, `CheckFile`, `ApplyFile`, `RecordFile`, `NextFile` for the
commit, `Unlock` for the deferred unlock; `Return` is what the caller does next); between
two of them a statement can fail, a commit can lose its answer and the process can
die. Its session then keeps the lock (`DeadSession`) until PostgreSQL ends it. So it
does after `UnlockFails`: `Migrate` ignores the error of the deferred unlock and its caller
goes on, although a broken connection has left the lock to its session. The database
is new, or holds any tasks that the first schema allows (`OldTasks`); the commit of
`002_operations.sql` gives the active ones a lease (`UpgradedLease`). Once somebody
serves, the table is used by all the transactions of `TaskStore` (`Use(Next)`).

`ClaimRace` is the tool that races processes for tasks, and at the same time the
model of `ClaimNext` at the level of its statements, with the row locks explicit:

| Action | Code |
|---|---|
| `Begin`, `Select` | `Begin`, which fixes `now()`; the snapshot of the query |
| `LockRow`, `SkipRow` (`TakesRow`) | `FOR UPDATE SKIP LOCKED LIMIT 1`: rows in the order of their ids; a locked row is skipped, and a row that was locked is tested against the `WHERE` clause again |
| `FindNothing` | `ErrNoRows`: the process ends |
| `CommitClaim`, `PrintClaim` | the `UPDATE` by id, the commit and the line on standard output |
| `Fail`, `CommitAnswerLost` | any error, a kill, or a database that is gone |
| `CreateDatabase` to `DropDatabase` | `runCoordinator`, one action per call; it waits for the processes one by one and returns at the first that failed |

`RaceImplementsStore` says that the whole is `TaskStore`, whose `ClaimNext` is one action.

`Dashboard` is the page in the browser over `TaskLifecycle`, which stands for the table;
that `TaskStore` implements it, and does the steps in order (`StepsInOrder`), lets `Row` name
the first undone step as the current one. `Count`, `List` and `ReadSteps` are
the three statements of `ListTasks`, each of which sees the table of its own moment.
`Refresh` is the beginning of `refresh()`, dropped while `isRefreshing`; `Render` and
`RefreshFails` are its ends, the clamp of `taskOffset` and the `finally` included.
`Poll` is the timer, `PreviousPage` and `NextPage` are the buttons,
`SubmitForm`, `FormAnswered` and `FormFails` the form that goes back to the first page, and
`Elsewhere` is everybody else who changes tasks.

Operators named `Faulty...` are wrong versions of the operator defined after
them: a dropped guard, an off-by-one, a forgotten reset. No specification uses
them. Putting one in the place of the right version must break the property that
`PROJECT.json` names for it, which shows that the property watches that code.

## Runs

| Run | What it asks | Instance |
|---|---|---|
| `store` | all invariants and action properties of the table, the inductive `IInv`, and that it implements `TaskLifecycle` | 2 tasks, 2 workers, up to 3 steps, lease of 1 tick, 2 hand-overs per task, locks awaited up to 1 tick: about 109,000 states |
| `prune_race` | is an active task never pruned? | 1 task, 1 worker, 2 steps. **Violated** |
| `params` | sticky parameters, the same dictionary for each resumption, a frozen snapshot, and the inductive `ParametersIInv` | 1 task of up to 2 steps, one key that is missing, `""` or one of two values in each dictionary: about 53,000 states |
| `workers` | unique tokens, fencing, that a healthy process keeps its lease, the inductive `SystemIInv`, and that every task ends | 2 processes with the same id, 1 task of up to 3 steps, 3 faults, fairness: about 311,000 states |
| `heartbeat_gap` | does a healthy process keep its lease if steps are shorter than the heartbeat interval? | 1 process, up to 4 steps, no faults. **Violated** |
| `demo` | one winner, nothing left behind, a bounded number kept | 2 requests at a time, 2 goroutines each, 4 demos of which 1 is kept, 2 faults: about 1.2 million states |
| `demo_cancel` | is a cancelled demo task final? | 1 demo. **Violated** |
| `demo_recent` | are only the latest demos kept? | 2 requests, 4 demos. **Violated** |
| `activity` | does the log tell the tables, name the owner of the time, call one report the first, and end with a cancellation? | 1 task of up to 2 steps, 2 workers, 2 hand-overs, up to 10 events: about 54,000 states |
| `migrate` | does the ledger tell the schema, does nobody serve too early and everybody at last, and what becomes of tasks of the first schema? | 3 processes of which one only migrates, 2 faults, 1 task of up to 2 steps or one of the first schema, fairness: about 479,000 states |
| `claim_race` | is the verdict true, do the statements of `ClaimNext` implement `TaskStore`'s, does the race end? | 2 processes, 2 tasks, lease of 1 tick, 3 ticks, 2 faults, fairness: about 161,000 states |
| `dashboard` | does the page fit together, never go back, and come to show the table? | 2 tasks of up to 2 steps on pages of 1, 2 calls, 5 changes, 1 click, 1 fault, fairness: about 878,000 states |

Why the bounds are enough. Tasks share nothing but the victims of a pruning
pass, so two of them show every interaction. Three steps give a first, a middle
and a last one. Two hand-overs give a first claim and a takeover; a third owner
meets what the second did. A wait of one tick is enough for a transaction to
find its clock on the other side of a lease's end than the one that committed
before it did. In `workers` the bound on the token never binds: each hand-over after the
first needs a fault or an expired lease, and the run stays below `MaxVersion`, so no
behaviour there is cut short by it. `claim_race` is where the stale clock of
`now()` is examined for claims: the snapshot, the test under the row lock and the new lease follow
the clock of `Begin`, and a test by the clock of its own moment would break `RaceImplementsStore`. `store`
lets every other call be a tick late as well, but states nothing of how long
a lease is, so a renewal that sets it back is seen by no property. The demo's
`Keep` is 10 in the code; the delete compares with one number, and 1 is enough for
two requests to disagree about it. Four demos let the bounded number be reached,
kept and exceeded by a wrong offset.

In `activity` a cap of ten events lets two owners, the duplicates of both verdicts and
the end of the task follow one another. `CompleteStep` is one action there, since it
holds the task's row from its first statement: what `FirstReportIsUnique` examines is
reports that are sent again, not the statements of two reports against each other. `migrate` has three processes so that two
can wait for the lock while a third is inside, and two faults so that one can die and the
next fail, or an error be followed by a failing unlock; one hand-over is what an upgraded task needs. In `claim_race` a lease
of an hour is one tick and a race three, so that a lease can run out during the race
(the failed assertions are real only then) and a transaction can outlast
another's commit by a tick; `MaxVersion` never binds. In `dashboard` two tasks on
pages of one give a first and a last page, and five changes take a task from its
creation to its end and its pruning, or two tasks there and one away, which
leaves the user beyond the end of the list. The second number of `Request` is never
needed, because a refresh under way shuts out the next; without that guard it is,
and `NeverGoesBack` fails.

Symmetry is used where ids are interchangeable (tasks, workers, goroutines,
requests, the non-empty values of a key) in runs that check safety only, never
in `workers`, `migrate`, `claim_race` and `dashboard`, where it would not be sound
for liveness or where the ids are ordered.

Deadlock is checked everywhere but in the three runs of the demo, which ends
when the last of its `MaxDemos` was run, and in `claim_race`, which ends when the database
is dropped. `TaskStore` never deadlocks because time can always pass.

### Fairness

`FairSpec` assumes weak fairness of `PassTime`, and for each process of `Claim`,
`Execute` and `Resume`: time passes, a running process makes its calls, and a
stalled one wakes up or is killed and restarted. The claim loop polls for ever
(`cmd/worker/main.go`), the loop of `waitWithHeartbeat` selects on timers that fire,
and compose restarts a process that dies (`restart: unless-stopped`). Nobody is
obliged to submit, cancel or report, and the number of faults is finite: with
one crash after the other no step would ever be finished. A process makes
a due call before time passes (`Urgent`) unless it stalls; that is the model's
meaning of *healthy*, and `HealthyKeepsLease` speaks of these only.

`MigrationFairness`: compose restarts servers and workers but not a job that
only migrates; PostgreSQL answers, grants the advisory lock in the order of the
requests (strong fairness of `TakeLock`, since others may hold it now and then),
and ends a session that no process uses any more: its client is gone, or its
connection broke, which is how the unlock fails: its context has no deadline, and
its session holds the lock. One of the workers polls for
claimable tasks as soon as somebody serves.

`FairRaceSpec`: the coordinator and the processes run and the database answers
them, if only with the error that it is gone. Nothing is assumed of the clock.

`DashboardFairness`: the timer goes on, and a call that was answered is rendered.
`fetch` has no timeout of its own; that a call ends rests on the server, which
gives up a response after its `WriteTimeout` of 15 seconds (`cmd/server/main.go`), and the browser
then sees an error.

### What the runs found

Each is a sentence of the repository that the code does not keep.

- `prune_race`: "active tasks are never eligible" (`store.go:1045`). A failed task
  that its owner revives with a late success, between the snapshot and the
  delete of a pruning pass, is deleted while active. The retention must be
  shorter than a report can be late, so it takes some bad luck; a condition on
  `t.status` in the delete would close it. `TaskLifecycle`'s `Delete` allows it, and
  all that is proved below holds with it.
- `heartbeat_gap`: workers renew while they run (`README.md:34`). The ticker is made
  anew for each step, and neither starting nor reporting a step renews the lease,
  so with `-step-delay` below `-heartbeat-interval` it never is. `main` accepts such a
  configuration (its defaults, 15, 10 and 30 seconds, are not one). With `StepDelay > HeartbeatInterval` and
  `LeaseDuration > 2 * HeartbeatInterval` the lease is kept: `workers` checks it and
  `HealthyKeepsLeaseAlways` proves it.
- `demo_cancel`: cancelled is a terminal state (`store.go:430`). `FinishClaimDemo`
  sets `done` whatever the status is.
- `demo_recent`: only the latest ten demos are kept (`README.md:36`). Overlapping
  requests do not see one another's demo, and demos that a crash left unfinished
  are never deleted. `DoneDemosBounded` is what does hold.

`migrate` shows a boundary that no sentence of the repository denies.
`002_operations.sql` gives a lease to tasks that are active, not to failed ones. A
failed task of the first schema, whose owner then reports a success with the
token 0 (a report over HTTP without `fencing_token` decodes to 0), is active again and
has no lease: no worker can claim or start it, and only `CancelTask` ends it.
`OldActiveHasLease` states it exactly: no other task gets there.

## Proofs

`TaskStore_proofs` proves, for every set of tasks and workers and all values of
`MaxSteps`, `LeaseDuration`, `MaxVersion` and `MaxAge` that satisfy `StoreConstants`:

| Theorem | Says |
|---|---|
| `TypeCorrect` | every column keeps to its domain |
| `WellFormedAlways` | the inductive invariant `IInv` |
| `StepsInOrderAlways`, `StatusAgreesAlways`, `LogAgreesAlways`, `ActiveHasLeaseAlways`, `OwnerCanProceedAlways` | the safety invariants, each from `IInv` |
| `TerminalIsFinalAlways`, `StepsMoveForwardAlways` | the action properties |
| `LifecycleImplemented` | `Spec => Lifecycle!Spec`, the refinement of `TaskLifecycle` |

None of the safety invariants is inductive alone. That steps are done in order,
for instance, is preserved by `AdvanceTask` only because the reported step is the
current one *and* running or failed; that in turn needs to know what each status
of the task says of its current step, that rows are numbered without gaps, and
that a log row which says success belongs to a step that is done. `WellFormed(t)` puts
these facts about the columns of one task together; the proof shows for each
action that it takes a well-formed task to a well-formed one and leaves the
other tasks alone, with the report's four effects as lemmas of their own.
`VictimsWereClaimed` is the part of `IInv` that pruning needs: a victim can have become
active again, never pending, so a deleted task had been claimed.

The refinement maps `Todo(t)` to the rows that are not done. A success removes
the first of them, because in a well-formed task everything before the current
step is done; a takeover, a renewal, a start, a duplicate report and a tick
leave the abstract state alone or hand the task over.

`TaskParameters_proofs` proves, for every set of keys and values besides:

| Theorem | Says |
|---|---|
| `StickyAtStart`, `StickyAtNextStep` | `AtTaskStart` is the reference dictionary of step 0, and `AtStep` takes that of step n to that of step n + 1 |
| `ParametersImplementStore` | `ParametersSpec => Spec`: the parameter columns only watch, and all of the table above holds with them |
| `ParametersWellFormedAlways` | the inductive invariant `ParametersIInv` |
| `ParametersAreStickyAlways`, `ResumedWithSameParametersAlways`, `SnapshotIsFrozenAlways` | the properties of run `params` |

`ParametersAreSticky` speaks of the dictionaries that exist; to keep it, a step that
begins needs that the steps with a dictionary are exactly those before it. This
`ParametersWellFormed` ties to the statuses of the steps, and `IInv` says that steps
begin in order. One theorem about the merge, `StickyAtNextStep`, then does the rest:
the induction over steps is an induction over the behaviour.

`WorkerSystem_proofs` proves, for any number of processes, tasks and faults, and
whatever processes share an id:

| Theorem | Says |
|---|---|
| `SystemImplementsStore` | `SystemSpec => Spec`: what is proved of the table holds in the composed system |
| `SystemWellFormedAlways` | the inductive invariant `SystemIInv` |
| `TokensAreUniqueAlways`, `OldTokensAreRefusedAlways` | fencing |
| `HealthyKeepsLeaseAlways`, `OneHealthyExecutorAlways` | under `HeartbeatFits` |

The tokens are unique because every token in use is at most `ownership_version` of
its task (`TokensInUse`) and a claim takes the next one, also when its answer is
lost. The lease needs a count: `Unrenewed` bounds how long a healthy process
has not renewed, by where it is. Before the first heartbeat of a step that is one
interval, from the end of the step before, and the time waited so far, so at most
two; after it, what has passed since the last one. Each tick adds one to it
(`ElapsedInTime`), a start or a report does not raise it above one interval because
the step was longer than that, and a renewal resets it. `HealthyOwns` says that the lease has
at least the rest of `LeaseDuration` left, and so no healthy process's task can
be claimed (`HealthyIsNotClaimable`). `HeartbeatFits`, that is
`HeartbeatInterval < StepDelay` and `2 * HeartbeatInterval < LeaseDuration`, is a
hypothesis of these two theorems, not an assumption of the module; `heartbeat_gap`
shows that they fail without it.

`ActivityLog_proofs` proves, besides that the log only watches
(`ActivityImplementsStore`), `EventsTellChangeAlways`: for each transaction, that the one
or two events it appends, told to a reader who knows the task, give the task as
the transaction left it. `WellFormed` of `TaskStore` supplies what the events leave out: that the
report which succeeds first is about the current step, and that the row after
it is the next number. `FirstReportIsUniqueAlways` and `CancelledIsLastEventAlways` are
invariants of the log as a whole; the second needs that a task with a
`task_cancelled` event is cancelled, which only pruning leaves.
`EventsAreTheOwnersAlways` rests on `HandOversLogged`: the claims in the log of a task are
counted by `ownership_version`, and the last of them names the owner and the token of the
row. A start or a report is refused to anybody else, so what it writes names that
owner too.

`LogTellsTablesAlways` is about the replay of a log of any length, which is a recursive
function, and an induction over logs is out of reach. It is an induction
over the behaviour instead: `ReplaysTo` says that the log has exactly one replay and
that it ends with what the tables say; `LongerReplay` extends it by one event, and
`EventsTellChange` says that a transaction adds at most two and what they tell.

`Migration_proofs` proves, for any number of processes, crashes and errors:
`MigrationWellFormedAlways` (`MigrationIInv`), `LedgerTellsSchemaAlways`, `NobodyOvertakesAlways` and
`ServingHasSchemaAlways`. The argument is the lock: who is inside `Migrate` holds it
(`InsideHoldsLock`), a dead session included, so what a process has read of the ledger
is still true when it writes (`FilesSeen`). `OldActiveHasLeaseAlways` adds `LeasesAccounted`
to the invariant of `TaskStore` with its lease clause weakened: an active task without a lease waits for
the data migration or was failed in the first schema and never claimed; a failed
one without a lease is of the first schema too; and a done task is never revived,
because its current step is done.

`ClaimRace_proofs` proves that the race implements `TaskStore` for any number of
processes and tasks (`RaceImplementsStoreAlways`). In the invariant `RaceIInv` a row has at
most one process that has locked it and stays claimable for that process: the
test was made under the lock, others skip the row, and as time passes an
expired lease stays expired for a transaction whose clock stands still. Hence the
`UPDATE` by id is a legal claim at its commit. `VerdictIsTrueAlways` rests on `VerdictIInv`.
If no answer was lost, a token of 0 means that no process holds a claim of the task,
printed or answered, and a token of 1 that exactly one does (`ClaimsHeld`); and a process
has passed a pending task over only if another one has it locked (`NothingLeftOut`), so
when all have ended without an error nothing is pending.

`ClaimDemo_proofs` proves `OneWinnerAlways` and `NothingLeftBehindAlways` for any number of
requests, goroutines and demos, from `DemoIInv`: a demo belongs to one request
(`OwnDemos`), a row is locked by one attempt and not won yet (`LockedAttempts`),
a won demo has the winner's name and nobody changes it (`WonAttempts`), and what
a finishing request is about to delete is finished (`ExpiredFinished`).

`DoneDemosBoundedAlways` bounds the finished demos by `Keep` and the number of requests, for
any number of demos. The bound alone is not inductive: it is the commits to come
that matter. `KeptInOrder` orders the requests between their mark and their
commit by the marks, and bounds for each what it will leave done (`KeptBy`) plus how
many marked before it and are still at it. A mark starts with at most `Keep`
(`FewYounger`); a commit by an earlier one adds one demo and takes one off the second
term; a commit by a later one replaces what is done by what that one keeps. The
order is not in the program's state, so the invariant says that there is one.

`Dashboard_proofs` proves, on top of `DashboardImplementsLifecycle`, `DashboardWellFormedAlways`
(`DashboardIInv`) and from it `StepsFitTheirTaskAlways` and `NeverGoesBackAlways`. What was read is
behind the table, because the table only goes forward (`RowsBehind`, `StepsBehind`);
the steps of a call are read after its rows and so are not behind them (`Fits`); and
`isRefreshing` lets one call be under way at a time (`OneCall`), so that the page it will
replace is still the one it found when it began, and older than what it read
(`NewerRows`, `NewerSteps`).

The inductive invariants that no run lists (`KeptInOrder`, `AllOwnersLogged`, `LeasesAccounted`,
`VerdictIInv`, `DashboardIInv`) hold under TLC too on the instances of `demo`, `activity`, `migrate`,
`claim_race` and `dashboard`; naming one in the `.cfg` repeats that.

Model-checked only: all liveness (`EveryTaskSettles`, `EveryoneServes`,
`OldTasksAreTakenOver`, `RaceEnds`, `PageSettles`), which is out of the prover's reach with
anything that rests on `ENABLED`. The statements that runs show to be
violated are counterexamples and have nothing to prove. The invariants that only give types
(`TypeOK` and its like) are parts of the inductive ones and are checked with them. No
module uses `RECURSIVE` operators, which the prover's SMT backend does not support.

## Not modelled, and why

- Wording, JSON, validation of requests, headers, logging: no state.
- `ListActivity`, health and the rows the claim demo adds to the log: reads of the
  latest rows, and rows nobody reads a state from.
- Which terminal tasks are old enough to prune, and the batches: `PruneSnapshot`
  lets any set of terminal tasks be chosen, which includes every clock and limit.
  Orphan groups have no effect on tasks.
- Workers with different settings: all processes share one lease duration, step
  delay and heartbeat interval, as in `docker-compose.yml`.
- The retention loop's batches of 1000, its ticker and its clock (the server's,
  compared with `updated_at` by the database's): the safety of pruning is checked for
  any choice of terminal tasks, and how long tasks are kept is no property here.
- `Milliseconds()` truncates a lease: ticks are whole units. A lease below a
  millisecond would be over at once, which `workers` covers as a stalled process.
- The graceful shutdown of server and worker: to the tables it is a crash with
  fewer lost calls.
- The editors of the form, the rendering and the activity column of the dashboard.
- The seed tool and the reading of environment variables: straight-line input
  and output.

## Plan

Done, in this order: `TaskLifecycle`, `TaskStore` and its proofs; `Parameters` and
`TaskParameters` with theirs; `WorkerSystem` and its proofs; `ClaimDemo`; `ActivityLog`,
`Migration` and `ClaimRace` with proofs, and those of `ClaimDemo`; `Dashboard`.

Next:

1. The statements of `StartCurrentStep` and `CompleteStep` taken apart as `ClaimRace`
   does for `ClaimNext`, with the row lock explicit.
2. `Retention`: orphan groups against a concurrent `CreateTask`, the ten batches of a pass.
3. The safety half of the liveness properties as theorems: what cannot block a worker,
   a starting process or the race.
