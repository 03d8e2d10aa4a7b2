------------------------------ MODULE ClaimRace ------------------------------
(***************************************************************************)
(* The claim race of cmd/claim-race/main.go: a coordinator makes a         *)
(* database of its own, fills it with tasks and starts processes that call *)
(* Store.ClaimNext until there is nothing left; it then judges by what     *)
(* they printed whether every task had exactly one owner.                  *)
(*                                                                         *)
(* ClaimNext, one action in TaskStore, is taken apart here into the        *)
(* statements of its transaction: the query's snapshot, the walk over the  *)
(* rows with SKIP LOCKED, and the commit. RaceImplementsStore shows that   *)
(* the commit is TaskStore's ClaimNext, for all that happens in between.   *)
(***************************************************************************)
EXTENDS TaskStore

CONSTANTS
  Workers,    \* -workers
  Tasks,      \* -tasks
  NoTask,     \* a process has no row lock, or nothing to print
  MaxFaults,  \* bound on what goes wrong
  MaxTime     \* bound on how long the race lasts

(* The processes are numbered in the order they are started in, the tasks by
   the sequence of the new database. *)
ASSUME RaceConstants ==
  /\ Workers \in Nat /\ Workers >= 2 /\ Worker = 1..Workers
  /\ Tasks \in Nat /\ Tasks >= 1 /\ Task = 1..Tasks
  /\ NoTask \notin Task
  /\ MaxFaults \in Nat
  /\ MaxTime \in Nat

VARIABLES
  at,        \* where runCoordinator is
  index,     \* its loop variable, of each of its loops in turn
  result,    \* what it returns
  database,  \* the database of the race exists
  child,     \* where each process is
  rows,      \* the rows the query of each process has still to look at
  locked,    \* the row each process has locked
  answer,    \* the claim each process has been told of, not printed yet
  began,     \* how long ago the transaction of each process began
  printed,   \* how often each process printed each task
  faults,
  time

coordinator == <<at, index, result>>
transaction == <<rows, locked, began>>
raceVars == <<vars, coordinator, database, child, transaction, answer, printed, faults, time>>

InTransaction == {"selecting", "walking", "updating"}
Running == {"idle", "answered"} \cup InTransaction
Place == {"unstarted", "exited", "failed"} \cup Running

RaceTypeOK ==
  /\ TypeOK
  /\ at \in {"creating", "seeding", "starting", "waiting", "dropping", "ended"}
  /\ index \in 1..(Workers + Tasks + 1)
  /\ result \in {"none", "pass", "assertions", "error"}
  /\ database \in BOOLEAN
  /\ child \in [Worker -> Place]
  /\ rows \in [Worker -> SUBSET Task]
  /\ locked \in [Worker -> Task \cup {NoTask}]
  /\ answer \in [Worker -> Task \cup {NoTask}]
  /\ began \in [Worker -> Age]
  /\ printed \in [Worker -> [Task -> Nat]]
  /\ faults \in 0..MaxFaults
  /\ time \in 0..MaxTime

RaceInit ==
  /\ Init
  /\ at = "creating" /\ index = 1 /\ result = "none"
  /\ database = FALSE
  /\ child = [c \in Worker |-> "unstarted"]
  /\ rows = [c \in Worker |-> {}]
  /\ locked = [c \in Worker |-> NoTask]
  /\ answer = [c \in Worker |-> NoTask]
  /\ began = [c \in Worker |-> 0]
  /\ printed = [c \in Worker |-> [t \in Task |-> 0]]
  /\ faults = 0
  /\ time = 0

-----------------------------------------------------------------------------
(* runChild: claim until there is nothing left *)

Become(c, place) == child' = [child EXCEPT ![c] = place]

\* tx.Begin: now() is this instant for the whole transaction.
Begin(c) ==
  /\ child[c] = "idle" /\ database
  /\ Become(c, "selecting")
  /\ began' = [began EXCEPT ![c] = 0]
  /\ UNCHANGED <<vars, coordinator, database, rows, locked, answer, printed, faults, time>>

\* The query's snapshot.
Select(c) ==
  /\ child[c] = "selecting" /\ database
  /\ Become(c, "walking")
  /\ rows' = [rows EXCEPT ![c] = {t \in Task : Claimable(t, began[c])}]
  /\ UNCHANGED <<vars, coordinator, database, locked, began, answer, printed, faults, time>>

NextRow(c, t) == t \in rows[c] /\ \A u \in rows[c] : t <= u

\* READ COMMITTED checks the WHERE clause again on a row it has locked.
FaultyTakesRow(c, t) == \A d \in Worker \ {c} : locked[d] # t
TakesRow(c, t) ==
  /\ \A d \in Worker \ {c} : locked[d] # t
  /\ Claimable(t, began[c])

\* ORDER BY t.id FOR UPDATE OF t SKIP LOCKED LIMIT 1
LockRow(c) ==
  /\ child[c] = "walking" /\ database
  /\ \E t \in Task :
       /\ NextRow(c, t) /\ TakesRow(c, t)
       /\ locked' = [locked EXCEPT ![c] = t]
  /\ rows' = [rows EXCEPT ![c] = {}]
  /\ Become(c, "updating")
  /\ UNCHANGED <<vars, coordinator, database, began, answer, printed, faults, time>>

SkipRow(c) ==
  /\ child[c] = "walking" /\ database
  /\ \E t \in Task :
       /\ NextRow(c, t) /\ ~TakesRow(c, t)
       /\ rows' = [rows EXCEPT ![c] = @ \ {t}]
  /\ UNCHANGED <<vars, coordinator, database, child, locked, began, answer, printed, faults, time>>

\* ErrNoRows: ClaimNext returns nil and the process is done.
FaultyAfterNothing == "idle"
AfterNothing == "exited"

FindNothing(c) ==
  /\ child[c] = "walking" /\ database
  /\ rows[c] = {}
  /\ Become(c, AfterNothing)
  /\ began' = [began EXCEPT ![c] = 0]
  /\ UNCHANGED <<vars, coordinator, database, rows, locked, answer, printed, faults, time>>

\* UPDATE tasks ... WHERE id = $1: whatever the row is like, if it is locked.
UpdateRow(c, t, age) ==
  /\ ownership_version[t] < MaxVersion
  /\ status' = [status EXCEPT ![t] = "claimed"]
  /\ claimed_by' = [claimed_by EXCEPT ![t] = c]
  /\ ownership_version' = [ownership_version EXCEPT ![t] = NextToken(t)]
  /\ lease_left' = [lease_left EXCEPT ![t] = NewLease(age)]
  /\ UNCHANGED <<current_step, step_status, step_log, victims>>

CommitRow(c) ==
  /\ child[c] = "updating" /\ database
  /\ UpdateRow(c, locked[c], began[c])
  /\ locked' = [locked EXCEPT ![c] = NoTask]
  /\ began' = [began EXCEPT ![c] = 0]
  /\ UNCHANGED <<coordinator, database, rows, printed, time>>

CommitClaim(c) ==
  /\ CommitRow(c)
  /\ Become(c, "answered")
  /\ answer' = [answer EXCEPT ![c] = locked[c]]
  /\ UNCHANGED faults

\* fmt.Println(claimed.ID)
PrintClaim(c) ==
  /\ child[c] = "answered"
  /\ printed' = [printed EXCEPT ![c][answer[c]] = @ + 1]
  /\ answer' = [answer EXCEPT ![c] = NoTask]
  /\ Become(c, "idle")
  /\ UNCHANGED <<vars, coordinator, database, transaction, faults, time>>

-----------------------------------------------------------------------------
(* What can go wrong *)

Fault == faults < MaxFaults /\ faults' = faults + 1

\* os.Exit(1)
FaultyAfterError == "exited"
AfterError == "failed"

\* A statement fails, or all of them once the database is gone, or the process
\* is killed. The transaction is rolled back.
Fail(c) ==
  /\ child[c] \in Running
  /\ Fault \/ (~database /\ child[c] # "answered" /\ UNCHANGED faults)
  /\ Become(c, AfterError)
  /\ rows' = [rows EXCEPT ![c] = {}]
  /\ locked' = [locked EXCEPT ![c] = NoTask]
  /\ began' = [began EXCEPT ![c] = 0]
  /\ answer' = [answer EXCEPT ![c] = NoTask]
  /\ UNCHANGED <<vars, coordinator, database, printed, time>>

CommitAnswerLost(c) ==
  /\ CommitRow(c)
  /\ Fault
  /\ Become(c, AfterError)
  /\ UNCHANGED answer

Child(c) ==
  \/ Begin(c) \/ Select(c) \/ LockRow(c) \/ SkipRow(c) \/ FindNothing(c)
  \/ CommitClaim(c) \/ PrintClaim(c)

-----------------------------------------------------------------------------
(* runCoordinator *)

Return(r) == at' = "dropping" /\ result' = r

\* CREATE DATABASE, Open and Migrate
CreateDatabase ==
  /\ at = "creating"
  /\ database' = TRUE
  /\ at' = "seeding"
  /\ UNCHANGED <<vars, index, result, child, transaction, answer, printed, faults, time>>

SeedTask ==
  /\ at = "seeding" /\ index \in Task
  /\ CreateTask(index, 1)
  /\ index' = index + 1
  /\ UNCHANGED <<at, result, database, child, transaction, answer, printed, faults, time>>

EndSeeding ==
  /\ at = "seeding" /\ index \notin Task
  /\ at' = "starting" /\ index' = 1
  /\ UNCHANGED <<vars, result, database, child, transaction, answer, printed, faults, time>>

StartChild ==
  /\ at = "starting" /\ index \in Worker
  /\ Become(index, "idle")
  /\ index' = index + 1
  /\ UNCHANGED <<vars, at, result, database, transaction, answer, printed, faults, time>>

EndStarting ==
  /\ at = "starting" /\ index \notin Worker
  /\ at' = "waiting" /\ index' = 1
  /\ UNCHANGED <<vars, result, database, child, transaction, answer, printed, faults, time>>

\* command.Wait, process by process; the first that failed ends the race.
WaitChild ==
  /\ at = "waiting" /\ index \in Worker
  /\ \/ child[index] = "exited" /\ index' = index + 1 /\ UNCHANGED <<at, result>>
     \/ child[index] = "failed" /\ Return("error") /\ UNCHANGED index
  /\ UNCHANGED <<vars, database, child, transaction, answer, printed, faults, time>>

\* claims[taskID]
PrintedOnce(t) ==
  \E c \in Worker : printed[c][t] = 1 /\ \A d \in Worker \ {c} : printed[d][t] = 0

\* duplicates == 0 && totalClaims == tasks && len(claims) == tasks
FaultyPasses == \A t \in Task : \E c \in Worker : printed[c][t] > 0
Passes == \A t \in Task : PrintedOnce(t)

Judge ==
  /\ at = "waiting" /\ index \notin Worker
  /\ Return(IF Passes THEN "pass" ELSE "assertions")
  /\ UNCHANGED <<vars, index, database, child, transaction, answer, printed, faults, time>>

\* Any of the calls before the wait fails; processes that were started are left
\* behind. A failing CREATE DATABASE comes before the DROP is deferred.
CoordinatorFails ==
  /\ Fault
  /\ at \in {"creating", "seeding", "starting"}
  /\ result' = "error"
  /\ at' \in (IF at = "creating" THEN {"ended", "dropping"} ELSE {"dropping"})
  /\ database' = (at' = "dropping")
  /\ UNCHANGED <<vars, index, child, transaction, answer, printed, time>>

\* DROP DATABASE ... WITH (FORCE) ends the sessions of the processes that are
\* left. Its error is ignored.
DropDatabase ==
  /\ at = "dropping"
  /\ at' = "ended"
  /\ \/ /\ database' = FALSE
        /\ locked' = [c \in Worker |-> NoTask]
        /\ UNCHANGED faults
     \/ Fault /\ UNCHANGED <<database, locked>>
  /\ UNCHANGED <<vars, index, result, child, rows, began, answer, printed, time>>

Coordinate ==
  \/ CreateDatabase \/ SeedTask \/ EndSeeding \/ StartChild \/ EndStarting
  \/ WaitChild \/ Judge \/ DropDatabase

\* Time passes for the leases, and for the transactions that are under way.
RaceTick ==
  /\ time < MaxTime
  /\ \A c \in Worker : child[c] \in InTransaction => began[c] < MaxAge
  /\ Tick
  /\ time' = time + 1
  /\ began' = [c \in Worker |-> IF child[c] \in InTransaction THEN began[c] + 1 ELSE began[c]]
  /\ UNCHANGED <<coordinator, database, child, rows, locked, answer, printed, faults>>

RaceNext ==
  \/ Coordinate \/ CoordinatorFails
  \/ \E c \in Worker : Child(c) \/ Fail(c) \/ CommitAnswerLost(c)
  \/ RaceTick

RaceSpec == RaceInit /\ [][RaceNext]_raceVars

(* The coordinator and the processes run, and PostgreSQL answers them; a process
   whose database is gone gets its error. *)
FairRaceSpec ==
  /\ RaceSpec
  /\ WF_raceVars(Coordinate)
  /\ \A c \in Worker :
       /\ WF_raceVars(Child(c))
       /\ WF_raceVars(~database /\ Fail(c))

-----------------------------------------------------------------------------
(* Properties *)

(* The verdict tells what happened in the table: PASS means that every task was
   handed out exactly once, and the assertions fail only if some task really
   had a second owner, because its lease of an hour ran out during the race.
   In particular no task is left over when all processes have found nothing to
   claim: what one of them skipped as locked is committed by the other or shows
   as its error. *)
VerdictIsTrue ==
  /\ result = "pass" => \A t \in Task : ownership_version[t] = 1
  /\ result = "assertions" => \E t \in Task : ownership_version[t] > 1

(* The statements of ClaimNext, interleaved with those of other claims, come
   down to TaskStore's ClaimNext: at the commit the task is still claimable,
   though the query chose it from an older snapshot. *)
RaceImplementsStore == Spec

(* The inductive invariant behind it: a row has one process that has locked it,
   and stays claimable for that process until it commits. *)
LockedRows ==
  /\ \A c \in Worker : locked[c] # NoTask =>
       /\ child[c] = "updating"
       /\ Claimable(locked[c], began[c])
       /\ \A d \in Worker \ {c} : locked[d] # locked[c]
  /\ \A c \in Worker : child[c] = "updating" /\ database => locked[c] # NoTask

NotStarted ==
  /\ at \in {"creating", "seeding"} => \A c \in Worker : child[c] = "unstarted"
  /\ at = "starting" => \A c \in Worker : c >= index => child[c] = "unstarted"
  /\ at \in {"seeding", "starting", "waiting", "dropping"} => database

RaceIInv ==
  /\ RaceTypeOK
  /\ LockedRows
  /\ NotStarted
  /\ \A c \in Worker : child[c] = "answered" => answer[c] \in Task

(* The inductive invariant behind VerdictIsTrue. *)

\* What each process has claimed of a task and printed, or been told of.
Held(t) == [c \in Worker |-> printed[c][t] + (IF answer[c] = t THEN 1 ELSE 0)]
NoneHolds(held) == \A c \in Worker : held[c] = 0
OneHolds(held) == \E c \in Worker : held[c] = 1 /\ \A d \in Worker \ {c} : held[d] = 0

NobodyFailed == \A c \in Worker : child[c] # "failed"

AnswersHeld == \A c \in Worker : child[c] # "answered" => answer[c] = NoTask

\* The tasks are there when the processes start, and are claimed by them only.
Seeded ==
  /\ \A t \in Task : /\ status[t] \in {"absent", "pending", "claimed"}
                     /\ status[t] = "claimed" <=> ownership_version[t] > 0
  /\ at = "creating" => index = 1
  /\ at = "seeding" => \A t \in Task : t < index => status[t] # "absent"
  /\ at \in {"starting", "waiting"} => \A t \in Task : status[t] # "absent"

\* If no answer was lost, the processes hold as many claims as were committed.
ClaimsHeld ==
  NobodyFailed => \A t \in Task :
    /\ ownership_version[t] = 0 <=> NoneHolds(Held(t))
    /\ ownership_version[t] = 1 <=> OneHolds(Held(t))

\* A process has passed a pending task over only if another one has locked it;
\* that one commits or fails.
PassedOver(c) == IF child[c] = "walking" THEN Task \ rows[c] ELSE Task
NothingLeftOut ==
  at # "ended" /\ NobodyFailed =>
    \A c \in Worker : child[c] \in {"walking", "exited"} =>
      \A t \in PassedOver(c) : status[t] = "pending" => \E d \in Worker : locked[d] = t

WaitedFor ==
  /\ at = "waiting" => \A c \in Worker : c < index => child[c] = "exited"
  /\ result \in {"pass", "assertions"} => \A c \in Worker : child[c] = "exited"

VerdictIInv ==
  AnswersHeld /\ Seeded /\ ClaimsHeld /\ NothingLeftOut /\ WaitedFor /\ VerdictIsTrue

(* The race comes to an end: the coordinator does not wait for ever, and the
   processes it leaves behind when it gives up end as well. *)
RaceEnds == <>(at = "ended" /\ \A c \in Worker : child[c] \notin Running)
=============================================================================
