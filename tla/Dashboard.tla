------------------------------- MODULE Dashboard -------------------------------
(***************************************************************************)
(* The dashboard: internal/httpapi/web/app.js polls a page of the task     *)
(* list, Store.ListTasks reads it with three statements outside a          *)
(* transaction, and the tasks go on in between. TaskLifecycle stands for   *)
(* the table (TaskStore implements it).                                    *)
(***************************************************************************)
EXTENDS TaskLifecycle, FiniteSets

CONSTANTS
  Request,    \* calls of GET /api/tasks that can be under way
  PageSize,   \* taskPageSize
  MaxToken,   \* bound on the hand-overs of a task
  MaxChanges, \* bound on what happens to the tasks
  MaxClicks,  \* bound on the clicks of the user
  MaxFaults   \* bound on the calls that fail

(* Task ids are numbers: the list is ordered by them. *)
ASSUME DashboardConstants ==
  /\ Task \subseteq Nat /\ IsFiniteSet(Task)
  /\ MaxSteps \in Nat
  /\ Request \subseteq Nat
  /\ PageSize \in Nat \ {0}
  /\ MaxToken \in Nat /\ MaxChanges \in Nat /\ MaxClicks \in Nat /\ MaxFaults \in Nat

VARIABLES
  taskOffset,    \* the page the user wants
  isRefreshing,
  submitting,    \* a POST /api/tasks is committed and not answered yet
  shown,         \* the page on the screen
  drawn,         \* there is one
  stage,         \* the statement of ListTasks each call is at
  reading,       \* the page each call has read so far
  changes,
  clicks,
  faults

browser == <<taskOffset, isRefreshing, submitting, shown, drawn>>
calls == <<stage, reading>>
dashboardVars == <<vars, browser, calls, changes, clicks, faults>>

-----------------------------------------------------------------------------
(* What ListTasks reads *)

\* ORDER BY t.id DESC LIMIT PageSize OFFSET offset, as the set of its ids
Listed == {t \in Task : phase[t] \notin {"absent", "deleted"}}
Above(t) == Cardinality({u \in Listed : u > t})
Page(offset) == {t \in Listed : offset <= Above(t) /\ Above(t) < offset + PageSize}

(* A row of tasks: its status, its token and its current step, the first that
   is not done (StepsInOrder of TaskStore). *)
Current(t) ==
  IF todo[t] = {} THEN MaxSteps + 1 ELSE CHOOSE p \in todo[t] : \A q \in todo[t] : p <= q
Row(t) == [status |-> phase[t], token |-> token[t], current |-> Current(t)]

\* The answer: its offset, summary.total, the rows by id, and the steps of each
\* that are not done.
Answer(offset, total, rows, undone) ==
  [offset |-> offset, total |-> total, rows |-> rows, undone |-> undone]
Nothing == Answer(0, 0, <<>>, <<>>)

DashboardInit ==
  /\ Init
  /\ taskOffset = 0
  /\ isRefreshing = FALSE
  /\ submitting = FALSE
  /\ shown = Nothing
  /\ drawn = FALSE
  /\ stage = [r \in Request |-> "none"]
  /\ reading = [r \in Request |-> Nothing]
  /\ changes = 0
  /\ clicks = 0
  /\ faults = 0

ReadInto(r, answer, next) ==
  /\ reading' = [reading EXCEPT ![r] = answer]
  /\ stage' = [stage EXCEPT ![r] = next]
  /\ UNCHANGED <<vars, browser, changes, clicks, faults>>

Count(r) ==
  /\ stage[r] = "counting"
  /\ ReadInto(r, [reading[r] EXCEPT !.total = Cardinality(Listed)], "listing")

\* A page without tasks has no steps to ask for.
List(r) ==
  /\ stage[r] = "listing"
  /\ LET ids == Page(reading[r].offset) IN
       ReadInto(r, [reading[r] EXCEPT !.rows = [t \in ids |-> Row(t)]],
                IF ids = {} THEN "answering" ELSE "steps")

ReadSteps(r) ==
  /\ stage[r] = "steps"
  /\ ReadInto(r, [reading[r] EXCEPT !.undone = [t \in DOMAIN reading[r].rows |-> todo[t]]],
              "answering")

-----------------------------------------------------------------------------
(* refresh *)

FaultyMayRefresh == TRUE
MayRefresh == ~isRefreshing

\* Calls are told apart by number; the first number that is free is taken.
IsNextCall(r) == stage[r] = "none" /\ \A q \in Request : q < r => stage[q] # "none"

\* A refresh that is asked for while another is under way is dropped.
Refresh(offset) ==
  \/ /\ MayRefresh
     /\ isRefreshing' = TRUE
     /\ \E r \in Request :
          /\ IsNextCall(r)
          /\ stage' = [stage EXCEPT ![r] = "counting"]
          /\ reading' = [reading EXCEPT ![r] = Answer(offset, 0, <<>>, <<>>)]
  \/ ~MayRefresh /\ UNCHANGED <<isRefreshing, calls>>

\* The page beyond the end is the last one instead.
Clamped(answer) == ((answer.total - 1) \div PageSize) * PageSize

\* finally, of a refresh that failed
FaultyAfterError == isRefreshing
AfterError == FALSE

Forget(r) ==
  /\ stage' = [stage EXCEPT ![r] = "none"]
  /\ reading' = [reading EXCEPT ![r] = Nothing]

Render(r) ==
  /\ stage[r] = "answering"
  /\ shown' = reading[r] /\ drawn' = TRUE
  /\ taskOffset' = IF reading[r].total > 0 /\ reading[r].offset >= reading[r].total
                     THEN Clamped(reading[r]) ELSE taskOffset
  /\ isRefreshing' = FALSE
  /\ Forget(r)
  /\ UNCHANGED <<vars, submitting, changes, clicks, faults>>

\* One of the two calls of Promise.all fails: whatever the other answers is
\* not looked at, and the page stays as it was.
RefreshFails(r) ==
  /\ stage[r] # "none"
  /\ faults < MaxFaults /\ faults' = faults + 1
  /\ isRefreshing' = AfterError
  /\ Forget(r)
  /\ UNCHANGED <<vars, taskOffset, submitting, shown, drawn, changes, clicks>>

-----------------------------------------------------------------------------
(* Who refreshes *)

\* setInterval(refresh, 1000), the button, and the end of a cancellation, a
\* demonstration or a report
Poll ==
  /\ Refresh(taskOffset)
  /\ UNCHANGED <<vars, taskOffset, submitting, shown, drawn, changes, clicks, faults>>

ClickTo(offset) ==
  /\ clicks < MaxClicks /\ clicks' = clicks + 1
  /\ taskOffset' = offset
  /\ Refresh(offset)
  /\ UNCHANGED <<vars, submitting, shown, drawn, changes, faults>>

\* The buttons are enabled until the first page is drawn.
PreviousPage ==
  /\ drawn => shown.offset # 0
  /\ ClickTo(IF taskOffset < PageSize THEN 0 ELSE taskOffset - PageSize)

NextPage ==
  /\ drawn => shown.offset + PageSize < shown.total
  /\ ClickTo(taskOffset + PageSize)

Changed == changes < MaxChanges /\ changes' = changes + 1

SubmitForm ==
  /\ Changed
  /\ ~submitting /\ submitting' = TRUE
  /\ \E t \in Task, n \in 1..MaxSteps : Submit(t, n)
  /\ UNCHANGED <<taskOffset, isRefreshing, shown, drawn, calls, clicks, faults>>

FormAnswered ==
  /\ submitting /\ submitting' = FALSE
  /\ taskOffset' = 0
  /\ Refresh(0)
  /\ UNCHANGED <<vars, shown, drawn, changes, clicks, faults>>

\* The answer to the form is lost: an error message, the dialog stays open.
FormFails ==
  /\ submitting /\ submitting' = FALSE
  /\ faults < MaxFaults /\ faults' = faults + 1
  /\ UNCHANGED <<vars, taskOffset, isRefreshing, shown, drawn, calls, changes, clicks>>

\* Workers, other users and the retention job
Elsewhere ==
  /\ <<Next>>_vars /\ Changed
  /\ \A t \in Task : token'[t] <= MaxToken
  /\ UNCHANGED <<browser, calls, clicks, faults>>

\* (Wrong: the steps are read before the rows.)
StepsFirst(r) ==
  /\ stage[r] = "listing"
  /\ LET ids == Page(reading[r].offset) IN
       ReadInto(r, [reading[r] EXCEPT !.undone = [t \in ids |-> todo[t]]], "steps")
RowsLast(r) ==
  /\ stage[r] = "steps"
  /\ ReadInto(r, [reading[r] EXCEPT !.rows = [t \in DOMAIN reading[r].undone |-> Row(t)]],
              "answering")
FaultyServe(r) == Count(r) \/ StepsFirst(r) \/ RowsLast(r) \/ Render(r)

Serve(r) == Count(r) \/ List(r) \/ ReadSteps(r) \/ Render(r)

DashboardNext ==
  \/ \E r \in Request : Serve(r) \/ RefreshFails(r)
  \/ Poll \/ PreviousPage \/ NextPage \/ SubmitForm \/ FormAnswered \/ FormFails
  \/ Elsewhere

(* The timer goes on, and every call is answered or fails: the server ends a
   response after WriteTimeout. *)
DashboardFairness ==
  /\ WF_dashboardVars(Poll)
  /\ WF_dashboardVars(FormAnswered)
  /\ \A r \in Request : WF_dashboardVars(Serve(r))

DashboardSpec == DashboardInit /\ [][DashboardNext]_dashboardVars /\ DashboardFairness

-----------------------------------------------------------------------------
(* Properties *)

(* ListTasks reads the steps after the rows, outside a transaction, and what it
   puts together is torn but never contradicts itself: the steps before the
   current one are done, and a task shown as done has no other step. A task that
   was deleted in between is shown without steps. *)
StepsFitTheirTask ==
  \A t \in DOMAIN shown.rows :
    /\ \A p \in shown.undone[t] : p >= shown.rows[t].current
    /\ shown.rows[t].status = "done" => shown.undone[t] = {}

(* The page never takes back what it has shown of a task: a later page has no
   smaller token and no step undone again, though answers may be slow, fail, or
   be asked for by the timer, a button and a form at once. *)
NeverGoesBack ==
  [][\A t \in DOMAIN shown.rows \cap DOMAIN shown'.rows :
       /\ shown'.rows[t].token >= shown.rows[t].token
       /\ shown'.undone[t] \subseteq shown.undone[t]]_dashboardVars

(* The inductive invariant behind these two. The steps of a task are done from
   the first on (Remaining). What was read of a task, on the screen or by a call
   under way, is behind the table, because the table only goes forward
   (RowsBehind, StepsBehind); the steps of a call are read after its rows, so
   they fit them (Fits). There is one call at a time (OneCall), so the screen is
   still the one it found when its answer comes (NewerRows, NewerSteps). *)
Remaining ==
  /\ phase \in [Task -> Phase]
  /\ token \in [Task -> Nat]
  /\ todo \in [Task -> SUBSET (1..MaxSteps)]
  /\ \A t \in Task :
       /\ \E p \in 1..(MaxSteps + 1), n \in 0..MaxSteps : todo[t] = p..n
       /\ phase[t] = "done" => todo[t] = {}

RowsBehind(answer) ==
  \A t \in DOMAIN answer.rows :
    /\ t \in Task /\ phase[t] # "absent"
    /\ answer.rows[t].token \in 0..token[t]
    /\ \A p \in todo[t] : p >= answer.rows[t].current
    /\ answer.rows[t].status = "done" => todo[t] = {}

StepsBehind(answer) == \A t \in DOMAIN answer.rows : todo[t] \subseteq answer.undone[t]

Fits(answer) ==
  \A t \in DOMAIN answer.rows :
    /\ \A p \in answer.undone[t] : p >= answer.rows[t].current
    /\ answer.rows[t].status = "done" => answer.undone[t] = {}

NewerRows(answer) ==
  \A t \in DOMAIN shown.rows \cap DOMAIN answer.rows :
    answer.rows[t].token >= shown.rows[t].token

NewerSteps(answer) ==
  \A t \in DOMAIN shown.rows \cap DOMAIN answer.rows :
    answer.undone[t] \subseteq shown.undone[t]

OneCall ==
  \A r \in Request : stage[r] # "none" =>
    isRefreshing /\ \A q \in Request : stage[q] # "none" => q = r

ReadSoFar(r) ==
  /\ reading[r] = Answer(reading[r].offset, reading[r].total, reading[r].rows, reading[r].undone)
  /\ stage[r] \in {"counting", "listing"} => reading[r].rows = <<>>
  /\ stage[r] \in {"steps", "answering"} => RowsBehind(reading[r]) /\ NewerRows(reading[r])
  /\ stage[r] = "answering" =>
       StepsBehind(reading[r]) /\ Fits(reading[r]) /\ NewerSteps(reading[r])

DashboardIInv ==
  /\ Remaining
  /\ stage \in [Request -> {"none", "counting", "listing", "steps", "answering"}]
  /\ DOMAIN reading = Request
  /\ OneCall
  /\ RowsBehind(shown) /\ StepsBehind(shown) /\ Fits(shown)
  /\ \A r \in Request : ReadSoFar(r)

(* When the tasks come to rest and the user stops clicking, the screen comes to
   show a page that exists as it is in the table, whatever answers to earlier
   refreshes did to taskOffset, which refreshes were dropped or failed, and how
   many tasks the retention job took away. *)
ShowsTable ==
  /\ shown.offset = taskOffset
  /\ Listed # {} => taskOffset < Cardinality(Listed)
  /\ shown.total = Cardinality(Listed)
  /\ shown.rows = [t \in Page(taskOffset) |-> Row(t)]
  /\ shown.undone = [t \in Page(taskOffset) |-> todo[t]]

PageSettles == <>[]ShowsTable
=============================================================================
