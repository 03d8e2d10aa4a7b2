-------------------------- MODULE Dashboard_proofs --------------------------
(***************************************************************************)
(* Proofs about Dashboard, for any number of tasks, calls and changes, and *)
(* pages of any size.                                                      *)
(***************************************************************************)
EXTENDS Dashboard, TLAPS

-----------------------------------------------------------------------------
(* The page changes tasks by Submit only; everybody else as TaskLifecycle says. *)

LEMMA LifecycleNext == [DashboardNext]_dashboardVars => [Next]_vars
<1> SUFFICES ASSUME [DashboardNext]_dashboardVars PROVE [Next]_vars
  OBVIOUS
<1>1. ASSUME NEW r \in Request, Serve(r) \/ RefreshFails(r) PROVE UNCHANGED vars
  BY <1>1 DEF Serve, RefreshFails, Count, List, ReadSteps, Render, ReadInto
<1>2. CASE Poll \/ PreviousPage \/ NextPage \/ FormAnswered \/ FormFails
  BY <1>2 DEF Poll, PreviousPage, NextPage, FormAnswered, FormFails, ClickTo
<1>3. CASE SubmitForm
  BY <1>3 DEF SubmitForm, Next
<1>4. CASE Elsewhere
  BY <1>4 DEF Elsewhere
<1>5. CASE UNCHANGED dashboardVars
  BY <1>5 DEF dashboardVars
<1> QED
  BY <1>1, <1>2, <1>3, <1>4, <1>5 DEF DashboardNext

(* Whatever the page does, the tasks under it behave as TaskLifecycle says. *)
THEOREM DashboardImplementsLifecycle == DashboardSpec => Spec
<1>1. DashboardInit => Init
  BY DEF DashboardInit
<1> QED
  BY <1>1, LifecycleNext, PTL DEF DashboardSpec, Spec

-----------------------------------------------------------------------------
(* The table goes forward. *)

\* What the tasks that exist do in one step, seen by somebody who read them.
Forward ==
  \A t \in Task : phase[t] # "absent" =>
    /\ phase'[t] # "absent"
    /\ token'[t] >= token[t]
    /\ todo'[t] \subseteq todo[t]

LEMMA RemainingInit == Init => Remaining
<1> SUFFICES ASSUME Init PROVE Remaining
  OBVIOUS
<1>1. 1..0 = {} /\ 1 \in 1..(MaxSteps + 1) /\ 0 \in 0..MaxSteps
  BY DashboardConstants
<1>2. \E p \in 1..(MaxSteps + 1), n \in 0..MaxSteps : {} = p..n
  BY <1>1
<1> QED
  BY <1>2 DEF Init, Remaining, Phase

\* The steps to do after the first of them is done.
LEMMA FirstRemoved ==
  ASSUME NEW a \in 1..(MaxSteps + 1), NEW n \in 0..MaxSteps, NEW p \in a..n,
         \A q \in a..n : p <= q
  PROVE  /\ (a..n) \ {p} = (a + 1)..n
         /\ a + 1 \in 1..(MaxSteps + 1)
<1>1. p = a
  BY DashboardConstants
<1> QED
  BY <1>1, DashboardConstants

LEMMA SucceedForward ==
  ASSUME Remaining, NEW t \in Task, Succeed(t)
  PROVE  Remaining' /\ Forward
<1>1. PICK p \in todo[t] :
        /\ \A q \in todo[t] : p <= q
        /\ todo' = [todo EXCEPT ![t] = @ \ {p}]
        /\ phase' = [phase EXCEPT ![t] = IF todo[t] = {p} THEN "done" ELSE "owned"]
  BY DEF Succeed
<1>2. PICK a \in 1..(MaxSteps + 1), n \in 0..MaxSteps : todo[t] = a..n
  BY DEF Remaining
<1>3. (a..n) \ {p} = (a + 1)..n /\ a + 1 \in 1..(MaxSteps + 1)
  BY <1>1, <1>2, FirstRemoved
<1>4. todo'[t] = todo[t] \ {p} /\ \A u \in Task \ {t} : todo'[u] = todo[u]
  BY <1>1 DEF Remaining
<1>5. /\ phase' \in [Task -> Phase] /\ token' = token
      /\ phase'[t] \in {"done", "owned"} /\ (phase'[t] = "done" => todo[t] = {p})
      /\ \A u \in Task \ {t} : phase'[u] = phase[u]
  BY <1>1 DEF Succeed, Remaining, Phase
<1>6. todo' \in [Task -> SUBSET (1..MaxSteps)]
  BY <1>1, <1>4 DEF Remaining
<1>7. phase'[t] = "done" => todo'[t] = {}
  BY <1>4, <1>5
<1>8. \A u \in Task :
        /\ \E i \in 1..(MaxSteps + 1), j \in 0..MaxSteps : todo'[u] = i..j
        /\ phase'[u] = "done" => todo'[u] = {}
  <2>1. todo'[t] = (a + 1)..n
    BY <1>2, <1>3, <1>4
  <2> QED
    BY <1>3, <1>4, <1>5, <1>7, <2>1 DEF Remaining
<1>9. Remaining'
  BY <1>5, <1>6, <1>8 DEF Remaining
<1>10. Forward
  BY <1>4, <1>5 DEF Forward, Remaining
<1> QED
  BY <1>9, <1>10

LEMMA DeleteForward ==
  ASSUME Remaining, NEW T \in SUBSET Task, Delete(T)
  PROVE  Remaining' /\ Forward
<1>1. 1..0 = {} /\ 1 \in 1..(MaxSteps + 1) /\ 0 \in 0..MaxSteps
  BY DashboardConstants
<1>2. \A u \in Task : \E p \in 1..(MaxSteps + 1), n \in 0..MaxSteps : todo'[u] = p..n
  BY <1>1 DEF Delete, Remaining
<1>3. /\ phase' \in [Task -> Phase] /\ token' = token
      /\ todo' \in [Task -> SUBSET (1..MaxSteps)]
      /\ \A u \in Task : phase'[u] = "done" => todo'[u] = {}
  BY DEF Delete, Remaining, Phase
<1>4. Remaining'
  BY <1>2, <1>3 DEF Remaining
<1>5. Forward
  BY <1>3 DEF Forward, Remaining, Delete
<1> QED
  BY <1>4, <1>5

LEMMA LifecycleForward ==
  ASSUME Remaining, [Next]_vars
  PROVE  Remaining' /\ Forward
<1>1. ASSUME NEW t \in Task, NEW n \in 1..MaxSteps, Submit(t, n) PROVE Remaining' /\ Forward
  <2>1. 1 \in 1..(MaxSteps + 1) /\ n \in 0..MaxSteps /\ 1..n \subseteq 1..MaxSteps
    BY DashboardConstants
  <2>2. todo'[t] = 1..n /\ phase'[t] = "waiting" /\ token' = token
        /\ \A u \in Task \ {t} : todo'[u] = todo[u] /\ phase'[u] = phase[u]
    BY <1>1 DEF Submit, Remaining
  <2>3. phase' \in [Task -> Phase] /\ todo' \in [Task -> SUBSET (1..MaxSteps)]
    BY <1>1, <2>1 DEF Submit, Remaining, Phase
  <2>4. Remaining'
    BY <2>1, <2>2, <2>3 DEF Remaining
  <2>5. Forward
    BY <1>1, <2>2 DEF Forward, Remaining, Submit
  <2> QED
    BY <2>4, <2>5
<1>2. ASSUME NEW t \in Task, NEW w \in Worker, HandOver(t, w) PROVE Remaining' /\ Forward
  BY <1>2 DEF HandOver, Remaining, Forward, Phase
<1>3. ASSUME NEW t \in Task, Fail(t) \/ Cancel(t) PROVE Remaining' /\ Forward
  BY <1>3 DEF Fail, Cancel, Remaining, Forward, Phase
<1>4. CASE UNCHANGED vars
  BY <1>4 DEF vars, Remaining, Forward
<1> QED
  BY <1>1, <1>2, <1>3, <1>4, SucceedForward, DeleteForward DEF Next

-----------------------------------------------------------------------------
(* What was read stays behind the table. *)

LEMMA CurrentIsFirst ==
  ASSUME Remaining, NEW t \in Task
  PROVE  \A p \in todo[t] : p >= Current(t)
<1>1. PICK a \in 1..(MaxSteps + 1), n \in 0..MaxSteps : todo[t] = a..n
  BY DEF Remaining
<1>2. CASE a..n = {}
  BY <1>1, <1>2
<1>3. CASE a..n # {}
  <2>1. a \in a..n /\ \A q \in a..n : a <= q
    BY <1>3, DashboardConstants
  <2>2. Current(t) = CHOOSE p \in a..n : \A q \in a..n : p <= q
    BY <1>1, <1>3 DEF Current
  <2>3. Current(t) \in a..n /\ \A q \in a..n : Current(t) <= q
    BY <2>1, <2>2
  <2> QED
    BY <1>1, <2>3, DashboardConstants
<1> QED
  BY <1>2, <1>3

LEMMA RowIsBehind ==
  ASSUME Remaining, NEW t \in Task
  PROVE  /\ Row(t).token = token[t] /\ token[t] \in Nat
         /\ \A p \in todo[t] : p >= Row(t).current
         /\ Row(t).status = "done" => todo[t] = {}
BY CurrentIsFirst DEF Row, Remaining

LEMMA ShownKept ==
  ASSUME Remaining, Remaining', Forward, shown' = shown,
         RowsBehind(shown), StepsBehind(shown), Fits(shown)
  PROVE  RowsBehind(shown)' /\ StepsBehind(shown)' /\ Fits(shown)'
<1>1. RowsBehind(shown)'
  BY DEF RowsBehind, Forward, Remaining
<1>2. StepsBehind(shown)'
  BY DEF RowsBehind, StepsBehind, Forward
<1>3. Fits(shown)'
  BY DEF Fits
<1> QED
  BY <1>1, <1>2, <1>3

\* A call that does not go on, while the page on the screen stays.
LEMMA ReadingKept ==
  ASSUME Remaining, Remaining', Forward, NEW r \in Request, ReadSoFar(r),
         shown' = shown, stage'[r] = stage[r], reading'[r] = reading[r]
  PROVE  ReadSoFar(r)'
<1>1. RowsBehind(reading[r]) => RowsBehind(reading[r])'
  BY DEF RowsBehind, Forward, Remaining
<1>2. RowsBehind(reading[r]) /\ StepsBehind(reading[r]) => StepsBehind(reading[r])'
  BY DEF RowsBehind, StepsBehind, Forward
<1>3. Fits(reading[r]) => Fits(reading[r])'
  BY DEF Fits
<1>4. /\ NewerRows(reading[r]) => NewerRows(reading[r])'
      /\ NewerSteps(reading[r]) => NewerSteps(reading[r])'
  BY DEF NewerRows, NewerSteps
<1>5. (reading[r] = Answer(reading[r].offset, reading[r].total, reading[r].rows, reading[r].undone))'
  BY DEF ReadSoFar, Answer
<1> QED
  BY <1>1, <1>2, <1>3, <1>4, <1>5 DEF ReadSoFar

-----------------------------------------------------------------------------
(* The inductive invariant *)

LEMMA DashboardIInvInit == DashboardInit => DashboardIInv
<1> SUFFICES ASSUME DashboardInit PROVE DashboardIInv
  OBVIOUS
<1>1. Remaining
  BY RemainingInit DEF DashboardInit
<1>2. DOMAIN shown.rows = {} /\ shown = Nothing
  BY DEF DashboardInit, Nothing, Answer
<1>3. RowsBehind(shown) /\ StepsBehind(shown) /\ Fits(shown)
  BY <1>2 DEF RowsBehind, StepsBehind, Fits
<1>4. \A r \in Request : ReadSoFar(r)
  BY DEF DashboardInit, ReadSoFar, Nothing, Answer
<1>5. OneCall /\ stage \in [Request -> {"none", "counting", "listing", "steps", "answering"}]
      /\ DOMAIN reading = Request
  BY DEF DashboardInit, OneCall
<1> QED
  BY <1>1, <1>3, <1>4, <1>5 DEF DashboardIInv

\* A step of the tasks, or of nobody, that the page does not see.
LEMMA UnseenKeeps ==
  ASSUME DashboardIInv, [Next]_vars, UNCHANGED <<isRefreshing, shown, calls>>
  PROVE  DashboardIInv'
<1>1. Remaining' /\ Forward
  BY LifecycleForward DEF DashboardIInv
<1>2. stage' = stage /\ reading' = reading
  BY DEF calls
<1>3. RowsBehind(shown)' /\ StepsBehind(shown)' /\ Fits(shown)'
  BY <1>1, ShownKept DEF DashboardIInv
<1>4. \A r \in Request : ReadSoFar(r)'
  BY <1>1, <1>2, ReadingKept DEF DashboardIInv
<1>5. OneCall'
  BY <1>2 DEF DashboardIInv, OneCall
<1> QED
  BY <1>1, <1>2, <1>3, <1>4, <1>5 DEF DashboardIInv

\* The rest of the invariant when the tasks and the screen are left alone.
LEMMA SameTable ==
  ASSUME DashboardIInv, UNCHANGED vars, shown' = shown
  PROVE  /\ Remaining' /\ Forward
         /\ RowsBehind(shown)' /\ StepsBehind(shown)' /\ Fits(shown)'
<1>1. Remaining' /\ Forward
  BY LifecycleForward DEF DashboardIInv
<1> QED
  BY <1>1, ShownKept DEF DashboardIInv

\* One call goes on, begins or ends; the others and the screen stay.
LEMMA CallKeeps ==
  ASSUME DashboardIInv, UNCHANGED vars, shown' = shown, NEW r \in Request,
         NEW a, NEW s \in {"none", "counting", "listing", "steps", "answering"},
         reading' = [reading EXCEPT ![r] = a], stage' = [stage EXCEPT ![r] = s],
         ReadSoFar(r)', OneCall'
  PROVE  DashboardIInv'
<1>1. /\ Remaining' /\ Forward
      /\ RowsBehind(shown)' /\ StepsBehind(shown)' /\ Fits(shown)'
  BY SameTable
<1>2. \A q \in Request \ {r} : stage'[q] = stage[q] /\ reading'[q] = reading[q]
  BY DEF DashboardIInv
<1>3. \A q \in Request : ReadSoFar(q)'
  BY <1>1, <1>2, ReadingKept DEF DashboardIInv
<1> QED
  BY <1>1, <1>3 DEF DashboardIInv

LEMMA RefreshKeeps ==
  ASSUME DashboardIInv, NEW offset, Refresh(offset), UNCHANGED vars, shown' = shown
  PROVE  DashboardIInv'
<1>1. CASE UNCHANGED <<isRefreshing, calls>>
  BY <1>1, UnseenKeeps
<1>2. CASE MayRefresh /\ isRefreshing' = TRUE
  <2>1. PICK r \in Request :
          /\ stage' = [stage EXCEPT ![r] = "counting"]
          /\ reading' = [reading EXCEPT ![r] = Answer(offset, 0, <<>>, <<>>)]
    BY <1>1, <1>2 DEF Refresh, MayRefresh
  <2>2. \A q \in Request : stage[q] = "none"
    BY <1>2 DEF DashboardIInv, OneCall, MayRefresh
  <2>3. OneCall'
    BY <1>2, <2>1, <2>2 DEF OneCall, DashboardIInv
  <2>4. ReadSoFar(r)'
    BY <2>1 DEF ReadSoFar, Answer, DashboardIInv
  <2> QED
    BY <2>1, <2>3, <2>4, CallKeeps
<1> QED
  BY <1>1, <1>2 DEF Refresh

LEMMA ReadIntoOneCall ==
  ASSUME DashboardIInv, NEW r \in Request, stage[r] # "none", isRefreshing' = isRefreshing,
         \A q \in Request \ {r} : stage'[q] = stage[q]
  PROVE  OneCall'
BY DEF DashboardIInv, OneCall

LEMMA CountKeeps ==
  ASSUME DashboardIInv, NEW r \in Request, Count(r)
  PROVE  DashboardIInv'
<1> DEFINE a == [reading[r] EXCEPT !.total = Cardinality(Listed)]
<1>1. reading' = [reading EXCEPT ![r] = a] /\ stage' = [stage EXCEPT ![r] = "listing"]
      /\ UNCHANGED <<vars, browser>> /\ stage[r] = "counting"
  BY DEF Count, ReadInto
<1>2. reading'[r] = Answer(reading[r].offset, Cardinality(Listed), <<>>, reading[r].undone)
  BY <1>1 DEF DashboardIInv, ReadSoFar, Answer
<1>3. ReadSoFar(r)'
  BY <1>1, <1>2 DEF ReadSoFar, Answer, DashboardIInv
<1>4. OneCall'
  BY <1>1, ReadIntoOneCall DEF browser, DashboardIInv
<1> QED
  BY <1>1, <1>3, <1>4, CallKeeps DEF browser

LEMMA ListKeeps ==
  ASSUME DashboardIInv, NEW r \in Request, List(r)
  PROVE  DashboardIInv'
<1> DEFINE ids == Page(reading[r].offset)
           a == [reading[r] EXCEPT !.rows = [t \in ids |-> Row(t)]]
           s == IF ids = {} THEN "answering" ELSE "steps"
<1>1. reading' = [reading EXCEPT ![r] = a] /\ stage' = [stage EXCEPT ![r] = s]
      /\ UNCHANGED <<vars, browser>> /\ stage[r] = "listing"
  BY DEF List, ReadInto
<1>2. reading'[r] = Answer(reading[r].offset, reading[r].total, [t \in ids |-> Row(t)],
                           reading[r].undone)
  BY <1>1 DEF DashboardIInv, ReadSoFar, Answer
<1>3. reading'[r].rows = [t \in ids |-> Row(t)] /\ DOMAIN reading'[r].rows = ids
  BY <1>2 DEF Answer
<1>4. \A t \in ids : t \in Task /\ phase[t] # "absent"
  BY DEF Page, Listed
<1>5. Remaining /\ UNCHANGED <<phase, todo, token, shown>>
  BY <1>1 DEF DashboardIInv, vars, browser
<1>6. RowsBehind(reading[r])'
  BY <1>3, <1>4, <1>5, RowIsBehind DEF RowsBehind
<1>7. NewerRows(reading[r])'
  <2>1. \A t \in DOMAIN shown.rows \cap ids : Row(t).token >= shown.rows[t].token
    BY <1>4, <1>5, RowIsBehind DEF DashboardIInv, RowsBehind
  <2> QED
    BY <1>3, <1>5, <2>1 DEF NewerRows
<1>8. ids = {} => StepsBehind(reading[r])' /\ Fits(reading[r])' /\ NewerSteps(reading[r])'
  BY <1>3 DEF StepsBehind, Fits, NewerSteps
<1>9. stage'[r] = s /\ s \in {"steps", "answering"} /\ (s = "answering" => ids = {})
  BY <1>1 DEF DashboardIInv
<1>10. ReadSoFar(r)'
  BY <1>2, <1>6, <1>7, <1>8, <1>9 DEF ReadSoFar, Answer
<1>11. OneCall'
  BY <1>1, ReadIntoOneCall DEF browser, DashboardIInv
<1> QED
  BY <1>1, <1>5, <1>9, <1>10, <1>11, CallKeeps

LEMMA ReadStepsKeeps ==
  ASSUME DashboardIInv, NEW r \in Request, ReadSteps(r)
  PROVE  DashboardIInv'
<1> DEFINE rows == reading[r].rows
           a == [reading[r] EXCEPT !.undone = [t \in DOMAIN rows |-> todo[t]]]
<1>1. reading' = [reading EXCEPT ![r] = a] /\ stage' = [stage EXCEPT ![r] = "answering"]
      /\ UNCHANGED <<vars, browser>> /\ stage[r] = "steps"
  BY DEF ReadSteps, ReadInto
<1>2. reading'[r] = Answer(reading[r].offset, reading[r].total, rows, [t \in DOMAIN rows |-> todo[t]])
  BY <1>1 DEF DashboardIInv, ReadSoFar, Answer
<1>3. reading'[r].rows = rows /\ reading'[r].undone = [t \in DOMAIN rows |-> todo[t]]
  BY <1>2 DEF Answer
<1>4. Remaining /\ UNCHANGED <<phase, todo, token, shown>>
  BY <1>1 DEF DashboardIInv, vars, browser
<1>5. RowsBehind(reading[r]) /\ NewerRows(reading[r])
  BY <1>1 DEF DashboardIInv, ReadSoFar
<1>6. RowsBehind(reading[r])' /\ NewerRows(reading[r])'
  BY <1>3, <1>4, <1>5 DEF RowsBehind, NewerRows
<1>7. StepsBehind(reading[r])'
  BY <1>3, <1>4 DEF StepsBehind
<1>8. Fits(reading[r])'
  BY <1>3, <1>5 DEF Fits, RowsBehind
<1>9. NewerSteps(reading[r])'
  BY <1>3, <1>4 DEF NewerSteps, DashboardIInv, StepsBehind
<1>10. ReadSoFar(r)'
  BY <1>1, <1>2, <1>6, <1>7, <1>8, <1>9 DEF ReadSoFar, Answer, DashboardIInv
<1>11. OneCall'
  BY <1>1, ReadIntoOneCall DEF browser, DashboardIInv
<1> QED
  BY <1>1, <1>4, <1>10, <1>11, CallKeeps

\* The call that was under way is over.
LEMMA NoCall ==
  ASSUME DashboardIInv, NEW r \in Request, stage[r] # "none", Forget(r)
  PROVE  /\ \A q \in Request : stage'[q] = "none" /\ reading'[q] = IF q = r THEN Nothing ELSE reading[q]
         /\ stage' \in [Request -> {"none", "counting", "listing", "steps", "answering"}]
         /\ DOMAIN reading' = Request
         /\ OneCall' /\ \A q \in Request : ReadSoFar(q)'
<1>1. \A q \in Request : stage'[q] = "none"
  BY DEF DashboardIInv, OneCall, Forget
<1>2. \A q \in Request : reading'[q] = IF q = r THEN Nothing ELSE reading[q]
  BY DEF DashboardIInv, Forget
<1>3. /\ stage' \in [Request -> {"none", "counting", "listing", "steps", "answering"}]
      /\ DOMAIN reading' = Request
  BY DEF DashboardIInv, Forget
<1>4. \A q \in Request : ReadSoFar(q)'
  BY <1>1, <1>2 DEF DashboardIInv, ReadSoFar, Nothing, Answer
<1> QED
  BY <1>1, <1>2, <1>3, <1>4 DEF OneCall

LEMMA RenderKeeps ==
  ASSUME DashboardIInv, NEW r \in Request, Render(r)
  PROVE  DashboardIInv'
<1>1. stage[r] = "answering" /\ shown' = reading[r] /\ UNCHANGED vars /\ Forget(r)
  BY DEF Render
<1>2. RowsBehind(reading[r]) /\ StepsBehind(reading[r]) /\ Fits(reading[r])
  BY <1>1 DEF DashboardIInv, ReadSoFar
<1>3. Remaining'
  BY <1>1, LifecycleForward DEF DashboardIInv
<1>4. RowsBehind(shown)' /\ StepsBehind(shown)' /\ Fits(shown)'
  BY <1>1, <1>2 DEF RowsBehind, StepsBehind, Fits, vars
<1> QED
  BY <1>1, <1>3, <1>4, NoCall DEF DashboardIInv

LEMMA RefreshFailsKeeps ==
  ASSUME DashboardIInv, NEW r \in Request, RefreshFails(r)
  PROVE  DashboardIInv'
<1>1. stage[r] # "none" /\ shown' = shown /\ UNCHANGED vars /\ Forget(r)
  BY DEF RefreshFails
<1> QED
  BY <1>1, NoCall, SameTable DEF DashboardIInv

LEMMA DashboardIInvNext == DashboardIInv /\ [DashboardNext]_dashboardVars => DashboardIInv'
<1> SUFFICES ASSUME DashboardIInv, [DashboardNext]_dashboardVars PROVE DashboardIInv'
  OBVIOUS
<1>1. ASSUME NEW r \in Request, Serve(r) \/ RefreshFails(r) PROVE DashboardIInv'
  BY <1>1, CountKeeps, ListKeeps, ReadStepsKeeps, RenderKeeps, RefreshFailsKeeps DEF Serve
<1>2. CASE Poll
  BY <1>2, RefreshKeeps DEF Poll
<1>3. ASSUME NEW offset, ClickTo(offset) PROVE DashboardIInv'
  BY <1>3, RefreshKeeps DEF ClickTo
<1>4. CASE PreviousPage \/ NextPage
  BY <1>3, <1>4 DEF PreviousPage, NextPage
<1>5. CASE FormAnswered
  BY <1>5, RefreshKeeps DEF FormAnswered
<1>6. CASE SubmitForm \/ FormFails \/ Elsewhere \/ UNCHANGED dashboardVars
  <2>1. UNCHANGED <<isRefreshing, shown, calls>>
    BY <1>6 DEF SubmitForm, FormFails, Elsewhere, dashboardVars, browser
  <2> QED
    BY <2>1, LifecycleNext, UnseenKeeps
<1> QED
  BY <1>1, <1>2, <1>4, <1>5, <1>6 DEF DashboardNext

(* The inductive invariant: what was read of a task is behind the table, its
   steps fit its row, and one call at a time is under way. *)
THEOREM DashboardWellFormedAlways == DashboardSpec => []DashboardIInv
BY DashboardIInvInit, DashboardIInvNext, PTL DEF DashboardSpec

(* The torn read of ListTasks never contradicts itself: the steps before the
   current one are shown as done, and a done task with no other step. *)
THEOREM StepsFitTheirTaskAlways == DashboardSpec => []StepsFitTheirTask
<1>1. DashboardIInv => StepsFitTheirTask
  BY DEF DashboardIInv, Fits, StepsFitTheirTask
<1> QED
  BY <1>1, DashboardWellFormedAlways, PTL

(* The screen never takes back what it has shown of a task. *)
THEOREM NeverGoesBackAlways == DashboardSpec => NeverGoesBack
<1> DEFINE Kept == \A t \in DOMAIN shown.rows \cap DOMAIN shown'.rows :
                     /\ shown'.rows[t].token >= shown.rows[t].token
                     /\ shown'.undone[t] \subseteq shown.undone[t]
<1>1. DashboardIInv /\ [DashboardNext]_dashboardVars => [Kept]_dashboardVars
  <2> SUFFICES ASSUME DashboardIInv, [DashboardNext]_dashboardVars PROVE Kept
    OBVIOUS
  <2>1. CASE shown' = shown
    BY <2>1 DEF DashboardIInv, RowsBehind
  <2>2. ASSUME NEW r \in Request, Render(r) PROVE Kept
    <3>1. shown' = reading[r] /\ NewerRows(reading[r]) /\ NewerSteps(reading[r])
      BY <2>2 DEF Render, DashboardIInv, ReadSoFar
    <3> QED
      BY <3>1 DEF NewerRows, NewerSteps
  <2>3. (\E r \in Request : Render(r)) \/ shown' = shown
    BY DEF DashboardNext, Serve, Count, List, ReadSteps, ReadInto, RefreshFails, Poll, PreviousPage,
           NextPage, ClickTo, SubmitForm, FormAnswered, FormFails, Elsewhere, browser, dashboardVars
  <2> QED
    BY <2>1, <2>2, <2>3
<1> QED
  BY <1>1, DashboardWellFormedAlways, PTL DEF DashboardSpec, NeverGoesBack
=============================================================================
