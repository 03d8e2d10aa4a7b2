---------------------------- MODULE TaskLifecycle ----------------------------
(***************************************************************************)
(* What the task table promises to the rest of the system, with none of    *)
(* the columns it is stored in: a task is a set of steps still to do, they *)
(* are done one at a time in the order of their positions, by the holder   *)
(* of a token that grows with every change of hands, until none is left,   *)
(* one fails or somebody cancels the task.                                 *)
(*                                                                         *)
(* TaskStore implements this specification (its instance Lifecycle).       *)
(***************************************************************************)
EXTENDS Integers

CONSTANTS Task, Worker, NoWorker, MaxSteps

VARIABLES
  phase,    \* where the task stands
  todo,     \* the positions of the steps that are not done
  holder,   \* the worker the task was last handed to
  token     \* how many times it was handed over

vars == <<phase, todo, holder, token>>

Phase == {"absent", "waiting", "owned", "done", "failed", "cancelled", "deleted"}

Init ==
  /\ phase = [t \in Task |-> "absent"]
  /\ todo = [t \in Task |-> {}]
  /\ holder = [t \in Task |-> NoWorker]
  /\ token = [t \in Task |-> 0]

\* A task is submitted with the steps 1..n.
Submit(t, n) ==
  /\ phase[t] = "absent"
  /\ phase' = [phase EXCEPT ![t] = "waiting"]
  /\ todo' = [todo EXCEPT ![t] = 1..n]
  /\ UNCHANGED <<holder, token>>

\* A waiting task, or one whose holder went quiet, is handed to a worker: the
\* steps to do are not touched and the previous token is void.
HandOver(t, w) ==
  /\ phase[t] \in {"waiting", "owned"}
  /\ phase' = [phase EXCEPT ![t] = "owned"]
  /\ holder' = [holder EXCEPT ![t] = w]
  /\ token' = [token EXCEPT ![t] = @ + 1]
  /\ UNCHANGED todo

\* The first step to do succeeds. A step that was reported as failed may still
\* be reported as a success, which revives the task.
Succeed(t) ==
  /\ phase[t] \in {"owned", "failed"}
  /\ \E p \in todo[t] :
       /\ \A q \in todo[t] : p <= q
       /\ todo' = [todo EXCEPT ![t] = @ \ {p}]
       /\ phase' = [phase EXCEPT ![t] = IF todo[t] = {p} THEN "done" ELSE "owned"]
  /\ UNCHANGED <<holder, token>>

Fail(t) ==
  /\ phase[t] = "owned"
  /\ todo[t] # {}
  /\ phase' = [phase EXCEPT ![t] = "failed"]
  /\ UNCHANGED <<todo, holder, token>>

Cancel(t) ==
  /\ phase[t] \in {"waiting", "owned"}
  /\ phase' = [phase EXCEPT ![t] = "cancelled"]
  /\ UNCHANGED <<todo, holder, token>>

\* The retention job deletes a set of tasks. An owned task can be among them:
\* it was failed when the job chose its victims and was revived since.
Delete(T) ==
  /\ \A t \in T : phase[t] \in {"owned", "done", "failed", "cancelled"}
  /\ phase' = [t \in Task |-> IF t \in T THEN "deleted" ELSE phase[t]]
  /\ todo' = [t \in Task |-> IF t \in T THEN {} ELSE todo[t]]
  /\ UNCHANGED <<holder, token>>

Next ==
  \/ \E t \in Task, n \in 1..MaxSteps : Submit(t, n)
  \/ \E t \in Task, w \in Worker : HandOver(t, w)
  \/ \E t \in Task : Succeed(t) \/ Fail(t) \/ Cancel(t)
  \/ \E T \in SUBSET Task : Delete(T)

Spec == Init /\ [][Next]_vars
=============================================================================
