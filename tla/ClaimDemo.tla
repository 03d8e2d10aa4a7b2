------------------------------ MODULE ClaimDemo ------------------------------
(***************************************************************************)
(* The concurrent-claim demonstration: POST /api/demo/claim of             *)
(* internal/httpapi/server.go creates a demo task, lets five goroutines    *)
(* race for it and finishes it; internal/store/store.go keeps the tasks.   *)
(*                                                                         *)
(* Demo tasks are rows of tasks with demo_claim set: workers do not see    *)
(* them, they have no lease, and FinishClaimDemo is what deletes them.     *)
(* The row lock matters here, so a claim is two actions: the SELECT ...    *)
(* FOR UPDATE and the commit of the UPDATE after it.                       *)
(***************************************************************************)
EXTENDS Integers, FiniteSets

CONSTANTS
  Handler,    \* requests the server handles at the same time
  Racer,      \* the goroutines of a request, demo-worker-1 to -5 in the code
  NoRacer,    \* claimed_by IS NULL
  Keep,       \* how many finished demos are kept, 10 in the code
  MaxDemos,   \* bound on the demos run
  MaxFaults   \* bound on failing calls and crashes of the server

ASSUME DemoConstants ==
  /\ Keep \in Nat \ {0} /\ MaxDemos \in Nat \ {0} /\ MaxFaults \in Nat
  /\ NoRacer \notin Racer
  /\ IsFiniteSet(Handler)

VARIABLES
  status,      \* tasks.status by task id
  claimed_by,  \* tasks.claimed_by by task id
  locked,      \* the ids whose row some transaction has locked
  pc,          \* where runClaimDemo is, by handler
  demo,        \* the id of the handler's task, 0 if it has none
  attempts,    \* how the claim of each goroutine went, by handler
  expired,     \* the ids a handler's FinishClaimDemo is about to delete
  abandoned,   \* history: the ids nobody will finish any more
  faults       \* faults so far

vars == <<status, claimed_by, locked, pc, demo, attempts, expired, abandoned, faults>>

Demos == 1..MaxDemos
Existing == {"pending", "claimed", "done", "cancelled"}

DemoTypeOK ==
  /\ status \in [Demos -> Existing \cup {"absent", "deleted"}]
  /\ claimed_by \in [Demos -> Racer \cup {NoRacer}]
  /\ locked \in SUBSET Demos
  /\ pc \in [Handler -> {"idle", "racing", "recording", "finishing", "finishing_marked",
                         "cleanup", "cleanup_marked"}]
  /\ demo \in [Handler -> 0..MaxDemos]
  /\ attempts \in [Handler -> [Racer -> {"waiting", "locked", "won", "lost", "error"}]]
  /\ expired \in [Handler -> SUBSET Demos]
  /\ abandoned \in SUBSET Demos
  /\ faults \in 0..MaxFaults
  /\ \A h \in Handler : pc[h] = "idle" <=> demo[h] = 0

-----------------------------------------------------------------------------
NoAttempts == [w \in Racer |-> "waiting"]

Init ==
  /\ status = [d \in Demos |-> "absent"]
  /\ claimed_by = [d \in Demos |-> NoRacer]
  /\ locked = {}
  /\ pc = [h \in Handler |-> "idle"]
  /\ demo = [h \in Handler |-> 0]
  /\ attempts = [h \in Handler |-> NoAttempts]
  /\ expired = [h \in Handler |-> {}]
  /\ abandoned = {}
  /\ faults = 0

Fault == faults < MaxFaults /\ faults' = faults + 1

IsNextId(d) == status[d] = "absent" /\ \A e \in Demos : e < d => status[e] # "absent"

CreateClaimDemoTask(h) ==
  /\ pc[h] = "idle"
  /\ \E d \in Demos :
       /\ IsNextId(d)
       /\ status' = [status EXCEPT ![d] = "pending"]
       /\ demo' = [demo EXCEPT ![h] = d]
  /\ pc' = [pc EXCEPT ![h] = "racing"]
  /\ attempts' = [attempts EXCEPT ![h] = NoAttempts]
  /\ UNCHANGED <<claimed_by, locked, expired, abandoned, faults>>

\* The task is committed but the handler gets an error, and returns before the
\* cleanup is deferred.
CreateAnswerLost(h) ==
  /\ Fault
  /\ pc[h] = "idle"
  /\ \E d \in Demos :
       /\ IsNextId(d)
       /\ status' = [status EXCEPT ![d] = "pending"]
       /\ abandoned' = abandoned \cup {d}
  /\ UNCHANGED <<claimed_by, locked, pc, demo, attempts, expired>>

(* ClaimSpecificDemo, in one of the goroutines *)

FaultyUnlocked(d) == TRUE
Unlocked(d) == d \notin locked

Attempt(h, w, result) == attempts' = [attempts EXCEPT ![h][w] = result]

\* SELECT ... WHERE status = 'pending' AND demo_claim FOR UPDATE finds the row.
LockDemo(h, w) ==
  LET d == demo[h] IN
  /\ pc[h] = "racing" /\ attempts[h][w] = "waiting"
  /\ Unlocked(d) /\ status[d] = "pending"
  /\ locked' = locked \cup {d}
  /\ Attempt(h, w, "locked")
  /\ UNCHANGED <<status, claimed_by, pc, demo, expired, abandoned, faults>>

\* It waited for the lock, and the row no longer qualifies.
LoseDemo(h, w) ==
  LET d == demo[h] IN
  /\ pc[h] = "racing" /\ attempts[h][w] = "waiting"
  /\ Unlocked(d) /\ status[d] # "pending"
  /\ Attempt(h, w, "lost")
  /\ UNCHANGED <<status, claimed_by, locked, pc, demo, expired, abandoned, faults>>

CommitClaim(h, w) ==
  LET d == demo[h] IN
  /\ pc[h] = "racing" /\ attempts[h][w] = "locked"
  /\ status' = [status EXCEPT ![d] = "claimed"]
  /\ claimed_by' = [claimed_by EXCEPT ![d] = w]
  /\ locked' = locked \ {d}
  /\ UNCHANGED <<pc, demo, expired, abandoned>>

WinDemo(h, w) == CommitClaim(h, w) /\ Attempt(h, w, "won") /\ UNCHANGED faults

\* The answer to the commit is lost.
WinAnswerLost(h, w) == CommitClaim(h, w) /\ Attempt(h, w, "error") /\ Fault

\* A statement fails, or the client left and its context is cancelled.
ClaimFails(h, w) ==
  /\ Fault
  /\ pc[h] = "racing" /\ attempts[h][w] \in {"waiting", "locked"}
  /\ locked' = IF attempts[h][w] = "locked" THEN locked \ {demo[h]} ELSE locked
  /\ Attempt(h, w, "error")
  /\ UNCHANGED <<status, claimed_by, pc, demo, expired, abandoned>>

(* runClaimDemo after the race *)

Winners(h) == {w \in Racer : attempts[h][w] = "won"}
OneOwner(h) ==
  /\ \A w \in Racer : attempts[h][w] # "error"
  /\ Cardinality(Winners(h)) = 1

\* Every return but the one of a successful request goes through the deferred
\* cleanup.
FaultyAfterError(h) == "idle"
AfterError(h) == "cleanup"

Judge(h) ==
  /\ pc[h] = "racing"
  /\ \A w \in Racer : attempts[h][w] \in {"won", "lost", "error"}
  /\ pc' = [pc EXCEPT ![h] = IF OneOwner(h) THEN "recording" ELSE AfterError(h)]
  /\ UNCHANGED <<status, claimed_by, locked, demo, attempts, expired, abandoned, faults>>

\* RecordClaimDemoAttempt for every goroutine: rows of activity_logs only.
Record(h) ==
  /\ pc[h] = "recording"
  /\ pc' = [pc EXCEPT ![h] = "finishing"]
  /\ UNCHANGED <<status, claimed_by, locked, demo, attempts, expired, abandoned, faults>>

RecordFails(h) ==
  /\ Fault
  /\ pc[h] = "recording"
  /\ pc' = [pc EXCEPT ![h] = AfterError(h)]
  /\ UNCHANGED <<status, claimed_by, locked, demo, attempts, expired, abandoned>>

(* FinishClaimDemo *)

\* The finished demos a transaction of h sees: the committed ones and its own.
FinishedFor(h) ==
  {d \in Demos : status[d] = "done" \/ (d = demo[h] /\ status[d] \in Existing)}

FaultyExpiredFor(h) ==
  {d \in FinishedFor(h) : Cardinality({e \in FinishedFor(h) : e > d}) > Keep}
\* ORDER BY id DESC OFFSET Keep
ExpiredFor(h) ==
  {d \in FinishedFor(h) : Cardinality({e \in FinishedFor(h) : e > d}) >= Keep}

\* The UPDATE locks the row, whatever its status is, and the DELETE chooses
\* its rows among those it can see then.
MarkFinished(h) ==
  /\ pc[h] \in {"finishing", "cleanup"}
  /\ Unlocked(demo[h])
  /\ locked' = locked \cup {demo[h]}
  /\ expired' = [expired EXCEPT ![h] = ExpiredFor(h)]
  /\ pc' = [pc EXCEPT ![h] = IF @ = "finishing" THEN "finishing_marked" ELSE "cleanup_marked"]
  /\ UNCHANGED <<status, claimed_by, demo, attempts, abandoned, faults>>

\* The commit: the demo is done, the expired ones are gone with their groups.
CommitFinish(h) ==
  /\ pc[h] \in {"finishing_marked", "cleanup_marked"}
  /\ status' = [d \in Demos |->
       IF d \in expired[h] THEN "deleted"
       ELSE IF d = demo[h] /\ status[d] \in Existing THEN "done" ELSE status[d]]
  /\ locked' = locked \ {demo[h]}
  /\ expired' = [expired EXCEPT ![h] = {}]
  /\ UNCHANGED <<claimed_by, attempts>>

Leave(h) == pc' = [pc EXCEPT ![h] = "idle"] /\ demo' = [demo EXCEPT ![h] = 0]

Finish(h) == CommitFinish(h) /\ Leave(h) /\ UNCHANGED <<abandoned, faults>>

\* The first failure is made good by the cleanup, the second is only logged.
AfterFailedFinish(h) ==
  IF pc[h] \in {"finishing", "finishing_marked"}
    THEN pc' = [pc EXCEPT ![h] = AfterError(h)] /\ UNCHANGED <<demo, abandoned>>
    ELSE Leave(h) /\ abandoned' = abandoned \cup {demo[h]}

FinishAnswerLost(h) ==
  /\ Fault
  /\ CommitFinish(h)
  /\ AfterFailedFinish(h)

FinishFails(h) ==
  /\ Fault
  /\ pc[h] \in {"finishing", "finishing_marked", "cleanup", "cleanup_marked"}
  /\ AfterFailedFinish(h)
  /\ locked' = IF pc[h] \in {"finishing_marked", "cleanup_marked"}
                 THEN locked \ {demo[h]} ELSE locked
  /\ expired' = [expired EXCEPT ![h] = {}]
  /\ UNCHANGED <<status, claimed_by, attempts>>

\* CancelTask does not ask whether the task is a demo.
CancelDemo(d) ==
  /\ status[d] \in {"pending", "claimed"} /\ Unlocked(d)
  /\ status' = [status EXCEPT ![d] = "cancelled"]
  /\ UNCHANGED <<claimed_by, locked, pc, demo, attempts, expired, abandoned, faults>>

\* The server stops with its requests: the open transactions are rolled back.
CrashServer ==
  /\ Fault
  /\ \E h \in Handler : pc[h] # "idle"
  /\ abandoned' = abandoned \cup {demo[h] : h \in {g \in Handler : demo[g] # 0}}
  /\ pc' = [h \in Handler |-> "idle"]
  /\ demo' = [h \in Handler |-> 0]
  /\ attempts' = [h \in Handler |-> NoAttempts]
  /\ locked' = {}
  /\ expired' = [h \in Handler |-> {}]
  /\ UNCHANGED <<status, claimed_by>>

Next ==
  \/ \E h \in Handler :
       \/ CreateClaimDemoTask(h) \/ CreateAnswerLost(h)
       \/ \E w \in Racer : \/ LockDemo(h, w) \/ LoseDemo(h, w) \/ WinDemo(h, w)
                           \/ WinAnswerLost(h, w) \/ ClaimFails(h, w)
       \/ Judge(h) \/ Record(h) \/ RecordFails(h)
       \/ MarkFinished(h) \/ Finish(h) \/ FinishAnswerLost(h) \/ FinishFails(h)
  \/ \E d \in Demos : CancelDemo(d)
  \/ CrashServer

Spec == Init /\ [][Next]_vars

-----------------------------------------------------------------------------
(* Properties *)

(* At most one goroutine wins, and it is the owner the row names: runClaimDemo
   never has to answer "claim demo produced multiple owners". *)
OneWinner ==
  \A h \in Handler : demo[h] # 0 =>
    /\ Cardinality(Winners(h)) <= 1
    /\ \A w \in Winners(h) : claimed_by[demo[h]] = w

(* Whatever goes wrong in a request, its task does not stay pending, claimed or
   cancelled: the deferred cleanup finishes it, unless the server stopped, the
   creation was answered with an error or the cleanup itself failed. *)
NothingLeftBehind ==
  \A d \in Demos :
    status[d] \in Existing \ {"done"} => d \in abandoned \/ \E h \in Handler : pc[h] # "idle" /\ demo[h] = d

(* The inductive invariant behind these two: the demos of the requests are
   different, a row that a goroutine has locked is pending until it commits, and
   a winner's row is not pending any more, so there is no second one. *)
OwnDemos ==
  \A h \in Handler : demo[h] # 0 =>
    /\ status[demo[h]] # "absent"
    /\ \A g \in Handler \ {h} : demo[g] # demo[h]

LockedAttempts ==
  \A h \in Handler, w \in Racer : demo[h] # 0 /\ attempts[h][w] = "locked" =>
    /\ pc[h] = "racing"
    /\ status[demo[h]] = "pending" /\ demo[h] \in locked
    /\ \A v \in Racer \ {w} : attempts[h][v] # "locked"

WonAttempts ==
  \A h \in Handler, w \in Racer : demo[h] # 0 /\ attempts[h][w] = "won" =>
    claimed_by[demo[h]] = w /\ status[demo[h]] \notin {"absent", "pending"}

ExpiredFinished ==
  \A h \in Handler : \A d \in expired[h] : status[d] \in {"done", "deleted"} \/ d = demo[h]

DemoIInv ==
  DemoTypeOK /\ OwnDemos /\ LockedAttempts /\ WonAttempts /\ ExpiredFinished
    /\ NothingLeftBehind

(* Requests that finish at the same time do not see one another's demo and
   delete the same old ones, so up to one demo for each other request is kept
   over the limit, but never more, however many are run. *)
DoneDemosBounded ==
  Cardinality({d \in Demos : status[d] = "done"}) <= Keep + Cardinality(Handler) - 1

(* What makes it inductive. The requests between MarkFinished and the commit
   are ordered by their marks, and `before' of one of them are those that
   marked earlier and are still at it. A commit leaves done what its request
   keeps: at most Keep when it marks, and one more for each commit since by a
   request that had marked before. The commit of one that marked later brings
   this back to what that one keeps. *)
Marked == {h \in Handler : pc[h] \in {"finishing_marked", "cleanup_marked"}}
KeptBy(h) == FinishedFor(h) \ expired[h]

MarkedInOrder(before) ==
  /\ \A h \in Marked :
       /\ before[h] \subseteq Marked \ {h}
       /\ Cardinality(KeptBy(h)) + Cardinality(before[h]) <= Keep + Cardinality(Handler) - 1
  /\ \A g, h \in Marked : g # h =>
       g \in before[h] \/ (h \in before[g] /\ before[h] \subseteq before[g])

KeptInOrder ==
  /\ DoneDemosBounded
  /\ \E before \in [Handler -> SUBSET Handler] : MarkedInOrder(before)

(* README.md:36: only the latest Keep demos are kept. It does not hold, not
   even when every request is over. *)
OnlyRecentDemosKept ==
  (\A h \in Handler : pc[h] = "idle") =>
    Cardinality({d \in Demos : status[d] \in Existing}) <= Keep

(* The comment above CancelTask: cancelled is a terminal state. It does not
   hold for a demo task. *)
CancelledIsTerminal ==
  [][\A d \in Demos : status[d] = "cancelled" => status'[d] \in {"cancelled", "deleted"}]_vars
=============================================================================
