--------------------------- MODULE ClaimDemo_proofs ---------------------------
(***************************************************************************)
(* Proofs about ClaimDemo, for any number of requests, goroutines, demos   *)
(* and faults.                                                             *)
(***************************************************************************)
EXTENDS ClaimDemo, FiniteSetTheorems, TLAPS

LEMMA DemoTypeInit == Init => DemoTypeOK
BY DemoConstants DEF Init, DemoTypeOK, Demos, Existing, NoAttempts

LEMMA AttemptType ==
  ASSUME DemoTypeOK, NEW h \in Handler, NEW w \in Racer,
         NEW result \in {"locked", "won", "lost", "error"}, Attempt(h, w, result)
  PROVE  attempts' \in [Handler -> [Racer -> {"waiting", "locked", "won", "lost", "error"}]]
BY DEF DemoTypeOK, Attempt

LEMMA CommitFinishType ==
  ASSUME DemoTypeOK, NEW h \in Handler, CommitFinish(h)
  PROVE  /\ status' \in [Demos -> Existing \cup {"absent", "deleted"}]
         /\ locked' \in SUBSET Demos /\ expired' \in [Handler -> SUBSET Demos]
         /\ UNCHANGED <<claimed_by, attempts>>
BY DEF DemoTypeOK, CommitFinish, Existing

LEMMA AfterFailedFinishType ==
  ASSUME DemoTypeOK, NEW h \in Handler, AfterFailedFinish(h), pc[h] # "idle"
  PROVE  /\ pc' \in [Handler -> {"idle", "racing", "recording", "finishing", "finishing_marked",
                                 "cleanup", "cleanup_marked"}]
         /\ demo' \in [Handler -> 0..MaxDemos] /\ abandoned' \in SUBSET Demos
         /\ \A g \in Handler : pc'[g] = "idle" <=> demo'[g] = 0
<1>1. demo[h] \in Demos /\ 0 \in 0..MaxDemos
  BY DemoConstants DEF DemoTypeOK, Demos
<1> QED
  BY <1>1 DEF DemoTypeOK, AfterFailedFinish, AfterError, Leave

LEMMA DemoTypeNext == DemoTypeOK /\ [Next]_vars => DemoTypeOK'
<1> SUFFICES ASSUME DemoTypeOK, [Next]_vars PROVE DemoTypeOK'
  OBVIOUS
<1>a. \A h \in Handler : demo[h] # 0 => demo[h] \in Demos
  BY DemoConstants DEF DemoTypeOK, Demos
<1>b. ASSUME Fault PROVE faults' \in 0..MaxFaults
  BY <1>b, DemoConstants DEF DemoTypeOK, Fault
<1>1. ASSUME NEW h \in Handler, CreateClaimDemoTask(h) PROVE DemoTypeOK'
  <2>1. PICK d \in Demos : /\ status' = [status EXCEPT ![d] = "pending"]
                           /\ demo' = [demo EXCEPT ![h] = d]
    BY <1>1 DEF CreateClaimDemoTask
  <2>2. d \in 0..MaxDemos /\ d # 0
    BY DemoConstants DEF Demos
  <2> QED
    BY <1>1, <2>1, <2>2 DEF CreateClaimDemoTask, DemoTypeOK, NoAttempts, Existing
<1>2. ASSUME NEW h \in Handler, CreateAnswerLost(h) PROVE DemoTypeOK'
  BY <1>b, <1>2 DEF CreateAnswerLost, DemoTypeOK, Existing
<1>3. ASSUME NEW h \in Handler, NEW w \in Racer, LockDemo(h, w) \/ LoseDemo(h, w) PROVE DemoTypeOK'
  <2>1. pc[h] = "racing" /\ demo[h] # 0 /\ demo[h] \in Demos
    BY <1>a, <1>3 DEF LockDemo, LoseDemo, DemoTypeOK
  <2>2. ASSUME NEW result \in {"locked", "lost"}, Attempt(h, w, result)
        PROVE  attempts' \in [Handler -> [Racer -> {"waiting", "locked", "won", "lost", "error"}]]
    BY <2>2, AttemptType
  <2>3. CASE LockDemo(h, w)
    BY <2>1, <2>2, <2>3 DEF LockDemo, DemoTypeOK
  <2>4. CASE LoseDemo(h, w)
    BY <2>1, <2>2, <2>4 DEF LoseDemo, DemoTypeOK
  <2> QED
    BY <1>3, <2>3, <2>4
<1>4. ASSUME NEW h \in Handler, NEW w \in Racer, WinDemo(h, w) \/ WinAnswerLost(h, w)
      PROVE DemoTypeOK'
  <2>1. CommitClaim(h, w) /\ pc[h] = "racing" /\ demo[h] \in Demos
    BY <1>a, <1>4 DEF WinDemo, WinAnswerLost, CommitClaim, DemoTypeOK
  <2>2. attempts' \in [Handler -> [Racer -> {"waiting", "locked", "won", "lost", "error"}]]
    BY <1>4, AttemptType DEF WinDemo, WinAnswerLost
  <2>3. faults' \in 0..MaxFaults
    BY <1>b, <1>4 DEF WinDemo, WinAnswerLost, DemoTypeOK
  <2> QED
    BY <2>1, <2>2, <2>3 DEF CommitClaim, DemoTypeOK, Existing
<1>5. ASSUME NEW h \in Handler, NEW w \in Racer, ClaimFails(h, w) PROVE DemoTypeOK'
  BY <1>b, <1>5 DEF ClaimFails, Attempt, DemoTypeOK
<1>6. ASSUME NEW h \in Handler, Judge(h) \/ Record(h) PROVE DemoTypeOK'
  BY <1>6 DEF Judge, Record, AfterError, DemoTypeOK
<1>7. ASSUME NEW h \in Handler, RecordFails(h) PROVE DemoTypeOK'
  BY <1>b, <1>7 DEF RecordFails, AfterError, DemoTypeOK
<1>8. ASSUME NEW h \in Handler, MarkFinished(h) PROVE DemoTypeOK'
  <2>1. demo[h] \in Demos /\ ExpiredFor(h) \subseteq Demos
    BY <1>a, <1>8 DEF MarkFinished, DemoTypeOK, ExpiredFor, FinishedFor
  <2> QED
    BY <1>8, <2>1 DEF MarkFinished, DemoTypeOK
<1>9. ASSUME NEW h \in Handler, Finish(h) PROVE DemoTypeOK'
  <2>1. 0 \in 0..MaxDemos
    BY DemoConstants
  <2> QED
    BY <1>9, <2>1, CommitFinishType DEF Finish, Leave, DemoTypeOK
<1>10. ASSUME NEW h \in Handler, FinishAnswerLost(h) PROVE DemoTypeOK'
  <2>1. CommitFinish(h) /\ AfterFailedFinish(h) /\ pc[h] # "idle"
    BY <1>10 DEF FinishAnswerLost, CommitFinish
  <2> QED
    BY <1>b, <1>10, <2>1, CommitFinishType, AfterFailedFinishType DEF FinishAnswerLost, DemoTypeOK
<1>11. ASSUME NEW h \in Handler, FinishFails(h) PROVE DemoTypeOK'
  <2>1. AfterFailedFinish(h) /\ pc[h] # "idle"
    BY <1>11 DEF FinishFails
  <2>2. locked' \in SUBSET Demos /\ expired' \in [Handler -> SUBSET Demos]
    BY <1>11 DEF FinishFails, DemoTypeOK
  <2> QED
    BY <1>b, <1>11, <2>1, <2>2, AfterFailedFinishType DEF FinishFails, DemoTypeOK
<1>12. ASSUME NEW d \in Demos, CancelDemo(d) PROVE DemoTypeOK'
  BY <1>12 DEF CancelDemo, DemoTypeOK, Existing
<1>13. CASE CrashServer
  <2>1. 0 \in 0..MaxDemos
    BY DemoConstants
  <2> QED
    BY <1>a, <1>b, <1>13, <2>1 DEF CrashServer, DemoTypeOK, NoAttempts
<1>14. CASE UNCHANGED vars
  BY <1>14 DEF vars, DemoTypeOK
<1> QED
  BY <1>1, <1>2, <1>3, <1>4, <1>5, <1>6, <1>7, <1>8, <1>9, <1>10, <1>11, <1>12, <1>13, <1>14
  DEF Next

(* Type correctness. *)
THEOREM DemoTypeCorrect == Spec => []DemoTypeOK
BY DemoTypeInit, DemoTypeNext, PTL DEF Spec

-----------------------------------------------------------------------------
(* The inductive invariant *)

LEMMA DemoInvariantInit == Init => DemoIInv
<1> SUFFICES ASSUME Init PROVE DemoIInv
  OBVIOUS
<1> QED
  BY DemoTypeInit DEF Init, DemoIInv, OwnDemos, LockedAttempts, WonAttempts, ExpiredFinished,
                      NothingLeftBehind, Existing

LEMMA DemoInvariantNext == DemoIInv /\ [Next]_vars => DemoIInv'
<1> SUFFICES ASSUME DemoIInv, [Next]_vars PROVE DemoIInv'
  OBVIOUS
<1>0. /\ DemoTypeOK /\ DemoTypeOK' /\ OwnDemos /\ LockedAttempts /\ WonAttempts
      /\ ExpiredFinished /\ NothingLeftBehind
  BY DemoTypeNext DEF DemoIInv
<1> DEFINE Goal == /\ OwnDemos' /\ LockedAttempts' /\ WonAttempts'
                   /\ ExpiredFinished' /\ NothingLeftBehind'
<1> SUFFICES Goal
  BY <1>0 DEF DemoIInv
<1>a. /\ \A h \in Handler : demo[h] # 0 => demo[h] \in Demos
      /\ \A h \in Handler : pc[h] = "idle" <=> demo[h] = 0
      /\ 0 \notin Demos
  BY <1>0, DemoConstants DEF DemoTypeOK, Demos
<1>b. /\ status \in [Demos -> Existing \cup {"absent", "deleted"}]
      /\ claimed_by \in [Demos -> Racer \cup {NoRacer}]
      /\ pc \in [Handler -> {"idle", "racing", "recording", "finishing", "finishing_marked",
                             "cleanup", "cleanup_marked"}]
      /\ demo \in [Handler -> 0..MaxDemos]
      /\ attempts \in [Handler -> [Racer -> {"waiting", "locked", "won", "lost", "error"}]]
      /\ expired \in [Handler -> SUBSET Demos]
      /\ locked \in SUBSET Demos
  BY <1>0 DEF DemoTypeOK
<1> USE <1>0, <1>a, <1>b
<1>1. ASSUME NEW h \in Handler, CreateClaimDemoTask(h) PROVE Goal
  <2>1. PICK d \in Demos : /\ status[d] = "absent"
                           /\ status' = [status EXCEPT ![d] = "pending"]
                           /\ demo' = [demo EXCEPT ![h] = d]
    BY <1>1 DEF CreateClaimDemoTask, IsNextId
  <2>2. /\ demo[h] = 0 /\ pc' = [pc EXCEPT ![h] = "racing"]
        /\ attempts' = [attempts EXCEPT ![h] = NoAttempts]
        /\ UNCHANGED <<claimed_by, locked, expired, abandoned>>
    BY <1>1 DEF CreateClaimDemoTask
  <2>3. OwnDemos'
    BY <2>1, <2>2 DEF OwnDemos
  <2>4. LockedAttempts' /\ WonAttempts'
    BY <2>1, <2>2 DEF LockedAttempts, WonAttempts, NoAttempts
  <2>5. ExpiredFinished'
    BY <2>1, <2>2 DEF ExpiredFinished
  <2>6. NothingLeftBehind'
    BY <2>1, <2>2 DEF NothingLeftBehind
  <2> QED
    BY <2>3, <2>4, <2>5, <2>6
<1>2. ASSUME NEW h \in Handler, CreateAnswerLost(h) PROVE Goal
  <2>1. PICK d \in Demos : /\ status[d] = "absent"
                           /\ status' = [status EXCEPT ![d] = "pending"]
                           /\ abandoned' = abandoned \cup {d}
    BY <1>2 DEF CreateAnswerLost, IsNextId
  <2>2. UNCHANGED <<claimed_by, locked, pc, demo, attempts, expired>>
    BY <1>2 DEF CreateAnswerLost
  <2> QED
    BY <2>1, <2>2
    DEF OwnDemos, LockedAttempts, WonAttempts, ExpiredFinished, NothingLeftBehind
<1>3. ASSUME NEW h \in Handler, NEW w \in Racer, LockDemo(h, w) \/ LoseDemo(h, w) PROVE Goal
  <2>1. /\ UNCHANGED <<status, claimed_by, pc, demo, expired, abandoned>>
        /\ locked \subseteq locked'
        /\ pc[h] = "racing" /\ demo[h] \in Demos
    BY <1>3 DEF LockDemo, LoseDemo
  <2>2. OwnDemos' /\ ExpiredFinished' /\ NothingLeftBehind'
    BY <2>1 DEF OwnDemos, ExpiredFinished, NothingLeftBehind
  <2>3. WonAttempts'
    BY <1>3, <2>1 DEF LockDemo, LoseDemo, Attempt, WonAttempts
  <2>4. LockedAttempts'
    <3>1. CASE LockDemo(h, w)
      <4>1. /\ status[demo[h]] = "pending" /\ demo[h] \notin locked /\ locked' = locked \cup {demo[h]}
            /\ attempts' = [attempts EXCEPT ![h][w] = "locked"]
        BY <3>1 DEF LockDemo, Unlocked, Attempt
      <4>2. \A v \in Racer : attempts[h][v] # "locked"
        BY <2>1, <4>1 DEF LockedAttempts
      <4> QED
        BY <2>1, <4>1, <4>2 DEF LockedAttempts
    <3>2. CASE LoseDemo(h, w)
      <4>1. locked' = locked /\ attempts' = [attempts EXCEPT ![h][w] = "lost"]
        BY <3>2 DEF LoseDemo, Attempt
      <4> QED
        BY <2>1, <4>1 DEF LockedAttempts
    <3> QED
      BY <1>3, <3>1, <3>2
  <2> QED
    BY <2>2, <2>3, <2>4
<1>4. ASSUME NEW h \in Handler, NEW w \in Racer, WinDemo(h, w) \/ WinAnswerLost(h, w) PROVE Goal
  <2>1. /\ CommitClaim(h, w) /\ demo[h] \in Demos
        /\ \/ attempts' = [attempts EXCEPT ![h][w] = "won"]
           \/ attempts' = [attempts EXCEPT ![h][w] = "error"]
    BY <1>4 DEF WinDemo, WinAnswerLost, CommitClaim, Attempt
  <2>2. /\ status' = [status EXCEPT ![demo[h]] = "claimed"]
        /\ claimed_by' = [claimed_by EXCEPT ![demo[h]] = w]
        /\ locked' = locked \ {demo[h]} /\ attempts[h][w] = "locked"
        /\ UNCHANGED <<pc, demo, expired, abandoned>>
    BY <2>1 DEF CommitClaim
  <2>3. status[demo[h]] = "pending" /\ \A v \in Racer \ {w} : attempts[h][v] \notin {"locked", "won"}
    BY <2>1, <2>2 DEF LockedAttempts, WonAttempts
  <2>4. OwnDemos'
    BY <2>2 DEF OwnDemos
  <2>5. LockedAttempts'
    BY <2>1, <2>2, <2>3 DEF LockedAttempts, OwnDemos
  <2>6. WonAttempts'
    BY <2>1, <2>2, <2>3 DEF WonAttempts, OwnDemos
  <2>7. ExpiredFinished' /\ NothingLeftBehind'
    BY <2>2, <2>3 DEF ExpiredFinished, NothingLeftBehind, Existing
  <2> QED
    BY <2>4, <2>5, <2>6, <2>7
<1>5. ASSUME NEW h \in Handler, NEW w \in Racer, ClaimFails(h, w) PROVE Goal
  <2>1. /\ UNCHANGED <<status, claimed_by, pc, demo, expired, abandoned>>
        /\ locked' = (IF attempts[h][w] = "locked" THEN locked \ {demo[h]} ELSE locked)
        /\ attempts' = [attempts EXCEPT ![h][w] = "error"]
        /\ pc[h] = "racing" /\ demo[h] \in Demos
    BY <1>5 DEF ClaimFails, Attempt
  <2>2. OwnDemos' /\ ExpiredFinished' /\ NothingLeftBehind' /\ WonAttempts'
    BY <2>1 DEF OwnDemos, ExpiredFinished, NothingLeftBehind, WonAttempts
  <2>3. LockedAttempts'
    BY <2>1 DEF LockedAttempts, OwnDemos
  <2> QED
    BY <2>2, <2>3
<1>6. ASSUME NEW h \in Handler, Judge(h) \/ Record(h) \/ RecordFails(h) PROVE Goal
  <2>1. /\ UNCHANGED <<status, claimed_by, locked, demo, attempts, expired, abandoned>>
        /\ pc[h] # "idle" /\ pc'[h] # "idle" /\ \A g \in Handler \ {h} : pc'[g] = pc[g]
    BY <1>6 DEF Judge, Record, RecordFails, AfterError
  <2>2. \A w \in Racer : attempts[h][w] # "locked"
    BY <1>6 DEF Judge, Record, RecordFails, LockedAttempts
  <2> QED
    BY <2>1, <2>2
    DEF OwnDemos, LockedAttempts, WonAttempts, ExpiredFinished, NothingLeftBehind
<1>7. ASSUME NEW h \in Handler, MarkFinished(h) PROVE Goal
  <2>1. /\ UNCHANGED <<status, claimed_by, demo, attempts, abandoned>>
        /\ locked \subseteq locked' /\ expired' = [expired EXCEPT ![h] = ExpiredFor(h)]
        /\ pc[h] \notin {"idle", "racing"} /\ pc'[h] # "idle" /\ \A g \in Handler \ {h} : pc'[g] = pc[g]
    BY <1>7 DEF MarkFinished
  <2>2. \A w \in Racer : attempts[h][w] # "locked"
    BY <2>1 DEF LockedAttempts
  <2>3. \A d \in ExpiredFor(h) : status[d] = "done" \/ d = demo[h]
    BY DEF ExpiredFor, FinishedFor
  <2>4. ExpiredFinished'
    BY <2>1, <2>3 DEF ExpiredFinished
  <2> QED
    BY <2>1, <2>2, <2>4 DEF OwnDemos, LockedAttempts, WonAttempts, NothingLeftBehind
<1>8. ASSUME NEW h \in Handler, CommitFinish(h),
             /\ \A g \in Handler \ {h} : pc'[g] = pc[g] /\ demo'[g] = demo[g]
             /\ demo'[h] \in {0, demo[h]} /\ abandoned \subseteq abandoned'
      PROVE Goal
  <2>1. /\ pc[h] \notin {"idle", "racing"} /\ demo[h] \in Demos
        /\ status' = [d \in Demos |->
             IF d \in expired[h] THEN "deleted"
             ELSE IF d = demo[h] /\ status[d] \in Existing THEN "done" ELSE status[d]]
        /\ locked' = locked \ {demo[h]} /\ expired' = [expired EXCEPT ![h] = {}]
        /\ UNCHANGED <<claimed_by, attempts>>
    BY <1>8 DEF CommitFinish
  <2>2. \A w \in Racer : attempts[h][w] # "locked"
    BY <2>1 DEF LockedAttempts
  <2>3. \A d \in Demos : \/ status'[d] = status[d]
                         \/ status[d] \in {"done", "deleted"} /\ status'[d] = "deleted"
                         \/ d = demo[h] /\ status'[d] \in {"done", "deleted"}
    BY <2>1 DEF ExpiredFinished
  <2>4. status'[demo[h]] \in {"done", "deleted"}
    BY <2>1 DEF OwnDemos
  <2>5. OwnDemos'
    BY <1>8, <2>1, <2>3 DEF OwnDemos
  <2>6. \A g \in Handler \ {h} : demo[g] # 0 => demo[g] # demo[h]
    BY <2>1 DEF OwnDemos
  <2>7. LockedAttempts'
    BY <1>8, <2>1, <2>2, <2>3, <2>6 DEF LockedAttempts
  <2>8. WonAttempts'
    BY <1>8, <2>1, <2>3 DEF WonAttempts
  <2>9. ExpiredFinished'
    <3> SUFFICES ASSUME NEW g \in Handler, NEW d \in expired'[g]
                 PROVE  status'[d] \in {"done", "deleted"} \/ d = demo'[g]
      BY DEF ExpiredFinished
    <3>1. g # h /\ d \in expired[g] /\ d \in Demos
      BY <2>1
    <3> QED
      BY <1>8, <2>3, <3>1 DEF ExpiredFinished
  <2>10. NothingLeftBehind'
    BY <1>8, <2>1, <2>3, <2>4 DEF NothingLeftBehind, Existing
  <2> QED
    BY <2>5, <2>7, <2>8, <2>9, <2>10
<1>9. ASSUME NEW h \in Handler, Finish(h) \/ FinishAnswerLost(h) PROVE Goal
  <2>1. /\ CommitFinish(h)
        /\ \A g \in Handler \ {h} : pc'[g] = pc[g] /\ demo'[g] = demo[g]
        /\ demo'[h] \in {0, demo[h]} /\ abandoned \subseteq abandoned'
    BY <1>9 DEF Finish, FinishAnswerLost, Leave, AfterFailedFinish
  <2> QED
    BY <1>8, <2>1
<1>10. ASSUME NEW h \in Handler, FinishFails(h) PROVE Goal
  <2>1. /\ pc[h] \notin {"idle", "racing"} /\ demo[h] \in Demos
        /\ \A g \in Handler \ {h} : pc'[g] = pc[g] /\ demo'[g] = demo[g]
        /\ \/ demo'[h] = demo[h] /\ pc'[h] # "idle" /\ abandoned' = abandoned
           \/ demo'[h] = 0 /\ abandoned' = abandoned \cup {demo[h]}
        /\ locked \ {demo[h]} \subseteq locked'
        /\ expired' = [expired EXCEPT ![h] = {}]
        /\ UNCHANGED <<status, claimed_by, attempts>>
    BY <1>10 DEF FinishFails, AfterFailedFinish, AfterError, Leave
  <2>2. \A w \in Racer : attempts[h][w] # "locked"
    BY <2>1 DEF LockedAttempts
  <2>3. OwnDemos'
    BY <2>1 DEF OwnDemos
  <2>8. WonAttempts'
    <3> SUFFICES ASSUME NEW g \in Handler, NEW w \in Racer, demo'[g] # 0, attempts'[g][w] = "won"
                 PROVE  claimed_by'[demo'[g]] = w /\ status'[demo'[g]] \notin {"absent", "pending"}
      BY DEF WonAttempts
    <3>1. demo'[g] = demo[g]
      BY <2>1
    <3> QED
      BY <2>1, <3>1 DEF WonAttempts
  <2>4. \A g \in Handler \ {h} : demo[g] # 0 => demo[g] # demo[h]
    BY <2>1 DEF OwnDemos
  <2>5. LockedAttempts'
    BY <2>1, <2>2, <2>4 DEF LockedAttempts
  <2>6. ExpiredFinished'
    BY <2>1 DEF ExpiredFinished
  <2>7. NothingLeftBehind'
    BY <2>1 DEF NothingLeftBehind
  <2> QED
    BY <2>3, <2>5, <2>6, <2>7, <2>8
<1>11. ASSUME NEW d \in Demos, CancelDemo(d) PROVE Goal
  <2>1. /\ status[d] \in {"pending", "claimed"} /\ d \notin locked
        /\ status' = [status EXCEPT ![d] = "cancelled"]
        /\ UNCHANGED <<claimed_by, locked, pc, demo, attempts, expired, abandoned>>
    BY <1>11 DEF CancelDemo, Unlocked
  <2> QED
    BY <2>1 DEF OwnDemos, LockedAttempts, WonAttempts, ExpiredFinished, NothingLeftBehind, Existing
<1>12. CASE CrashServer
  <2>1. /\ demo' = [h \in Handler |-> 0] /\ expired' = [h \in Handler |-> {}]
        /\ status' = status
        /\ \A h \in Handler : demo[h] # 0 => demo[h] \in abandoned'
        /\ abandoned \subseteq abandoned'
    BY <1>12 DEF CrashServer
  <2> QED
    BY <2>1 DEF OwnDemos, LockedAttempts, WonAttempts, ExpiredFinished, NothingLeftBehind
<1>13. CASE UNCHANGED vars
  BY <1>13 DEF vars, OwnDemos, LockedAttempts, WonAttempts, ExpiredFinished, NothingLeftBehind
<1> QED
  BY <1>1, <1>2, <1>3, <1>4, <1>5, <1>6, <1>7, <1>9, <1>10, <1>11, <1>12, <1>13 DEF Next

(* The inductive invariant holds. *)
THEOREM DemoWellFormedAlways == Spec => []DemoIInv
BY DemoInvariantInit, DemoInvariantNext, PTL DEF Spec

(* However many goroutines race, at most one wins, and the row names it. *)
THEOREM OneWinnerAlways == Spec => []OneWinner
<1>1. ASSUME DemoIInv PROVE OneWinner
  <2> SUFFICES ASSUME NEW h \in Handler, demo[h] # 0
               PROVE  /\ Cardinality(Winners(h)) <= 1
                      /\ \A w \in Winners(h) : claimed_by[demo[h]] = w
    BY DEF OneWinner
  <2>1. \A w \in Winners(h) : claimed_by[demo[h]] = w
    BY <1>1 DEF DemoIInv, WonAttempts, Winners
  <2>2. Winners(h) = {} \/ Winners(h) = {claimed_by[demo[h]]}
    BY <2>1
  <2>3. CASE Winners(h) = {}
    BY <2>1, <2>3, FS_EmptySet
  <2>4. CASE Winners(h) = {claimed_by[demo[h]]}
    <3>1. Cardinality({claimed_by[demo[h]]}) = 1
      BY FS_Singleton
    <3> QED
      BY <2>1, <2>4, <3>1
  <2> QED
    BY <2>2, <2>3, <2>4
<1> QED
  BY <1>1, DemoWellFormedAlways, PTL

(* No demo is left behind, whatever fails, but by a crash, a lost creation or a
   cleanup that fails itself. *)
THEOREM NothingLeftBehindAlways == Spec => []NothingLeftBehind
<1>1. DemoIInv => NothingLeftBehind
  BY DEF DemoIInv
<1> QED
  BY <1>1, DemoWellFormedAlways, PTL
-----------------------------------------------------------------------------
(* The finished demos that are kept *)

DoneDemos == {d \in Demos : status[d] = "done"}

LEMMA FiniteDemos ==
  ASSUME NEW S \in SUBSET Demos
  PROVE  IsFiniteSet(S) /\ Cardinality(S) \in Nat
<1>1. IsFiniteSet(Demos)
  BY DemoConstants, FS_Interval DEF Demos
<1> QED
  BY <1>1, FS_Subset, FS_CardinalityType

LEMMA FiniteRequests ==
  ASSUME NEW S \in SUBSET Handler
  PROVE  /\ IsFiniteSet(S) /\ Cardinality(S) \in Nat /\ Cardinality(Handler) \in Nat
         /\ Cardinality(S) <= Cardinality(Handler)
         /\ S # Handler => Cardinality(S) <= Cardinality(Handler) - 1
<1>1. /\ IsFiniteSet(S) /\ Cardinality(S) <= Cardinality(Handler)
      /\ Cardinality(Handler) = Cardinality(S) => Handler = S
  BY DemoConstants, FS_Subset
<1>2. Cardinality(S) \in Nat /\ Cardinality(Handler) \in Nat
  BY <1>1, DemoConstants, FS_CardinalityType
<1> QED
  BY <1>1, <1>2

LEMMA OneMore ==
  ASSUME NEW S, IsFiniteSet(S), NEW x, NEW T \in SUBSET (S \cup {x})
  PROVE  Cardinality(T) <= Cardinality(S) + 1
<1>1. /\ IsFiniteSet(S \cup {x}) /\ Cardinality(S) \in Nat
      /\ Cardinality(S \cup {x}) \in {Cardinality(S), Cardinality(S) + 1}
  BY FS_AddElement, FS_CardinalityType
<1>2. /\ Cardinality(T) <= Cardinality(S \cup {x})
      /\ Cardinality(T) \in Nat
  BY <1>1, FS_Subset, FS_CardinalityType
<1> QED
  BY <1>1, <1>2

\* A set of demos has at most Keep members with fewer than Keep younger ones:
\* they differ by how many these are.
LEMMA FewYounger ==
  ASSUME NEW S \in SUBSET Demos
  PROVE  Cardinality({d \in S : ~(Cardinality({e \in S : e > d}) >= Keep)}) <= Keep
<1> DEFINE Younger(d) == {e \in S : e > d}
           T == {d \in S : ~(Cardinality(Younger(d)) >= Keep)}
           f == [d \in T |-> Cardinality(Younger(d))]
<1>1. \A d \in S : Younger(d) \in SUBSET Demos /\ d \in Int
  <2>1. \A d \in Demos : d \in Int
    BY DEF Demos
  <2> QED
    BY <2>1
<1>2. \A d \in S : IsFiniteSet(Younger(d)) /\ Cardinality(Younger(d)) \in Nat
  BY <1>1, FiniteDemos
<1>3. f \in [T -> 0..Keep - 1]
  <2>1. \A d \in T : d \in S /\ ~(Cardinality(Younger(d)) >= Keep)
    OBVIOUS
  <2> HIDE DEF Younger, T
  <2>2. \A d \in T : Cardinality(Younger(d)) \in 0..Keep - 1
    BY <1>2, <2>1, DemoConstants
  <2> QED
    BY <2>2
<1>4. ASSUME NEW c \in T, NEW d \in T, c < d PROVE f[c] # f[d]
  <2>1. Younger(d) \cup {d} \in SUBSET Younger(c) /\ d \notin Younger(d)
    BY <1>1, <1>4
  <2>2. Cardinality(Younger(d) \cup {d}) = Cardinality(Younger(d)) + 1
    BY <1>2, <2>1, FS_AddElement
  <2>3. Cardinality(Younger(d) \cup {d}) <= Cardinality(Younger(c))
    BY <1>2, <2>1, FS_Subset
  <2> HIDE DEF Younger
  <2> QED
    BY <1>2, <2>2, <2>3
<1>5. f \in Injection(T, 0..Keep - 1)
  <2>1. \A c, d \in T : c # d => c < d \/ d < c
    BY <1>1
  <2>2. \A c, d \in T : f[c] = f[d] => c = d
    BY <1>4, <2>1
  <2> HIDE DEF f, T
  <2> QED
    BY <1>3, <2>2 DEF Injection, IsInjective
<1>6. IsFiniteSet(0..Keep - 1) /\ Cardinality(0..Keep - 1) = Keep
  <2>1. Keep - 1 \in Int /\ 0 \in Int /\ ~(0 > Keep - 1) /\ (Keep - 1) - 0 + 1 = Keep
    BY DemoConstants
  <2> QED
    BY <2>1, FS_Interval
<1> HIDE DEF f, T
<1>7. Cardinality(T) <= Keep
  BY <1>5, <1>6, FS_Injection
<1> QED
  BY <1>7 DEF T

LEMMA FinishedDemos ==
  ASSUME NEW h \in Handler
  PROVE  /\ FinishedFor(h) \in SUBSET Demos /\ KeptBy(h) \in SUBSET Demos
         /\ FinishedFor(h) = DoneDemos \cup {d \in Demos : d = demo[h] /\ status[d] \in Existing}
BY DEF FinishedFor, KeptBy, DoneDemos

\* A step at which no request marks or commits a finished demo. Requests may
\* give up, and the order of the others stays.
LEMMA QuietStep ==
  ASSUME DemoIInv, DemoTypeOK', KeptInOrder, Marked' \subseteq Marked,
         \A h \in Marked' : demo'[h] = demo[h] /\ expired'[h] = expired[h],
         \A d \in Demos : /\ status'[d] = "done" => status[d] = "done"
                          /\ status[d] = "deleted" => status'[d] = "deleted"
  PROVE  KeptInOrder'
<1>1. PICK before \in [Handler -> SUBSET Handler] : MarkedInOrder(before)
  BY DEF KeptInOrder
<1>2. Marked \subseteq Handler
  BY DEF Marked
<1>3. DoneDemos' \subseteq DoneDemos
  BY DEF DoneDemos
<1>4. DoneDemosBounded'
  <2>1. Cardinality(DoneDemos') <= Cardinality(DoneDemos)
    BY <1>3, FiniteDemos, FS_Subset DEF DoneDemos
  <2>2. Cardinality(DoneDemos) <= Keep + Cardinality(Handler) - 1
    BY DEF KeptInOrder, DoneDemosBounded, DoneDemos
  <2>3. Cardinality(DoneDemos') \in Nat /\ Cardinality(DoneDemos) \in Nat
    BY FiniteDemos DEF DoneDemos
  <2>4. Cardinality(Handler) \in Nat
    BY FiniteRequests
  <2> QED
    BY <2>1, <2>2, <2>3, <2>4, DemoConstants DEF DoneDemosBounded, DoneDemos
<1>5. PICK after \in [Handler -> SUBSET Handler] :
        \A h \in Handler : after[h] = before[h] \cap Marked'
  <2> DEFINE a == [h \in Handler |-> before[h] \cap Marked']
  <2>1. a \in [Handler -> SUBSET Handler] /\ \A h \in Handler : a[h] = before[h] \cap Marked'
    BY <1>1
  <2> QED
    BY <2>1
<1>6. ASSUME NEW h \in Marked'
      PROVE  /\ after[h] \subseteq Marked' \ {h}
             /\ Cardinality(KeptBy(h)') + Cardinality(after[h]) <= Keep + Cardinality(Handler) - 1
  <2>1. h \in Marked /\ h \in Handler /\ before[h] \subseteq Marked \ {h}
    BY <1>1, <1>2 DEF MarkedInOrder
  <2>2. KeptBy(h)' \subseteq KeptBy(h)
    <3>1. \A d \in Demos : d = demo[h] /\ status'[d] \in Existing => status[d] \in Existing
      <4>1. \A d \in Demos : status[d] \in Existing \cup {"absent", "deleted"}
        BY DEF DemoIInv, DemoTypeOK
      <4>2. demo[h] # 0 => status[demo[h]] # "absent"
        BY <2>1 DEF DemoIInv, OwnDemos
      <4>3. \A d \in Demos : d # 0
        BY DEF Demos
      <4>4. "deleted" \notin Existing
        BY DEF Existing
      <4> QED
        BY <4>1, <4>2, <4>3, <4>4
    <3>2. demo'[h] = demo[h] /\ expired'[h] = expired[h]
      OBVIOUS
    <3> QED
      BY <3>1, <3>2 DEF KeptBy, FinishedFor
  <2>3. Cardinality(KeptBy(h)') <= Cardinality(KeptBy(h))
    BY <2>1, <2>2, FinishedDemos, FiniteDemos, FS_Subset
  <2>4. after[h] \in SUBSET before[h] /\ before[h] \in SUBSET Handler
    BY <1>1, <1>5, <2>1
  <2>5. Cardinality(after[h]) <= Cardinality(before[h])
    BY <2>4, FiniteRequests, FS_Subset
  <2>6. Cardinality(KeptBy(h)) + Cardinality(before[h]) <= Keep + Cardinality(Handler) - 1
    BY <1>1, <2>1 DEF MarkedInOrder
  <2>7. /\ Cardinality(KeptBy(h)) \in Nat /\ Cardinality(KeptBy(h)') \in Nat
        /\ Cardinality(after[h]) \in Nat /\ Cardinality(before[h]) \in Nat
        /\ Cardinality(Handler) \in Nat
    <3>1. KeptBy(h) \in SUBSET Demos /\ KeptBy(h)' \in SUBSET Demos
      BY <2>1, <2>2, FinishedDemos
    <3>2. after[h] \in SUBSET Handler
      BY <2>4
    <3> QED
      BY <2>4, <3>1, <3>2, FiniteDemos, FiniteRequests
  <2>8. after[h] \subseteq Marked' \ {h}
    BY <1>5, <2>1
  <2> QED
    BY <2>3, <2>5, <2>6, <2>7, <2>8, DemoConstants
<1>7. ASSUME NEW g \in Marked', NEW h \in Marked', g # h
      PROVE  g \in after[h] \/ (h \in after[g] /\ after[h] \subseteq after[g])
  <2>1. g \in Marked /\ h \in Marked /\ g \in Handler /\ h \in Handler
    BY <1>2
  <2>2. g \in before[h] \/ (h \in before[g] /\ before[h] \subseteq before[g])
    BY <1>1, <1>7, <2>1 DEF MarkedInOrder
  <2> QED
    BY <1>5, <2>1, <2>2
<1>8. MarkedInOrder(after)'
  BY <1>6, <1>7 DEF MarkedInOrder
<1> QED
  BY <1>4, <1>8 DEF KeptInOrder

\* A request marks its demo: it comes after all that are at it, and it will
\* keep at most Keep.
LEMMA MarkStep ==
  ASSUME DemoIInv, KeptInOrder, NEW h \in Handler, MarkFinished(h)
  PROVE  KeptInOrder'
<1>1. PICK before \in [Handler -> SUBSET Handler] : MarkedInOrder(before)
  BY DEF KeptInOrder
<1>2. /\ status' = status /\ demo' = demo /\ expired' = [expired EXCEPT ![h] = ExpiredFor(h)]
      /\ h \notin Marked /\ Marked' = Marked \cup {h} /\ Marked \subseteq Handler
  BY DEF MarkFinished, Marked, DemoIInv, DemoTypeOK
<1>3. DoneDemosBounded'
  BY <1>2 DEF KeptInOrder, DoneDemosBounded
<1>4. PICK after \in [Handler -> SUBSET Handler] :
        after[h] = Marked /\ \A g \in Handler \ {h} : after[g] = before[g]
  <2> DEFINE a == [before EXCEPT ![h] = Marked]
  <2>1. /\ a \in [Handler -> SUBSET Handler]
        /\ a[h] = Marked /\ \A g \in Handler \ {h} : a[g] = before[g]
    BY <1>1, <1>2
  <2> QED
    BY <2>1
<1>5. ASSUME NEW g \in Marked
      PROVE  /\ after[g] \subseteq Marked \ {g}
             /\ Cardinality(KeptBy(g)') + Cardinality(after[g]) <= Keep + Cardinality(Handler) - 1
  <2>1. g \in Handler \ {h}
    BY <1>2
  <2>2. KeptBy(g)' = KeptBy(g)
    BY <1>2, <2>1 DEF KeptBy, FinishedFor, DemoIInv, DemoTypeOK
  <2> QED
    BY <1>1, <1>4, <2>1, <2>2 DEF MarkedInOrder
<1>6. Cardinality(KeptBy(h)') + Cardinality(after[h]) <= Keep + Cardinality(Handler) - 1
  <2>1. KeptBy(h)' = FinishedFor(h) \ ExpiredFor(h)
    BY <1>2 DEF KeptBy, FinishedFor, DemoIInv, DemoTypeOK
  <2>2. FinishedFor(h) \ ExpiredFor(h) =
          {d \in FinishedFor(h) : ~(Cardinality({e \in FinishedFor(h) : e > d}) >= Keep)}
    BY DEF ExpiredFor
  <2>3. Cardinality(KeptBy(h)') <= Keep /\ Cardinality(KeptBy(h)') \in Nat
    <3>1. FinishedFor(h) \in SUBSET Demos
      BY FinishedDemos
    <3>2. Cardinality(FinishedFor(h) \ ExpiredFor(h)) <= Keep
      BY <2>2, <3>1, FewYounger
    <3>3. KeptBy(h)' \in SUBSET Demos
      BY <2>1, <3>1
    <3> QED
      BY <2>1, <3>2, <3>3, FiniteDemos
  <2>4. /\ Cardinality(Marked) <= Cardinality(Handler) - 1
        /\ Cardinality(Marked) \in Nat /\ Cardinality(Handler) \in Nat
    BY <1>2, FiniteRequests
  <2> QED
    BY <1>4, <2>3, <2>4, DemoConstants
<1>7. ASSUME NEW f \in Marked', NEW g \in Marked', f # g
      PROVE  f \in after[g] \/ (g \in after[f] /\ after[g] \subseteq after[f])
  <2>1. CASE g = h
    BY <1>2, <1>4, <1>7, <2>1
  <2>2. CASE f = h
    BY <1>2, <1>4, <1>5, <1>7, <2>2
  <2>3. CASE f \in Marked /\ g \in Marked
    <3>1. f \in Handler \ {h} /\ g \in Handler \ {h}
      BY <1>2, <2>3
    <3> QED
      BY <1>1, <1>4, <1>7, <2>3, <3>1 DEF MarkedInOrder
  <2> QED
    BY <1>2, <2>1, <2>2, <2>3
<1>8. \A g \in Marked' :
        /\ after[g] \subseteq Marked' \ {g}
        /\ Cardinality(KeptBy(g)') + Cardinality(after[g]) <= Keep + Cardinality(Handler) - 1
  BY <1>2, <1>4, <1>5, <1>6
<1>9. MarkedInOrder(after)'
  BY <1>7, <1>8 DEF MarkedInOrder
<1> QED
  BY <1>3, <1>9 DEF KeptInOrder

\* A request commits: what it keeps is what is done now.
LEMMA CommitStep ==
  ASSUME DemoIInv, KeptInOrder, NEW h \in Handler, CommitFinish(h),
         Marked' = Marked \ {h}, \A g \in Handler \ {h} : demo'[g] = demo[g]
  PROVE  KeptInOrder'
<1>1. PICK before \in [Handler -> SUBSET Handler] : MarkedInOrder(before)
  BY DEF KeptInOrder
<1>2. /\ h \in Marked /\ Marked \subseteq Handler
      /\ status' = [d \in Demos |->
           IF d \in expired[h] THEN "deleted"
           ELSE IF d = demo[h] /\ status[d] \in Existing THEN "done" ELSE status[d]]
      /\ expired' = [expired EXCEPT ![h] = {}]
  BY DEF CommitFinish, Marked
<1>3. DoneDemos' = KeptBy(h)
  <2>1. \A d \in Demos : status'[d] = "done" <=> d \in KeptBy(h)
    BY <1>2 DEF KeptBy, FinishedFor, Existing
  <2> QED
    BY <2>1, FinishedDemos DEF DoneDemos
<1>4. /\ before[h] \in SUBSET Handler
      /\ Cardinality(KeptBy(h)) + Cardinality(before[h]) <= Keep + Cardinality(Handler) - 1
      /\ Cardinality(KeptBy(h)) \in Nat /\ Cardinality(before[h]) \in Nat
      /\ Cardinality(Handler) \in Nat
  <2>1. before[h] \in SUBSET Handler /\ KeptBy(h) \in SUBSET Demos
    BY <1>1, FinishedDemos
  <2>2. Cardinality(KeptBy(h)) + Cardinality(before[h]) <= Keep + Cardinality(Handler) - 1
    BY <1>1, <1>2 DEF MarkedInOrder
  <2> QED
    BY <2>1, <2>2, FiniteDemos, FiniteRequests
<1>5. DoneDemosBounded'
  <2>1. Cardinality(DoneDemos') <= Keep + Cardinality(Handler) - 1
    BY <1>3, <1>4, DemoConstants
  <2> QED
    BY <2>1 DEF DoneDemosBounded, DoneDemos
<1>6. PICK after \in [Handler -> SUBSET Handler] :
        \A g \in Handler : after[g] = before[g] \ {h}
  <2> DEFINE a == [g \in Handler |-> before[g] \ {h}]
  <2>1. a \in [Handler -> SUBSET Handler] /\ \A g \in Handler : a[g] = before[g] \ {h}
    BY <1>1
  <2> QED
    BY <2>1
<1>7. ASSUME NEW g \in Marked \ {h}
      PROVE  Cardinality(KeptBy(g)') + Cardinality(after[g]) <= Keep + Cardinality(Handler) - 1
  <2>1. /\ g \in Handler /\ demo'[g] = demo[g] /\ expired'[g] = expired[g]
        /\ before[g] \subseteq Marked \ {g} /\ before[g] \in SUBSET Handler
    BY <1>1, <1>2 DEF MarkedInOrder, DemoIInv, DemoTypeOK
  <2>2. /\ KeptBy(g) \in SUBSET Demos /\ KeptBy(g)' \in SUBSET Demos
        /\ Cardinality(KeptBy(g)) \in Nat /\ Cardinality(KeptBy(g)') \in Nat
        /\ IsFiniteSet(KeptBy(g)) /\ IsFiniteSet(KeptBy(h))
        /\ IsFiniteSet(before[g]) /\ Cardinality(before[g]) \in Nat
    <3>1. KeptBy(g) \in SUBSET Demos /\ KeptBy(h) \in SUBSET Demos
      BY <2>1, FinishedDemos
    <3>2. KeptBy(g)' \in SUBSET Demos
      BY DEF KeptBy, FinishedFor
    <3> QED
      BY <2>1, <3>1, <3>2, FiniteDemos, FiniteRequests
  <2>3. CASE h \in before[g]
    <3>1. KeptBy(g)' \subseteq KeptBy(g) \cup {demo[h]}
      <4>1. \A d \in Demos : status'[d] = "done" => status[d] = "done" \/ d = demo[h]
        BY <1>2
      <4>2. \A d \in Demos : status'[d] \in Existing => status[d] \in Existing
        BY <1>2 DEF Existing
      <4> QED
        BY <2>1, <4>1, <4>2 DEF KeptBy, FinishedFor
    <3>2. Cardinality(KeptBy(g)') <= Cardinality(KeptBy(g)) + 1
      BY <2>2, <3>1, OneMore
    <3>3. Cardinality(after[g]) = Cardinality(before[g]) - 1
      BY <1>6, <2>1, <2>2, <2>3, FS_RemoveElement
    <3>4. Cardinality(KeptBy(g)) + Cardinality(before[g]) <= Keep + Cardinality(Handler) - 1
      BY <1>1 DEF MarkedInOrder
    <3> QED
      BY <1>4, <2>2, <3>2, <3>3, <3>4, DemoConstants
  <2>4. CASE h \notin before[g]
    <3>1. g \in before[h] /\ before[g] \subseteq before[h] /\ g \notin before[g]
      BY <1>1, <1>2, <2>1, <2>4 DEF MarkedInOrder
    <3>2. KeptBy(g)' \subseteq KeptBy(h) \cup {demo[g]}
      BY <1>3, <2>1 DEF KeptBy, FinishedFor, DoneDemos
    <3>3. Cardinality(KeptBy(g)') <= Cardinality(KeptBy(h)) + 1
      BY <1>4, <2>2, <3>2, OneMore
    <3>4. Cardinality(before[g]) + 1 <= Cardinality(before[h])
      <4>1. Cardinality(before[g] \cup {g}) = Cardinality(before[g]) + 1
        BY <2>2, <3>1, FS_AddElement
      <4>2. before[g] \cup {g} \in SUBSET before[h] /\ IsFiniteSet(before[h])
        BY <1>4, <3>1, FiniteRequests
      <4>3. Cardinality(before[g] \cup {g}) <= Cardinality(before[h])
        BY <4>2, FS_Subset
      <4> QED
        BY <4>1, <4>3
    <3>5. Cardinality(after[g]) = Cardinality(before[g])
      BY <1>6, <2>1, <2>4
    <3> QED
      BY <1>4, <2>2, <3>3, <3>4, <3>5, DemoConstants
  <2> QED
    BY <2>3, <2>4
<1>8. ASSUME NEW f \in Marked \ {h}, NEW g \in Marked \ {h}, f # g
      PROVE  f \in after[g] \/ (g \in after[f] /\ after[g] \subseteq after[f])
  <2>1. f \in before[g] \/ (g \in before[f] /\ before[g] \subseteq before[f])
    BY <1>1, <1>8 DEF MarkedInOrder
  <2> QED
    BY <1>2, <1>6, <2>1
<1>9. \A g \in Marked' :
        /\ after[g] \subseteq Marked' \ {g}
        /\ Cardinality(KeptBy(g)') + Cardinality(after[g]) <= Keep + Cardinality(Handler) - 1
  <2>1. \A g \in Marked \ {h} : after[g] \subseteq Marked' \ {g}
    BY <1>1, <1>2, <1>6 DEF MarkedInOrder
  <2> QED
    BY <1>7, <2>1
<1>10. MarkedInOrder(after)'
  BY <1>8, <1>9 DEF MarkedInOrder
<1> QED
  BY <1>5, <1>10 DEF KeptInOrder

LEMMA KeptInOrderNext == DemoIInv /\ DemoIInv' /\ KeptInOrder /\ [Next]_vars => KeptInOrder'
<1> SUFFICES ASSUME DemoIInv, DemoIInv', KeptInOrder, [Next]_vars PROVE KeptInOrder'
  OBVIOUS
<1>a. DemoTypeOK /\ DemoTypeOK' /\ LockedAttempts /\ OwnDemos
  BY DEF DemoIInv
<1> DEFINE StatusKept ==
             \A d \in Demos : /\ status'[d] = "done" => status[d] = "done"
                              /\ status[d] = "deleted" => status'[d] = "deleted"
<1>1. ASSUME NEW h \in Handler, CreateClaimDemoTask(h) PROVE KeptInOrder'
  <2>1. /\ StatusKept /\ expired' = expired /\ Marked' \subseteq Marked
        /\ \A g \in Marked' : demo'[g] = demo[g]
    BY <1>1, <1>a DEF CreateClaimDemoTask, IsNextId, Marked, DemoTypeOK
  <2> QED
    BY <1>a, <2>1, QuietStep
<1>2. ASSUME NEW h \in Handler, CreateAnswerLost(h) PROVE KeptInOrder'
  <2>1. StatusKept /\ expired' = expired /\ pc' = pc /\ demo' = demo
    BY <1>2, <1>a DEF CreateAnswerLost, IsNextId, DemoTypeOK
  <2> QED
    BY <1>a, <2>1, QuietStep DEF Marked
<1>3. ASSUME NEW h \in Handler, NEW w \in Racer,
             LockDemo(h, w) \/ LoseDemo(h, w) \/ ClaimFails(h, w)
      PROVE  KeptInOrder'
  <2>1. status' = status /\ expired' = expired /\ pc' = pc /\ demo' = demo
    BY <1>3 DEF LockDemo, LoseDemo, ClaimFails
  <2> QED
    BY <1>a, <2>1, QuietStep DEF Marked
<1>4. ASSUME NEW h \in Handler, NEW w \in Racer, CommitClaim(h, w) PROVE KeptInOrder'
  <2>1. /\ pc[h] = "racing" /\ attempts[h][w] = "locked" /\ demo[h] # 0
        /\ status' = [status EXCEPT ![demo[h]] = "claimed"]
        /\ expired' = expired /\ pc' = pc /\ demo' = demo
    BY <1>4, <1>a DEF CommitClaim, DemoTypeOK
  <2>2. status[demo[h]] = "pending"
    BY <1>a, <2>1 DEF LockedAttempts
  <2>3. StatusKept
    BY <1>a, <2>1, <2>2 DEF DemoTypeOK
  <2> QED
    BY <1>a, <2>1, <2>3, QuietStep DEF Marked
<1>5. ASSUME NEW h \in Handler, NEW w \in Racer, WinDemo(h, w) \/ WinAnswerLost(h, w)
      PROVE  KeptInOrder'
  BY <1>4, <1>5 DEF WinDemo, WinAnswerLost
<1>6. ASSUME NEW h \in Handler, Judge(h) \/ Record(h) \/ RecordFails(h) PROVE KeptInOrder'
  <2>1. /\ status' = status /\ expired' = expired /\ demo' = demo
        /\ \A g \in Handler \ {h} : pc'[g] = pc[g]
        /\ pc'[h] \in {"recording", "finishing", "cleanup"}
    BY <1>6, <1>a DEF Judge, Record, RecordFails, AfterError, DemoTypeOK
  <2>2. Marked' \subseteq Marked
    BY <2>1 DEF Marked
  <2> QED
    BY <1>a, <2>1, <2>2, QuietStep
<1>7. ASSUME NEW h \in Handler, MarkFinished(h) PROVE KeptInOrder'
  BY <1>7, MarkStep
<1>8. ASSUME NEW h \in Handler, Finish(h) \/ FinishAnswerLost(h) PROVE KeptInOrder'
  <2>1. /\ CommitFinish(h)
        /\ \A g \in Handler \ {h} : pc'[g] = pc[g] /\ demo'[g] = demo[g]
        /\ pc'[h] \in {"idle", "cleanup"}
    BY <1>8, <1>a DEF Finish, FinishAnswerLost, Leave, AfterFailedFinish, AfterError, DemoTypeOK
  <2>2. Marked' = Marked \ {h}
    BY <2>1 DEF Marked
  <2> QED
    BY <2>1, <2>2, CommitStep
<1>9. ASSUME NEW h \in Handler, FinishFails(h) PROVE KeptInOrder'
  <2>1. /\ status' = status /\ expired' = [expired EXCEPT ![h] = {}]
        /\ \A g \in Handler \ {h} : pc'[g] = pc[g] /\ demo'[g] = demo[g]
        /\ pc'[h] \in {"idle", "cleanup"}
    BY <1>9, <1>a DEF FinishFails, Leave, AfterFailedFinish, AfterError, DemoTypeOK
  <2>2. Marked' \subseteq Marked \ {h} /\ Marked \subseteq Handler
    BY <2>1 DEF Marked
  <2>3. \A g \in Marked' : demo'[g] = demo[g] /\ expired'[g] = expired[g]
    BY <1>a, <2>1, <2>2 DEF DemoTypeOK
  <2> QED
    BY <1>a, <2>1, <2>2, <2>3, QuietStep
<1>10. ASSUME NEW d \in Demos, CancelDemo(d) PROVE KeptInOrder'
  <2>1. StatusKept /\ expired' = expired /\ pc' = pc /\ demo' = demo
    BY <1>10, <1>a DEF CancelDemo, DemoTypeOK
  <2> QED
    BY <1>a, <2>1, QuietStep DEF Marked
<1>11. CASE CrashServer
  <2>1. status' = status /\ Marked' = {}
    BY <1>11 DEF CrashServer, Marked
  <2> QED
    BY <1>a, <2>1, QuietStep
<1>12. CASE UNCHANGED vars
  <2>1. status' = status /\ expired' = expired /\ pc' = pc /\ demo' = demo
    BY <1>12 DEF vars
  <2> QED
    BY <1>a, <2>1, QuietStep DEF Marked
<1> QED
  BY <1>1, <1>2, <1>3, <1>5, <1>6, <1>7, <1>8, <1>9, <1>10, <1>11, <1>12 DEF Next

(* However many demos are run, and however their requests overlap, fail or are
   cut off, the finished ones that are kept exceed the limit by less than the
   number of requests served at a time. *)
THEOREM DoneDemosBoundedAlways == Spec => []DoneDemosBounded
<1>1. Init => KeptInOrder
  <2> SUFFICES ASSUME Init PROVE KeptInOrder
    OBVIOUS
  <2>1. DoneDemos = {} /\ Marked = {}
    BY DEF Init, DoneDemos, Marked
  <2>2. DoneDemosBounded
    <3>1. Cardinality(DoneDemos) = 0 /\ Cardinality(Handler) \in Nat
      BY <2>1, FS_EmptySet, FiniteRequests
    <3> QED
      BY <3>1, DemoConstants DEF DoneDemosBounded, DoneDemos
  <2>3. MarkedInOrder([h \in Handler |-> {}])
    BY <2>1 DEF MarkedInOrder
  <2>4. [h \in Handler |-> {}] \in [Handler -> SUBSET Handler]
    OBVIOUS
  <2> QED
    BY <2>2, <2>3, <2>4 DEF KeptInOrder
<1>2. KeptInOrder => DoneDemosBounded
  BY DEF KeptInOrder
<1> QED
  BY <1>1, <1>2, KeptInOrderNext, DemoWellFormedAlways, PTL DEF Spec
=============================================================================
