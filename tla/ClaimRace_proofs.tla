--------------------------- MODULE ClaimRace_proofs ---------------------------
(***************************************************************************)
(* Proofs about ClaimRace, for any number of processes, tasks and faults   *)
(* and any lease: the statements of ClaimNext come down to TaskStore's.    *)
(***************************************************************************)
EXTENDS ClaimRace, TaskStore_proofs

LEMMA RaceInvariantInit == RaceInit => RaceIInv
<1> SUFFICES ASSUME RaceInit PROVE RaceIInv
  OBVIOUS
<1>1. RaceTypeOK
  <2>1. /\ 1 \in 1..(Workers + Tasks + 1) /\ 0 \in 0..MaxFaults /\ 0 \in 0..MaxTime
        /\ 0 \in Age
    BY RaceConstants, StoreConstants DEF Age
  <2>2. /\ child \in [Worker -> Place] /\ rows \in [Worker -> SUBSET Task]
        /\ printed \in [Worker -> [Task -> Nat]]
    BY DEF RaceInit, Place
  <2>3. /\ locked \in [Worker -> Task \cup {NoTask}] /\ answer \in [Worker -> Task \cup {NoTask}]
        /\ began \in [Worker -> Age]
    BY <2>1 DEF RaceInit
  <2> QED
    BY <2>1, <2>2, <2>3, TypeInit DEF RaceInit, RaceTypeOK
<1>2. LockedRows /\ NotStarted
  BY DEF RaceInit, LockedRows, NotStarted
<1> QED
  BY <1>1, <1>2 DEF RaceInit, RaceIInv

-----------------------------------------------------------------------------
(* The steps of the table *)

\* A locked row is claimable, and the update of it is TaskStore's ClaimNext.
LEMMA CommitIsClaim ==
  ASSUME RaceIInv, NEW c \in Worker, CommitRow(c)
  PROVE  /\ locked[c] \in Task /\ ClaimNext(c, locked[c], began[c])
         /\ began[c] \in Age
<1>1. locked[c] \in Task /\ Claimable(locked[c], began[c]) /\ began[c] \in Age
  BY DEF RaceIInv, RaceTypeOK, LockedRows, CommitRow
<1> QED
  BY <1>1 DEF CommitRow, UpdateRow, ClaimNext

LEMMA RaceStoreNext == RaceIInv /\ [RaceNext]_raceVars => [Next]_vars
<1> SUFFICES ASSUME RaceIInv, [RaceNext]_raceVars PROVE [Next]_vars
  OBVIOUS
<1>1. ASSUME SeedTask PROVE Next
  <2>1. index \in Task /\ CreateTask(index, 1)
    BY <1>1 DEF SeedTask
  <2>2. 1 \in Position
    BY StoreConstants DEF Position
  <2> QED
    BY <2>1, <2>2 DEF Next
<1>2. ASSUME NEW c \in Worker, CommitRow(c) PROVE Next
  BY <1>2, CommitIsClaim DEF Next
<1>3. ASSUME NEW c \in Worker, Child(c) \/ Fail(c) \/ CommitAnswerLost(c) PROVE [Next]_vars
  <2>1. CASE CommitClaim(c) \/ CommitAnswerLost(c)
    BY <1>2, <2>1 DEF CommitClaim, CommitAnswerLost
  <2> QED
    BY <1>3, <2>1 DEF Child, Begin, Select, LockRow, SkipRow, FindNothing, PrintClaim, Fail
<1>4. CASE RaceTick
  BY <1>4 DEF RaceTick, Next
<1>5. CASE Coordinate \/ CoordinatorFails
  BY <1>1, <1>5 DEF Coordinate, CoordinatorFails, CreateDatabase, EndSeeding, StartChild,
                    EndStarting, WaitChild, Judge, DropDatabase
<1> QED
  BY <1>3, <1>4, <1>5 DEF RaceNext, raceVars

-----------------------------------------------------------------------------
(* The types *)

LEMMA RaceTypeNext == RaceIInv /\ [RaceNext]_raceVars => RaceTypeOK'
<1> SUFFICES ASSUME RaceIInv, [RaceNext]_raceVars PROVE RaceTypeOK'
  OBVIOUS
<1>0. RaceTypeOK /\ TypeOK'
  BY RaceStoreNext, TypeNext DEF RaceIInv, RaceTypeOK
<1> DEFINE Where ==
      /\ at \in {"creating", "seeding", "starting", "waiting", "dropping", "ended"}
      /\ index \in 1..(Workers + Tasks + 1)
      /\ result \in {"none", "pass", "assertions", "error"}
      /\ database \in BOOLEAN
<1> DEFINE Children ==
      /\ child \in [Worker -> Place]
      /\ rows \in [Worker -> SUBSET Task]
      /\ locked \in [Worker -> Task \cup {NoTask}]
      /\ answer \in [Worker -> Task \cup {NoTask}]
      /\ began \in [Worker -> Age]
      /\ printed \in [Worker -> [Task -> Nat]]
<1> DEFINE Bounds == faults \in 0..MaxFaults /\ time \in 0..MaxTime
<1> SUFFICES Where' /\ Children' /\ Bounds'
  BY <1>0 DEF RaceTypeOK
<1>a. Where /\ Children /\ Bounds
  BY <1>0 DEF RaceTypeOK
<1>b. /\ (UNCHANGED <<coordinator, database>> => Where')
      /\ (UNCHANGED <<child, transaction, answer, printed>> => Children')
      /\ (UNCHANGED <<faults, time>> => Bounds')
  BY <1>a DEF coordinator, transaction
<1>c. ASSUME Fault, UNCHANGED time PROVE Bounds'
  BY <1>a, <1>c, RaceConstants DEF Fault
<1>e. index \in Worker \cup Task => index + 1 \in 1..(Workers + Tasks + 1)
  BY RaceConstants
<1>f. 1 \in 1..(Workers + Tasks + 1)
  BY RaceConstants
<1>d. 0 \in Age
  BY StoreConstants DEF Age
<1>1. ASSUME NEW c \in Worker, Child(c) PROVE Where' /\ Children' /\ Bounds'
  <2> USE <1>a, <1>d DEF Become
  <2>1. CASE Begin(c)
    BY <1>b, <2>1 DEF Begin, Place, Running, InTransaction
  <2>2. CASE Select(c)
    BY <1>b, <2>2 DEF Select, Place, Running, InTransaction
  <2>3. CASE LockRow(c)
    BY <1>b, <2>3 DEF LockRow, Place, Running, InTransaction
  <2>4. CASE SkipRow(c)
    BY <1>b, <2>4 DEF SkipRow
  <2>5. CASE FindNothing(c)
    BY <1>b, <2>5 DEF FindNothing, AfterNothing, Place
  <2>6. CASE CommitClaim(c)
    BY <1>b, <2>6 DEF CommitClaim, CommitRow, Place, Running
  <2>7. CASE PrintClaim(c)
    <3>1. answer[c] \in Task
      BY <2>7 DEF PrintClaim, RaceIInv
    <3>2. printed' \in [Worker -> [Task -> Nat]]
      BY <2>7, <3>1 DEF PrintClaim
    <3> QED
      BY <1>b, <2>7, <3>2 DEF PrintClaim, transaction, Place, Running
  <2> QED
    BY <1>1, <2>1, <2>2, <2>3, <2>4, <2>5, <2>6, <2>7 DEF Child
<1>2. ASSUME NEW c \in Worker, Fail(c) PROVE Where' /\ Children' /\ Bounds'
  BY <1>a, <1>b, <1>c, <1>d, <1>2 DEF Fail, Become, AfterError, Place
<1>3. ASSUME NEW c \in Worker, CommitAnswerLost(c) PROVE Where' /\ Children' /\ Bounds'
  BY <1>a, <1>b, <1>c, <1>d, <1>3 DEF CommitAnswerLost, CommitRow, Become, AfterError, Place
<1>4. CASE RaceTick
  <2>1. began' \in [Worker -> Age]
    BY <1>a, <1>4, StoreConstants DEF RaceTick, Age
  <2>2. Bounds'
    BY <1>a, <1>4, RaceConstants DEF RaceTick
  <2> QED
    BY <1>a, <1>b, <1>4, <2>1, <2>2 DEF RaceTick
<1>5. CASE Coordinate
  <2> USE <1>a DEF Return
  <2>1. CASE CreateDatabase
    BY <1>b, <2>1 DEF CreateDatabase
  <2>2. CASE SeedTask \/ EndSeeding
    BY <1>b, <1>e, <1>f, <2>2 DEF SeedTask, EndSeeding
  <2>3. CASE StartChild
    <3>1. Where'
      BY <1>e, <2>3 DEF StartChild
    <3> QED
      BY <1>b, <2>3, <3>1 DEF StartChild, Become, transaction, Place, Running
  <2>4. CASE EndStarting \/ WaitChild
    BY <1>b, <1>e, <1>f, <2>4 DEF EndStarting, WaitChild
  <2>5. CASE Judge
    BY <1>b, <2>5 DEF Judge
  <2>6. CASE DropDatabase
    BY <1>b, <1>c, <2>6 DEF DropDatabase
  <2> QED
    BY <1>5, <2>1, <2>2, <2>3, <2>4, <2>5, <2>6 DEF Coordinate
<1>6. CASE CoordinatorFails
  BY <1>a, <1>b, <1>c, <1>6 DEF CoordinatorFails
<1>7. CASE UNCHANGED raceVars
  BY <1>b, <1>7 DEF raceVars
<1> QED
  BY <1>1, <1>2, <1>3, <1>4, <1>5, <1>6, <1>7 DEF RaceNext

-----------------------------------------------------------------------------
(* The locked rows *)

\* A row is not less claimable for a transaction as long as nobody else writes it.
LEMMA ClaimableKept ==
  ASSUME NEW t \in Task, NEW age, status'[t] = status[t], lease_left'[t] = lease_left[t],
         Claimable(t, age)
  PROVE  Claimable(t, age)'
BY DEF Claimable, ExpiredAt

\* A lease that has run out for a transaction stays behind its clock.
LEMMA ClaimableAtTick ==
  ASSUME TypeOK, NEW t \in Task, NEW age \in Age, age + 1 \in Age, Tick, Claimable(t, age)
  PROVE  Claimable(t, age + 1)'
<1>1. status'[t] = status[t]
  BY DEF Tick
<1>2. CASE status[t] = "pending"
  BY <1>1, <1>2 DEF Claimable
<1>3. CASE status[t] \in Active /\ ExpiredAt(t, age)
  <2>1. lease_left[t] \in LongExpired..LeaseDuration /\ lease_left[t] < -age
    BY <1>3 DEF ExpiredAt, TypeOK, LeaseLeft
  <2>2. lease_left[t] \in Int /\ lease_left[t] # NoLease /\ age \in Int
    BY <2>1, StoreConstants DEF LongExpired, Age
  <2>3. lease_left'[t] = IF lease_left[t] = LongExpired THEN lease_left[t] ELSE lease_left[t] - 1
    BY <2>2 DEF Tick
  <2>4. lease_left'[t] \in Int /\ lease_left'[t] < -(age + 1)
    BY <2>1, <2>2, <2>3, StoreConstants DEF LongExpired, Age
  <2>5. lease_left'[t] # NoLease
    BY <2>4, StoreConstants
  <2>6. ExpiredAt(t, age + 1)'
    BY <2>4, <2>5 DEF ExpiredAt
  <2> QED
    BY <1>1, <1>3, <2>6 DEF Claimable
<1> QED
  BY <1>2, <1>3 DEF Claimable

LEMMA SameLockedRows ==
  ASSUME RaceIInv, UNCHANGED <<vars, locked, began>>,
         \A c \in Worker : child[c] = "updating" => child'[c] = "updating",
         \A c \in Worker : child'[c] = "updating" => child[c] = "updating",
         database' => database
  PROVE  LockedRows'
<1>1. \A t \in Task, age \in Age : Claimable(t, age) => Claimable(t, age)'
  BY DEF vars, Claimable, ExpiredAt
<1> QED
  BY <1>1 DEF RaceIInv, RaceTypeOK, LockedRows

\* A process that is not updating has locked no row.
LEMMA NotUpdating ==
  ASSUME RaceIInv, NEW c \in Worker, child[c] # "updating"
  PROVE  locked[c] = NoTask
BY DEF RaceIInv, LockedRows

\* What the others have locked does not change when one process moves.
LEMMA OthersKeepRows ==
  ASSUME RaceIInv, NEW c \in Worker, NEW d \in Worker \ {c}, locked[d] # NoTask,
         child'[d] = child[d], locked'[d] = locked[d], began'[d] = began[d],
         status'[locked[d]] = status[locked[d]], lease_left'[locked[d]] = lease_left[locked[d]]
  PROVE  child'[d] = "updating" /\ Claimable(locked[d], began[d])'
<1>1. child[d] = "updating" /\ locked[d] \in Task /\ Claimable(locked[d], began[d])
  BY DEF RaceIInv, RaceTypeOK, LockedRows
<1> QED
  BY <1>1 DEF Claimable, ExpiredAt

LEMMA ChildLocks ==
  ASSUME RaceIInv, NEW c \in Worker, Child(c) \/ Fail(c) \/ CommitAnswerLost(c)
  PROVE  LockedRows'
<1> USE DEF Become
<1>0. /\ child \in [Worker -> Place] /\ locked \in [Worker -> Task \cup {NoTask}]
      /\ began \in [Worker -> Age] /\ NoTask \notin Task
      /\ status \in [Task -> TaskStatus] /\ lease_left \in [Task -> LeaseLeft]
  BY RaceConstants DEF RaceIInv, RaceTypeOK, TypeOK
<1>1. ASSUME \A d \in Worker \ {c} : /\ child'[d] = child[d]
                                     /\ locked'[d] = locked[d] /\ began'[d] = began[d],
             UNCHANGED <<status, lease_left, database>>,
             locked'[c] = NoTask, child'[c] # "updating"
      PROVE  LockedRows'
  <2>1. \A d \in Worker \ {c} : locked[d] # NoTask =>
          child'[d] = "updating" /\ Claimable(locked[d], began[d])'
    BY <1>1, OthersKeepRows
  <2> QED
    BY <1>1, <2>1 DEF RaceIInv, LockedRows
<1>2. CASE Begin(c) \/ Select(c) \/ SkipRow(c) \/ FindNothing(c) \/ PrintClaim(c) \/ Fail(c)
  <2>1. /\ \A d \in Worker \ {c} : /\ child'[d] = child[d]
                                   /\ locked'[d] = locked[d] /\ began'[d] = began[d]
        /\ UNCHANGED <<status, lease_left, database>>
        /\ child'[c] # "updating"
    BY <1>0, <1>2 DEF Begin, Select, SkipRow, FindNothing, PrintClaim, Fail, vars, transaction,
                      AfterError, AfterNothing
  <2>2. locked'[c] = NoTask
    BY <1>0, <1>2, NotUpdating
    DEF Begin, Select, SkipRow, FindNothing, PrintClaim, Fail, transaction
  <2> QED
    BY <1>1, <2>1, <2>2
<1>3. CASE LockRow(c)
  <2>1. PICK t \in Task : TakesRow(c, t) /\ locked' = [locked EXCEPT ![c] = t]
    BY <1>3 DEF LockRow
  <2>2. /\ child' = [child EXCEPT ![c] = "updating"]
        /\ UNCHANGED <<status, lease_left, began, database>>
    BY <1>3 DEF LockRow, vars
  <2>3. \A u \in Task, age \in Age : Claimable(u, age)' <=> Claimable(u, age)
    BY <2>2 DEF Claimable, ExpiredAt
  <2> QED
    BY <1>0, <2>1, <2>2, <2>3 DEF RaceIInv, LockedRows, TakesRow
<1>4. CASE CommitClaim(c) \/ CommitAnswerLost(c)
  <2>1. CommitRow(c)
    BY <1>4 DEF CommitClaim, CommitAnswerLost
  <2>2. locked[c] \in Task
    BY <2>1, CommitIsClaim
  <2>3. \A t \in Task \ {locked[c]} :
          status'[t] = status[t] /\ lease_left'[t] = lease_left[t]
    BY <1>0, <2>1, <2>2 DEF CommitRow, UpdateRow
  <2>4. /\ \A d \in Worker \ {c} : /\ child'[d] = child[d]
                                   /\ locked'[d] = locked[d] /\ began'[d] = began[d]
        /\ locked'[c] = NoTask /\ child'[c] # "updating" /\ database' = database
    BY <1>0, <1>4, <2>1 DEF CommitClaim, CommitAnswerLost, CommitRow, AfterError
  <2>5. \A d \in Worker \ {c} : locked[d] # NoTask => locked[d] \in Task \ {locked[c]}
    BY <1>0, <2>2 DEF RaceIInv, LockedRows
  <2>6. \A d \in Worker \ {c} : locked[d] # NoTask =>
          child'[d] = "updating" /\ Claimable(locked[d], began[d])'
    BY <2>3, <2>4, <2>5, OthersKeepRows
  <2> QED
    BY <2>4, <2>6 DEF RaceIInv, LockedRows
<1> QED
  BY <1>2, <1>3, <1>4 DEF Child

LEMMA CoordinatorLocks ==
  ASSUME RaceIInv, Coordinate \/ CoordinatorFails
  PROVE  LockedRows'
<1>0. /\ child \in [Worker -> Place] /\ locked \in [Worker -> Task \cup {NoTask}]
      /\ NoTask \notin Task /\ LockedRows /\ NotStarted
  BY RaceConstants DEF RaceIInv, RaceTypeOK
<1>1. CASE CreateDatabase \/ SeedTask
  <2>1. at \in {"creating", "seeding"} /\ child' = child /\ locked' = locked
    BY <1>1 DEF CreateDatabase, SeedTask, transaction
  <2>2. \A c \in Worker : child[c] = "unstarted"
    BY <1>0, <2>1 DEF NotStarted
  <2>3. \A c \in Worker : locked[c] = NoTask
    BY <2>2, NotUpdating
  <2> QED
    BY <2>1, <2>2, <2>3 DEF LockedRows
<1>2. CASE StartChild
  <2>1. /\ index \in Worker /\ child[index] = "unstarted" /\ child' = [child EXCEPT ![index] = "idle"]
        /\ UNCHANGED <<vars, locked, began, database>>
    BY <1>0, <1>2, RaceConstants DEF StartChild, Become, transaction, NotStarted
  <2>2. \A c \in Worker : child[c] = "updating" <=> child'[c] = "updating"
    BY <1>0, <2>1
  <2> QED
    BY <2>1, <2>2, SameLockedRows
<1>3. CASE EndSeeding \/ EndStarting \/ WaitChild \/ Judge
  BY <1>3, SameLockedRows DEF EndSeeding, EndStarting, WaitChild, Judge, transaction
<1>4. CASE CoordinatorFails
  <2>1. at \in {"creating", "seeding", "starting"} /\ UNCHANGED <<vars, child, locked, began>>
    BY <1>4 DEF CoordinatorFails, transaction
  <2>2. CASE at = "creating"
    <3>1. \A c \in Worker : child[c] = "unstarted"
      BY <1>0, <2>2 DEF NotStarted
    <3>2. \A c \in Worker : locked[c] = NoTask
      BY <3>1, NotUpdating
    <3> QED
      BY <2>1, <3>1, <3>2 DEF LockedRows
  <2>3. CASE at # "creating"
    BY <1>0, <2>1, <2>3, SameLockedRows DEF NotStarted
  <2> QED
    BY <2>2, <2>3
<1>5. CASE DropDatabase
  <2>1. CASE database' = FALSE /\ locked' = [c \in Worker |-> NoTask]
    BY <2>1 DEF LockedRows
  <2>2. CASE UNCHANGED <<database, locked>>
    BY <1>5, <2>2, SameLockedRows DEF DropDatabase
  <2> QED
    BY <1>5, <2>1, <2>2 DEF DropDatabase
<1> QED
  BY <1>1, <1>2, <1>3, <1>4, <1>5 DEF Coordinate

LEMMA TickLocks ==
  ASSUME RaceIInv, RaceTick, began' \in [Worker -> Age]
  PROVE  LockedRows'
<1>0. /\ child \in [Worker -> Place] /\ locked \in [Worker -> Task \cup {NoTask}]
      /\ began \in [Worker -> Age] /\ NoTask \notin Task /\ TypeOK
      /\ UNCHANGED <<child, locked, database>> /\ Tick
  BY RaceConstants DEF RaceIInv, RaceTypeOK, RaceTick
<1>1. ASSUME NEW c \in Worker, locked[c] # NoTask
      PROVE  child[c] = "updating" /\ Claimable(locked[c], began[c])'
  <2>1. child[c] = "updating" /\ locked[c] \in Task /\ Claimable(locked[c], began[c])
    BY <1>0, <1>1 DEF RaceIInv, LockedRows
  <2>2. began'[c] = began[c] + 1 /\ began'[c] \in Age
    BY <1>0, <2>1 DEF RaceTick, InTransaction
  <2> DEFINE t == locked[c]
  <2>3. \A u \in Task, age \in Age : age + 1 \in Age /\ Claimable(u, age) => Claimable(u, age + 1)'
    BY <1>0, ClaimableAtTick
  <2>4. PICK u \in Task, age \in Age : u = locked[c] /\ age = began[c]
    BY <1>0, <2>1
  <2>5. Claimable(u, age + 1)'
    BY <2>1, <2>2, <2>3, <2>4
  <2>6. locked'[c] = u /\ began'[c] = age + 1
    BY <1>0, <2>2, <2>4
  <2> QED
    BY <2>1, <2>5, <2>6
<1> QED
  BY <1>0, <1>1 DEF RaceIInv, LockedRows

LEMMA RaceInvariantNext == RaceIInv /\ [RaceNext]_raceVars => RaceIInv'
<1> SUFFICES ASSUME RaceIInv, [RaceNext]_raceVars PROVE RaceIInv'
  OBVIOUS
<1>0. RaceTypeOK' /\ RaceTypeOK /\ NotStarted
  BY RaceTypeNext DEF RaceIInv
<1>1. LockedRows'
  <2>1. CASE RaceTick
    BY <1>0, <2>1, TickLocks DEF RaceTypeOK
  <2>2. CASE UNCHANGED raceVars
    BY <2>2, SameLockedRows DEF raceVars, transaction
  <2> QED
    BY <2>1, <2>2, ChildLocks, CoordinatorLocks DEF RaceNext
<1>2. NotStarted'
  <2>1. CASE Coordinate
    <3>1. child \in [Worker -> Place] /\ Worker = 1..Workers /\ index \in Int
      BY <1>0, RaceConstants DEF RaceTypeOK
    <3>2. CASE StartChild
      <4>1. \A c \in Worker : c >= index + 1 => c >= index /\ c # index
        BY <3>1
      <4> QED
        BY <1>0, <3>1, <3>2, <4>1 DEF StartChild, Become, NotStarted
    <3>3. CASE CreateDatabase \/ SeedTask \/ EndSeeding \/ EndStarting \/ WaitChild \/ Judge
      BY <1>0, <3>3 DEF CreateDatabase, SeedTask, EndSeeding, EndStarting, WaitChild, Judge,
                        Return, NotStarted
    <3>4. CASE DropDatabase
      BY <3>4 DEF DropDatabase, NotStarted
    <3> QED
      BY <2>1, <3>2, <3>3, <3>4 DEF Coordinate
  <2>2. CASE CoordinatorFails
    BY <2>2 DEF CoordinatorFails, NotStarted
  <2>3. ASSUME NEW c \in Worker, Child(c) \/ Fail(c) \/ CommitAnswerLost(c) PROVE NotStarted'
    <3>1. /\ child[c] # "unstarted" /\ (\A d \in Worker \ {c} : child'[d] = child[d])
          /\ UNCHANGED <<at, index, database>>
      BY <1>0, <2>3 DEF Child, Begin, Select, LockRow, SkipRow, FindNothing, CommitClaim, CommitRow,
                        PrintClaim, Fail, CommitAnswerLost, Become, coordinator, Running,
                        InTransaction, RaceTypeOK
    <3> QED
      BY <1>0, <3>1 DEF NotStarted
  <2>4. CASE RaceTick \/ UNCHANGED raceVars
    BY <1>0, <2>4 DEF RaceTick, raceVars, coordinator, NotStarted
  <2> QED
    BY <2>1, <2>2, <2>3, <2>4 DEF RaceNext
<1>3. \A c \in Worker : child'[c] = "answered" => answer'[c] \in Task
  <2>0. /\ child \in [Worker -> Place] /\ answer \in [Worker -> Task \cup {NoTask}]
        /\ \A c \in Worker : child[c] = "answered" => answer[c] \in Task
    BY DEF RaceIInv, RaceTypeOK
  <2>1. ASSUME NEW c \in Worker, CommitClaim(c) PROVE \A d \in Worker : child'[d] = "answered" => answer'[d] \in Task
    <3>1. locked[c] \in Task
      BY <2>1, CommitIsClaim DEF CommitClaim
    <3> QED
      BY <2>0, <2>1, <3>1 DEF CommitClaim, Become
  <2>2. ASSUME NEW c \in Worker,
               \/ Begin(c) \/ Select(c) \/ LockRow(c) \/ SkipRow(c) \/ FindNothing(c)
               \/ PrintClaim(c) \/ Fail(c) \/ CommitAnswerLost(c)
        PROVE \A d \in Worker : child'[d] = "answered" => answer'[d] \in Task
    BY <2>0, <2>2 DEF Begin, Select, LockRow, SkipRow, FindNothing, PrintClaim, Fail,
                      CommitAnswerLost, CommitRow, Become, AfterNothing, AfterError
  <2>3. CASE RaceTick \/ Coordinate \/ CoordinatorFails \/ UNCHANGED raceVars
    BY <2>0, <2>3 DEF RaceTick, Coordinate, CoordinatorFails, CreateDatabase, SeedTask, EndSeeding,
                      StartChild, EndStarting, WaitChild, Judge, DropDatabase, Become, raceVars
  <2> QED
    BY <2>1, <2>2, <2>3 DEF RaceNext, Child
<1> QED
  BY <1>0, <1>1, <1>2, <1>3 DEF RaceIInv

(* The inductive invariant holds: a row is locked by one process, and stays
   claimable for it until it commits. *)
THEOREM RaceWellFormedAlways == RaceSpec => []RaceIInv
BY RaceInvariantInit, RaceInvariantNext, PTL DEF RaceSpec

(* However the statements of the claims interleave, the table of the race sees
   TaskStore's transactions only, so every theorem of TaskStore holds of it. *)
THEOREM RaceImplementsStoreAlways == RaceSpec => RaceImplementsStore
<1>1. RaceInit => Init
  BY DEF RaceInit
<1> QED
  BY <1>1, RaceWellFormedAlways, RaceStoreNext, PTL DEF RaceSpec, RaceImplementsStore, Spec

-----------------------------------------------------------------------------
(* The verdict *)

LEMMA VerdictInit == RaceInit => VerdictIInv
<1> SUFFICES ASSUME RaceInit PROVE VerdictIInv
  OBVIOUS
<1>1. AnswersHeld /\ Seeded /\ WaitedFor /\ VerdictIsTrue /\ NothingLeftOut
  BY RaceConstants DEF RaceInit, Init, AnswersHeld, Seeded, WaitedFor, VerdictIsTrue, NothingLeftOut
<1>2. ASSUME NEW t \in Task
      PROVE  ownership_version[t] = 0 /\ NoneHolds(Held(t)) /\ ~OneHolds(Held(t))
  BY RaceConstants DEF RaceInit, Init, Held, NoneHolds, OneHolds
<1> QED
  BY <1>1, <1>2 DEF VerdictIInv, ClaimsHeld

LEMMA RaceTypes ==
  ASSUME RaceIInv
  PROVE  /\ child \in [Worker -> Place] /\ rows \in [Worker -> SUBSET Task]
         /\ locked \in [Worker -> Task \cup {NoTask}] /\ answer \in [Worker -> Task \cup {NoTask}]
         /\ printed \in [Worker -> [Task -> Nat]] /\ began \in [Worker -> Age]
         /\ status \in [Task -> TaskStatus] /\ ownership_version \in [Task -> Version]
         /\ index \in Nat \ {0} /\ NoTask \notin Task /\ Version \subseteq Nat
<1>1. RaceTypeOK /\ TypeOK
  BY DEF RaceIInv, RaceTypeOK
<1>2. index \in Nat \ {0} /\ NoTask \notin Task /\ Version \subseteq Nat
  BY <1>1, RaceConstants, StoreConstants DEF RaceTypeOK, Version
<1> QED
  BY <1>1, <1>2 DEF RaceTypeOK, TypeOK

\* A process that the coordinator is about to start has not run yet.
LEMMA StartedOnce ==
  ASSUME RaceIInv, StartChild
  PROVE  index \in Worker /\ child[index] = "unstarted"
BY RaceConstants DEF RaceIInv, NotStarted, StartChild

LEMMA AnswersNext == RaceIInv /\ AnswersHeld /\ [RaceNext]_raceVars => AnswersHeld'
<1> SUFFICES ASSUME RaceIInv, AnswersHeld, [RaceNext]_raceVars PROVE AnswersHeld'
  OBVIOUS
<1> USE RaceTypes DEF AnswersHeld, Become
<1>1. ASSUME NEW c \in Worker, Child(c) \/ Fail(c) \/ CommitAnswerLost(c) PROVE AnswersHeld'
  BY <1>1 DEF Child, Begin, Select, LockRow, SkipRow, FindNothing, PrintClaim, CommitClaim, CommitRow,
              Fail, CommitAnswerLost, AfterError, AfterNothing
<1>2. CASE StartChild
  BY <1>2, StartedOnce DEF StartChild
<1>3. CASE \/ CreateDatabase \/ SeedTask \/ EndSeeding \/ EndStarting \/ WaitChild \/ Judge
           \/ DropDatabase \/ CoordinatorFails \/ RaceTick \/ UNCHANGED raceVars
  BY <1>3 DEF CreateDatabase, SeedTask, EndSeeding, EndStarting, WaitChild, Judge, DropDatabase,
              CoordinatorFails, RaceTick, raceVars
<1> QED
  BY <1>1, <1>2, <1>3 DEF RaceNext, Coordinate

\* A commit hands out a task, in the table and to the process.
LEMMA CommitEffect ==
  ASSUME RaceIInv, NEW c \in Worker, CommitRow(c)
  PROVE  /\ locked[c] \in Task
         /\ status' = [status EXCEPT ![locked[c]] = "claimed"]
         /\ ownership_version' = [ownership_version EXCEPT ![locked[c]] = @ + 1]
         /\ locked' = [locked EXCEPT ![c] = NoTask]
BY CommitIsClaim, RaceTypes DEF CommitRow, UpdateRow, NextToken

LEMMA SeededNext == RaceIInv /\ Seeded /\ [RaceNext]_raceVars => Seeded'
<1> SUFFICES ASSUME RaceIInv, Seeded, [RaceNext]_raceVars PROVE Seeded'
  OBVIOUS
<1> USE RaceTypes
<1>1. ASSUME NEW c \in Worker, CommitRow(c) PROVE Seeded'
  <2>1. UNCHANGED <<at, index>>
    BY <1>1 DEF CommitRow, coordinator
  <2> QED
    BY <1>1, <2>1, CommitEffect DEF Seeded
<1>2. CASE SeedTask
  <2>1. /\ at = "seeding" /\ at' = at /\ index' = index + 1 /\ index \in Task
        /\ status[index] = "absent" /\ status' = [status EXCEPT ![index] = "pending"]
        /\ UNCHANGED ownership_version
    BY <1>2 DEF SeedTask, CreateTask
  <2>2. \A t \in Task : t < index + 1 => t < index \/ t = index
    BY RaceConstants
  <2> QED
    BY <2>1, <2>2 DEF Seeded
<1>3. CASE EndSeeding
  <2>1. /\ at = "seeding" /\ at' = "starting" /\ index \notin Task
        /\ UNCHANGED <<status, ownership_version>>
    BY <1>3 DEF EndSeeding, vars
  <2>2. \A t \in Task : t < index
    BY <2>1, RaceConstants
  <2> QED
    BY <2>1, <2>2 DEF Seeded
<1>4. CASE CreateDatabase
  <2>1. \A t \in Task : ~(t < 1)
    BY RaceConstants
  <2> QED
    BY <1>4, <2>1 DEF CreateDatabase, Seeded, vars
<1>5. CASE \/ StartChild \/ EndStarting \/ WaitChild \/ Judge \/ DropDatabase \/ CoordinatorFails
  <2>1. /\ UNCHANGED <<status, ownership_version>> /\ at' \notin {"creating", "seeding"}
        /\ at' \in {"starting", "waiting"} => at \in {"starting", "waiting"}
    BY <1>5 DEF StartChild, EndStarting, WaitChild, Judge, DropDatabase, CoordinatorFails, Return, vars
  <2> QED
    BY <2>1 DEF Seeded
<1>6. ASSUME NEW c \in Worker,
             Begin(c) \/ Select(c) \/ LockRow(c) \/ SkipRow(c) \/ FindNothing(c) \/ PrintClaim(c) \/ Fail(c)
      PROVE  Seeded'
  BY <1>6 DEF Begin, Select, LockRow, SkipRow, FindNothing, PrintClaim, Fail, Seeded, vars, coordinator
<1>7. CASE RaceTick \/ UNCHANGED raceVars
  BY <1>7 DEF RaceTick, Tick, Seeded, vars, coordinator, raceVars
<1> QED
  BY <1>1, <1>2, <1>3, <1>4, <1>5, <1>6, <1>7
  DEF RaceNext, Coordinate, Child, CommitClaim, CommitAnswerLost

\* One more claim of one process.
LEMMA HoldersCounted ==
  ASSUME NEW held \in [Worker -> Nat], NEW more \in [Worker -> Nat], NEW c \in Worker,
         more[c] = held[c] + 1, \A d \in Worker \ {c} : more[d] = held[d]
  PROVE  ~NoneHolds(more) /\ (OneHolds(more) <=> NoneHolds(held))
<1>1. ~NoneHolds(more)
  BY DEF NoneHolds
<1>2. ASSUME OneHolds(more) PROVE NoneHolds(held)
  <2>1. PICK d \in Worker : more[d] = 1 /\ \A e \in Worker \ {d} : more[e] = 0
    BY <1>2 DEF OneHolds
  <2>2. d = c
    BY <2>1
  <2> QED
    BY <2>1, <2>2 DEF NoneHolds
<1>3. ASSUME NoneHolds(held) PROVE OneHolds(more)
  BY <1>3 DEF NoneHolds, OneHolds
<1> QED
  BY <1>1, <1>2, <1>3

LEMMA HeldType ==
  ASSUME RaceIInv, NEW t \in Task
  PROVE  Held(t) \in [Worker -> Nat]
BY RaceTypes DEF Held

LEMMA ClaimsNext ==
  RaceIInv /\ RaceIInv' /\ AnswersHeld /\ ClaimsHeld /\ [RaceNext]_raceVars => ClaimsHeld'
<1> SUFFICES ASSUME RaceIInv, RaceIInv', AnswersHeld, ClaimsHeld, [RaceNext]_raceVars
             PROVE  ClaimsHeld'
  OBVIOUS
<1> USE RaceTypes DEF Become
<1>1. ASSUME NobodyFailed' => NobodyFailed, ownership_version' = ownership_version,
             \A t \in Task : Held(t)' = Held(t)
      PROVE  ClaimsHeld'
  <2> SUFFICES ASSUME NobodyFailed', NEW t \in Task
               PROVE  /\ ownership_version'[t] = 0 <=> NoneHolds(Held(t)')
                      /\ ownership_version'[t] = 1 <=> OneHolds(Held(t)')
    BY DEF ClaimsHeld, NoneHolds, OneHolds
  <2>1. /\ ownership_version[t] = 0 <=> NoneHolds(Held(t))
        /\ ownership_version[t] = 1 <=> OneHolds(Held(t))
    BY <1>1 DEF ClaimsHeld
  <2>2. Held(t)' = Held(t)
    BY <1>1
  <2> QED
    BY <1>1, <2>1, <2>2
<1>2. ASSUME UNCHANGED <<child, answer, printed, ownership_version>> PROVE ClaimsHeld'
  BY <1>1, <1>2 DEF NobodyFailed, Held
<1>3. ASSUME NEW c \in Worker, CommitClaim(c) PROVE ClaimsHeld'
  <2>1. /\ child[c] = "updating" /\ child' = [child EXCEPT ![c] = "answered"]
        /\ answer' = [answer EXCEPT ![c] = locked[c]] /\ printed' = printed
        /\ locked[c] \in Task
        /\ ownership_version' = [ownership_version EXCEPT ![locked[c]] = @ + 1]
    BY <1>3, CommitEffect DEF CommitClaim, CommitRow
  <2>2. answer[c] = NoTask
    BY <2>1 DEF AnswersHeld
  <2> SUFFICES ASSUME NobodyFailed', NEW t \in Task
               PROVE  /\ ownership_version'[t] = 0 <=> NoneHolds(Held(t)')
                      /\ ownership_version'[t] = 1 <=> OneHolds(Held(t)')
    BY DEF ClaimsHeld, NoneHolds, OneHolds
  <2>3. NobodyFailed
    BY <2>1 DEF NobodyFailed
  <2>4. /\ ownership_version[t] = 0 <=> NoneHolds(Held(t))
        /\ ownership_version[t] = 1 <=> OneHolds(Held(t))
    BY <2>3 DEF ClaimsHeld
  <2>5. CASE t = locked[c]
    <3>1. /\ Held(t)'[c] = Held(t)[c] + 1
          /\ \A d \in Worker \ {c} : Held(t)'[d] = Held(t)[d]
      BY <2>1, <2>2, <2>5 DEF Held
    <3>2. Held(t) \in [Worker -> Nat] /\ Held(t)' \in [Worker -> Nat]
      BY HeldType DEF RaceIInv, RaceTypeOK, Held
    <3>3. ~NoneHolds(Held(t)') /\ (OneHolds(Held(t)') <=> NoneHolds(Held(t)))
      BY <3>1, <3>2, HoldersCounted
    <3>4. ownership_version'[t] = ownership_version[t] + 1 /\ ownership_version[t] \in Nat
      BY <2>1, <2>5
    <3> QED
      BY <2>4, <3>3, <3>4
  <2>6. CASE t # locked[c]
    <3>1. Held(t)' = Held(t)
      BY <2>1, <2>2, <2>6 DEF Held
    <3>2. ownership_version'[t] = ownership_version[t]
      BY <2>1, <2>6
    <3> QED
      BY <2>4, <3>1, <3>2
  <2> QED
    BY <2>5, <2>6
<1>4. ASSUME NEW c \in Worker, PrintClaim(c) PROVE ClaimsHeld'
  <2>1. /\ answer[c] \in Task
        /\ printed' = [printed EXCEPT ![c][answer[c]] = @ + 1]
        /\ answer' = [answer EXCEPT ![c] = NoTask]
        /\ ownership_version' = ownership_version
        /\ child[c] = "answered" /\ child' = [child EXCEPT ![c] = "idle"]
    BY <1>4 DEF PrintClaim, vars, RaceIInv
  <2>2. NobodyFailed' => NobodyFailed
    BY <2>1 DEF NobodyFailed
  <2>3. ASSUME NEW t \in Task, NEW d \in Worker PROVE Held(t)'[d] = Held(t)[d]
    <3>1. CASE d = c /\ t = answer[c]
      BY <2>1, <3>1 DEF Held
    <3>2. CASE d = c /\ t # answer[c]
      BY <2>1, <3>2 DEF Held
    <3>3. CASE d # c
      BY <2>1, <3>3 DEF Held
    <3> QED
      BY <3>1, <3>2, <3>3
  <2>4. \A t \in Task : Held(t)' = Held(t)
    BY <2>3 DEF Held
  <2> QED
    BY <1>1, <2>1, <2>2, <2>4
<1>5. ASSUME NEW c \in Worker, Fail(c) \/ CommitAnswerLost(c) PROVE ClaimsHeld'
  <2>1. ~NobodyFailed'
    BY <1>5 DEF Fail, CommitAnswerLost, AfterError, NobodyFailed
  <2> QED
    BY <2>1 DEF ClaimsHeld
<1>6. ASSUME NEW c \in Worker,
             Begin(c) \/ Select(c) \/ LockRow(c) \/ SkipRow(c) \/ FindNothing(c)
      PROVE  ClaimsHeld'
  <2>1. UNCHANGED <<answer, printed, ownership_version>> /\ child[c] # "failed"
        /\ \A d \in Worker \ {c} : child'[d] = child[d]
    BY <1>6 DEF Begin, Select, LockRow, SkipRow, FindNothing, vars
  <2>2. NobodyFailed' => NobodyFailed
    BY <2>1 DEF NobodyFailed
  <2>3. \A t \in Task : Held(t)' = Held(t)
    BY <2>1 DEF Held
  <2> QED
    BY <1>1, <2>1, <2>2, <2>3
<1>7. CASE StartChild
  <2>1. /\ index \in Worker /\ child[index] = "unstarted"
        /\ \A d \in Worker \ {index} : child'[d] = child[d]
        /\ UNCHANGED <<answer, printed, ownership_version>>
    BY <1>7, StartedOnce DEF StartChild, vars
  <2>2. NobodyFailed' => NobodyFailed
    BY <2>1 DEF NobodyFailed
  <2>3. \A t \in Task : Held(t)' = Held(t)
    BY <2>1 DEF Held
  <2> QED
    BY <1>1, <2>1, <2>2, <2>3
<1>8. CASE \/ CreateDatabase \/ SeedTask \/ EndSeeding \/ EndStarting \/ WaitChild \/ Judge
           \/ DropDatabase \/ CoordinatorFails \/ RaceTick \/ UNCHANGED raceVars
  BY <1>2, <1>8 DEF CreateDatabase, SeedTask, CreateTask, EndSeeding, EndStarting, WaitChild, Judge,
                    DropDatabase, CoordinatorFails, RaceTick, Tick, vars, raceVars
<1> QED
  BY <1>3, <1>4, <1>5, <1>6, <1>7, <1>8 DEF RaceNext, Coordinate, Child

LEMMA LeftOutNext ==
  RaceIInv /\ NothingLeftOut /\ [RaceNext]_raceVars => NothingLeftOut'
<1> SUFFICES ASSUME RaceIInv, NothingLeftOut, [RaceNext]_raceVars,
                    at' # "ended", NobodyFailed', NEW c \in Worker',
                    child'[c] \in {"walking", "exited"}, NEW t \in PassedOver(c)',
                    status'[t] = "pending"
             PROVE  \E d \in Worker : locked'[d] = t
  BY DEF NothingLeftOut
<1> USE RaceTypes DEF Become
<1>0. c \in Worker /\ t \in Task
  BY DEF PassedOver
\* Whoever had passed the task over before, and whoever had locked it then.
<1>1. ASSUME at # "ended", NobodyFailed, child[c] \in {"walking", "exited"}, t \in PassedOver(c),
             status[t] = "pending",
             \A d \in Worker : locked[d] = t => locked'[d] = t
      PROVE  \E d \in Worker : locked'[d] = t
  BY <1>0, <1>1 DEF NothingLeftOut
<1>2. ASSUME NEW e \in Worker, CommitRow(e), CommitClaim(e) \/ CommitAnswerLost(e)
      PROVE  \E d \in Worker : locked'[d] = t
  <2>1. /\ locked[e] # t /\ status[t] = "pending" /\ at # "ended"
        /\ \A d \in Worker : locked[d] = t => locked'[d] = t
    BY <1>0, <1>2, CommitEffect DEF CommitRow, coordinator
  <2>2. /\ CommitClaim(e) /\ c # e /\ child'[c] = child[c] /\ rows' = rows /\ NobodyFailed
    BY <1>0, <1>2 DEF CommitClaim, CommitAnswerLost, CommitRow, AfterError, NobodyFailed
  <2> QED
    BY <1>1, <2>1, <2>2 DEF PassedOver
<1>3. ASSUME NEW e \in Worker, Begin(e) \/ PrintClaim(e) PROVE \E d \in Worker : locked'[d] = t
  <2>1. c # e /\ child'[c] = child[c] /\ NobodyFailed /\ UNCHANGED <<at, status, rows, locked>>
    BY <1>0, <1>3 DEF Begin, PrintClaim, NobodyFailed, vars, coordinator, transaction
  <2> QED
    BY <1>1, <2>1 DEF PassedOver
<1>4. ASSUME NEW e \in Worker, Select(e) PROVE \E d \in Worker : locked'[d] = t
  <2>1. NobodyFailed /\ UNCHANGED <<at, status, locked>>
        /\ \A d \in Worker \ {e} : child'[d] = child[d] /\ rows'[d] = rows[d]
    BY <1>4 DEF Select, NobodyFailed, vars, coordinator
  <2>2. c # e
    <3>1. c = e => child'[c] = "walking" /\ rows'[c] = {u \in Task : Claimable(u, began[c])}
      BY <1>0, <1>4 DEF Select
    <3> QED
      BY <1>0, <2>1, <3>1 DEF PassedOver, Claimable
  <2> QED
    BY <1>0, <1>1, <2>1, <2>2 DEF PassedOver
<1>5. ASSUME NEW e \in Worker, LockRow(e) PROVE \E d \in Worker : locked'[d] = t
  <2>1. /\ NobodyFailed /\ UNCHANGED <<at, status>> /\ child[e] = "walking" /\ child'[e] = "updating"
        /\ \A d \in Worker \ {e} : child'[d] = child[d] /\ rows'[d] = rows[d] /\ locked'[d] = locked[d]
    BY <1>5 DEF LockRow, NobodyFailed, vars, coordinator
  <2>2. locked[e] = NoTask
    BY <2>1, NotUpdating
  <2> QED
    BY <1>0, <1>1, <2>1, <2>2 DEF PassedOver
<1>6. ASSUME NEW e \in Worker, SkipRow(e) PROVE \E d \in Worker : locked'[d] = t
  <2>1. /\ NobodyFailed /\ UNCHANGED <<at, status, locked, child>>
        /\ \A d \in Worker \ {e} : rows'[d] = rows[d]
    BY <1>6 DEF SkipRow, NobodyFailed, vars, coordinator
  <2>2. PICK u \in Task : ~TakesRow(e, u) /\ rows' = [rows EXCEPT ![e] = @ \ {u}]
    BY <1>6 DEF SkipRow
  <2>3. CASE c = e /\ t = u
    BY <2>1, <2>2, <2>3 DEF TakesRow, Claimable
  <2>4. CASE c # e \/ t # u
    BY <1>0, <1>1, <2>1, <2>2, <2>4 DEF PassedOver
  <2> QED
    BY <2>3, <2>4
<1>7. ASSUME NEW e \in Worker, FindNothing(e) PROVE \E d \in Worker : locked'[d] = t
  <2>1. /\ NobodyFailed /\ UNCHANGED <<at, status, locked, rows>>
        /\ child[e] = "walking" /\ rows[e] = {}
        /\ \A d \in Worker \ {e} : child'[d] = child[d]
    BY <1>7 DEF FindNothing, NobodyFailed, AfterNothing, vars, coordinator
  <2> QED
    BY <1>0, <1>1, <2>1 DEF PassedOver
<1>8. ASSUME NEW e \in Worker, Fail(e) PROVE \E d \in Worker : locked'[d] = t
  BY <1>8 DEF Fail, AfterError, NobodyFailed
<1>9. CASE SeedTask
  <2>1. \A d \in Worker : child[d] = "unstarted"
    BY <1>9 DEF SeedTask, RaceIInv, NotStarted
  <2> QED
    BY <1>0, <1>9, <2>1 DEF SeedTask
<1>10. CASE StartChild
  <2>1. /\ c # index /\ UNCHANGED <<at, status, locked, rows>>
        /\ \A d \in Worker \ {index} : child'[d] = child[d]
        /\ index \in Worker /\ child[index] = "unstarted"
    BY <1>0, <1>10, StartedOnce DEF StartChild, vars, transaction
  <2>2. NobodyFailed
    BY <2>1 DEF NobodyFailed
  <2> QED
    BY <1>0, <1>1, <2>1, <2>2 DEF PassedOver
<1>11. CASE \/ CreateDatabase \/ EndSeeding \/ EndStarting \/ WaitChild \/ Judge
            \/ CoordinatorFails \/ RaceTick \/ UNCHANGED raceVars
  <2>1. UNCHANGED <<status, locked, rows, child>> /\ at # "ended"
    BY <1>11 DEF CreateDatabase, EndSeeding, EndStarting, WaitChild, Judge,
                 CoordinatorFails, RaceTick, Tick, vars, transaction, coordinator, raceVars
  <2> QED
    BY <1>1, <2>1 DEF PassedOver, NobodyFailed
<1>12. CASE DropDatabase
  BY <1>12 DEF DropDatabase
<1> QED
  BY <1>2, <1>3, <1>4, <1>5, <1>6, <1>7, <1>8, <1>9, <1>10, <1>11, <1>12
  DEF RaceNext, Coordinate, Child, CommitClaim, CommitAnswerLost

LEMMA WaitedNext == RaceIInv /\ WaitedFor /\ [RaceNext]_raceVars => WaitedFor'
<1> SUFFICES ASSUME RaceIInv, WaitedFor, [RaceNext]_raceVars PROVE WaitedFor'
  OBVIOUS
<1> USE RaceTypes DEF Become
\* A process that has ended does nothing more.
<1>1. ASSUME NEW c \in Worker, Child(c) \/ Fail(c) \/ CommitAnswerLost(c) PROVE WaitedFor'
  <2>1. UNCHANGED <<at, index, result>> /\ child[c] # "exited"
        /\ \A d \in Worker \ {c} : child'[d] = child[d]
    BY <1>1 DEF Child, Begin, Select, LockRow, SkipRow, FindNothing, CommitClaim, CommitRow, PrintClaim,
                Fail, CommitAnswerLost, coordinator, Running, InTransaction
  <2> QED
    BY <1>1, <2>1 DEF WaitedFor
<1>2. CASE StartChild
  <2>1. at' = "starting" /\ result' = result /\ index \in Worker /\ child[index] = "unstarted"
        /\ \A d \in Worker \ {index} : child'[d] = child[d]
    BY <1>2, StartedOnce DEF StartChild
  <2> QED
    BY <2>1 DEF WaitedFor
<1>3. CASE EndStarting
  <2>1. at' = "waiting" /\ index' = 1 /\ UNCHANGED <<result, child>>
    BY <1>3 DEF EndStarting
  <2>2. \A d \in Worker : ~(d < 1)
    BY RaceConstants
  <2> QED
    BY <2>1, <2>2 DEF WaitedFor
<1>4. CASE WaitChild
  <2>1. /\ at = "waiting" /\ index \in Worker /\ child' = child
        /\ \/ child[index] = "exited" /\ index' = index + 1 /\ UNCHANGED <<at, result>>
           \/ at' = "dropping" /\ result' = "error"
    BY <1>4 DEF WaitChild, Return
  <2>2. \A d \in Worker : d < index + 1 => d < index \/ d = index
    BY RaceConstants
  <2> QED
    BY <2>1, <2>2 DEF WaitedFor
<1>5. CASE Judge
  <2>1. /\ at = "waiting" /\ index \notin Worker /\ child' = child /\ at' = "dropping"
    BY <1>5 DEF Judge, Return
  <2>2. \A d \in Worker : d < index
    BY <2>1, RaceConstants
  <2> QED
    BY <2>1, <2>2 DEF WaitedFor
<1>6. CASE \/ CreateDatabase \/ SeedTask \/ EndSeeding \/ DropDatabase \/ CoordinatorFails
           \/ RaceTick \/ UNCHANGED raceVars
  <2>1. /\ child' = child /\ (result' = result \/ result' = "error")
        /\ at' = "waiting" => UNCHANGED <<at, index>>
    BY <1>6 DEF CreateDatabase, SeedTask, EndSeeding, DropDatabase, CoordinatorFails, RaceTick,
                coordinator, raceVars
  <2> QED
    BY <2>1 DEF WaitedFor
<1> QED
  BY <1>1, <1>2, <1>3, <1>4, <1>5, <1>6 DEF RaceNext, Coordinate

\* What the coordinator knows when it judges.
LEMMA JudgeIsRight ==
  ASSUME RaceIInv, VerdictIInv, Judge
  PROVE  VerdictIsTrue'
<1> USE RaceTypes
<1>1. /\ at = "waiting" /\ index \notin Worker
      /\ result' = (IF Passes THEN "pass" ELSE "assertions") /\ UNCHANGED ownership_version
  BY DEF Judge, Return, vars
<1>2. \A c \in Worker : child[c] = "exited"
  <2>1. \A c \in Worker : c < index
    BY <1>1, RaceConstants
  <2> QED
    BY <1>1, <2>1 DEF VerdictIInv, WaitedFor
<1>3. NobodyFailed /\ \A c \in Worker : answer[c] = NoTask /\ locked[c] = NoTask
  BY <1>2, NotUpdating DEF NobodyFailed, VerdictIInv, AnswersHeld
<1>4. \A t \in Task, c \in Worker : Held(t)[c] = printed[c][t]
  BY <1>3 DEF Held
<1>5. \A t \in Task : PrintedOnce(t) <=> ownership_version[t] = 1
  <2>1. \A t \in Task : ownership_version[t] = 1 <=> OneHolds(Held(t))
    BY <1>3 DEF VerdictIInv, ClaimsHeld
  <2> SUFFICES ASSUME NEW t \in Task PROVE PrintedOnce(t) <=> OneHolds(Held(t))
    BY <2>1
  <2> DEFINE held == Held(t)
  <2>2. \A c \in Worker : held[c] = printed[c][t]
    BY <1>4
  <2> HIDE DEF held
  <2>3. PrintedOnce(t) <=> OneHolds(held)
    BY <2>2 DEF PrintedOnce, OneHolds
  <2> QED
    BY <2>3 DEF held
<1>6. ASSUME NEW t \in Task PROVE ownership_version[t] > 0
  <2>1. status[t] # "pending"
    <3>1. 1 \in Worker
      BY RaceConstants
    <3> QED
      BY <1>1, <1>2, <1>3, <3>1 DEF VerdictIInv, NothingLeftOut, PassedOver
  <2> QED
    BY <1>1, <2>1 DEF VerdictIInv, Seeded
<1>7. CASE Passes
  BY <1>1, <1>5, <1>7 DEF Passes, VerdictIsTrue
<1>8. CASE ~Passes
  <2>1. PICK t \in Task : ~PrintedOnce(t)
    BY <1>8 DEF Passes
  <2>2. ownership_version[t] # 1 /\ ownership_version[t] > 0 /\ ownership_version[t] \in Nat
    BY <1>5, <1>6, <2>1
  <2>3. ownership_version[t] > 1
    BY <2>2
  <2> QED
    BY <1>1, <1>8, <2>3 DEF VerdictIsTrue
<1> QED
  BY <1>7, <1>8

LEMMA VerdictKept ==
  RaceIInv /\ VerdictIInv /\ [RaceNext]_raceVars => VerdictIsTrue'
<1> SUFFICES ASSUME RaceIInv, VerdictIInv, [RaceNext]_raceVars PROVE VerdictIsTrue'
  OBVIOUS
<1> USE RaceTypes
<1>1. CASE result' \in {"pass", "assertions"} /\ ~Judge
  <2>1. result' = result
    BY <1>1 DEF RaceNext, Coordinate, Child, Begin, Select, LockRow, SkipRow, FindNothing, CommitClaim,
                CommitRow, PrintClaim, Fail, CommitAnswerLost, CreateDatabase, SeedTask, EndSeeding,
                StartChild, EndStarting, WaitChild, Return, DropDatabase, CoordinatorFails, RaceTick,
                coordinator, raceVars
  <2>2. \A c \in Worker : child[c] = "exited"
    BY <1>1, <2>1 DEF VerdictIInv, WaitedFor
  <2>3. ownership_version' = ownership_version
    BY <2>2 DEF RaceNext, Coordinate, Child, Begin, Select, LockRow, SkipRow, FindNothing, CommitClaim,
                CommitRow, PrintClaim, Fail, CommitAnswerLost, CreateDatabase, SeedTask, CreateTask,
                EndSeeding, StartChild, EndStarting, WaitChild, Judge, DropDatabase, CoordinatorFails,
                RaceTick, Tick, vars, raceVars
  <2> QED
    BY <2>1, <2>3 DEF VerdictIInv, VerdictIsTrue
<1>2. CASE Judge
  BY <1>2, JudgeIsRight
<1>3. CASE result' \notin {"pass", "assertions"}
  BY <1>3 DEF VerdictIsTrue
<1> QED
  BY <1>1, <1>2, <1>3

LEMMA VerdictNext ==
  RaceIInv /\ RaceIInv' /\ VerdictIInv /\ [RaceNext]_raceVars => VerdictIInv'
BY AnswersNext, SeededNext, ClaimsNext, LeftOutNext, WaitedNext, VerdictKept DEF VerdictIInv

(* PASS means that every task was handed out exactly once, and the assertions
   fail only if some task had a second owner; none is left over. *)
THEOREM VerdictIsTrueAlways == RaceSpec => []VerdictIsTrue
<1>1. VerdictIInv => VerdictIsTrue
  BY DEF VerdictIInv
<1> QED
  BY <1>1, VerdictInit, VerdictNext, RaceWellFormedAlways, PTL DEF RaceSpec
=============================================================================
