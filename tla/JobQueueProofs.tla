--------------------------- MODULE JobQueueProofs ---------------------------
(***************************************************************************)
(* Theorems about JobQueue, for every set of jobs and invocations, every   *)
(* type assignment and every max_attempts.                                 *)
(*                                                                         *)
(* LockDiscipline is inductive with the typing.  LatestClaimSettles needs  *)
(* that running rows were claimed at least once, and that no invocation    *)
(* changes the worker id of another.  RetryBudget follows the limit from   *)
(* claim to claim (BudgetInv): a retry is decided on the attempt number    *)
(* the invocation read at its claim, which either is the row's own or      *)
(* counts as misjudged.                                                    *)
(***************************************************************************)
EXTENDS JobQueue, TLAPS

RunningWasClaimed == \A j \in Jobs : status[j] = "running" => attempts[j] >= 1

ActiveIsHeld == \A r \in Runs : active[r] # None => held[r][active[r]] # 0

LockInv == TypeOK /\ LockDiscipline /\ RunningWasClaimed /\ ActiveIsHeld

\* How many attempts a row may have used, by status.
BudgetInv ==
  \A j \in Jobs :
    /\ status[j] = "none" => attempts[j] = 0
    /\ status[j] \in {"queued", "retry_scheduled"}
         => attempts[j] + 1 <= MaxAttempts + 2 * revived[j] + misjudged[j]
    /\ status[j] \in {"running", "failed", "succeeded"}
         => attempts[j] <= MaxAttempts + 2 * revived[j] + misjudged[j]
    /\ attempts[j] <= MaxAttempts + 1 + 2 * revived[j] + misjudged[j]

ClaimInv == LockInv /\ LatestClaimSettles /\ BudgetInv
-----------------------------------------------------------------------------
LEMMA InitLock == Init => LockInv
  BY JobQueueAssumption DEF Init, LockInv, TypeOK, LockDiscipline,
     RunningWasClaimed, ActiveIsHeld, Statuses, Runs

LEMMA SubmitLock == ASSUME LockInv, NEW j \in Jobs, Submit(j) PROVE LockInv'
  BY DEF LockInv, TypeOK, LockDiscipline, RunningWasClaimed, ActiveIsHeld, Statuses,
     Submit, runVars

LEMMA ClocksLock ==
  ASSUME LockInv, NEW j \in Jobs, BackoffElapses(j) \/ LeaseAges(j)
  PROVE  LockInv'
  BY DEF LockInv, TypeOK, LockDiscipline, RunningWasClaimed, ActiveIsHeld,
     BackoffElapses, LeaseAges, runVars

LEMMA ReclaimLock == ASSUME LockInv, ReclaimStaleJobs PROVE LockInv'
<1> USE JobQueueAssumption DEF LockInv
<1>1. TypeOK'
  BY DEF TypeOK, Statuses, ReclaimStaleJobs, runVars
<1>2. LockDiscipline'
  BY DEF TypeOK, LockDiscipline, ReclaimStaleJobs, Stale
<1>3. RunningWasClaimed' /\ ActiveIsHeld'
  BY DEF TypeOK, RunningWasClaimed, ActiveIsHeld, ReclaimStaleJobs, Stale, runVars
<1>4. QED BY <1>1, <1>2, <1>3

LEMMA ClaimLock ==
  ASSUME LockInv, NEW r \in Runs, NEW S \in SUBSET Jobs, ClaimBatch(r, S)
  PROVE  LockInv'
<1> USE JobQueueAssumption DEF LockInv
<1>1. workerOf[r] \in Workers /\ workerOf[r] # None
  BY DEF TypeOK
<1>2. TypeOK'
  BY <1>1 DEF TypeOK, Statuses, ClaimBatch
<1>3. LockDiscipline'
  BY <1>1 DEF TypeOK, LockDiscipline, ClaimBatch, Claimable
<1>4. RunningWasClaimed'
  BY DEF TypeOK, RunningWasClaimed, ClaimBatch
<1>5. ActiveIsHeld'
  BY DEF TypeOK, ActiveIsHeld, ClaimBatch, Idle
<1>6. QED BY <1>2, <1>3, <1>4, <1>5

LEMMA PickLock ==
  ASSUME LockInv, NEW r \in Runs, NEW j \in Jobs, PickDirectly(r, j)
  PROVE  LockInv'
  BY DEF LockInv, TypeOK, LockDiscipline, RunningWasClaimed, ActiveIsHeld,
     PickDirectly, Idle, rowVars

LEMMA StartLock ==
  ASSUME LockInv, NEW r \in Runs, NEW j \in Jobs, StartJob(r, j)
  PROVE  LockInv'
<1> DEFINE lost == /\ r \in Orchestrators
                   /\ \/ lockedBy[j] # workerOf[r]
                      \/ JobType[j] \notin OrchestratorTypes
<1>1. lost \in BOOLEAN
  OBVIOUS
<1>2. doomed' = [doomed EXCEPT ![r] = lost]
  BY DEF StartJob
<1> HIDE DEF lost
<1>3. doomed' \in [Runs -> BOOLEAN]
  BY <1>1, <1>2 DEF LockInv, TypeOK
<1>4. QED
  BY <1>3 DEF LockInv, TypeOK, LockDiscipline, RunningWasClaimed, ActiveIsHeld,
     StartJob, rowVars

LEMMA HeartbeatLock ==
  ASSUME LockInv, NEW r \in Runs, Heartbeat(r) PROVE LockInv'
  BY DEF LockInv, TypeOK, LockDiscipline, RunningWasClaimed, ActiveIsHeld,
     Heartbeat, runVars

\* Every way an invocation ends a job is one Record step for a job it holds,
\* and it schedules a retry only if it claimed with fewer than max_attempts.
LEMMA FinishRecords ==
  ASSUME TypeOK, ActiveIsHeld, NEW r \in Runs, Finish(r)
  PROVE  \E j \in Jobs, s \in {"succeeded", "failed", "dead", "retry_scheduled"} :
           /\ Record(r, j, s)
           /\ held[r][j] # 0
           /\ s = "retry_scheduled" => held[r][j] < MaxAttempts
<1>0. active[r] # None
  BY DEF Finish, Succeed, DecisionFails, JobFails
<1>1. active[r] \in Jobs /\ held[r][active[r]] \in Nat /\ held[r][active[r]] # 0
  BY <1>0 DEF TypeOK, ActiveIsHeld
<1>2. CASE Succeed(r)
  BY <1>1, <1>2 DEF Succeed
<1>3. CASE DecisionFails(r)
  BY <1>1, <1>3 DEF DecisionFails
<1>4. ASSUME NEW t \in BOOLEAN, JobFails(r, t)
      PROVE  \E s \in {"dead", "retry_scheduled"} :
               /\ Record(r, active[r], s)
               /\ s = "retry_scheduled" => held[r][active[r]] < MaxAttempts
  <2>1. CASE t \/ held[r][active[r]] >= MaxAttempts
    BY <1>4, <2>1 DEF JobFails
  <2>2. CASE ~(t \/ held[r][active[r]] >= MaxAttempts)
    BY <1>1, <1>4, <2>2, JobQueueAssumption DEF JobFails
  <2>3. QED BY <2>1, <2>2
<1>5. QED BY <1>1, <1>2, <1>3, <1>4 DEF Finish

LEMMA RecordLock ==
  ASSUME LockInv, NEW r \in Runs, NEW j \in Jobs,
         NEW s \in {"succeeded", "failed", "dead", "retry_scheduled"},
         Record(r, j, s)
  PROVE  LockInv'
<1> USE DEF LockInv
<1>1. TypeOK'
  <2>1. misjudged' \in [Jobs -> Nat]
    <3>1. misjudged \in [Jobs -> Nat] /\ (misjudged' = misjudged \/ Misjudge(r, j, s))
      BY DEF TypeOK, Record
    <3>2. CASE s = "retry_scheduled" /\ held[r][j] # attempts[j]
      BY <3>1, <3>2 DEF Misjudge
    <3>3. CASE ~(s = "retry_scheduled" /\ held[r][j] # attempts[j])
      BY <3>1, <3>3 DEF Misjudge
    <3>4. QED BY <3>2, <3>3
  <2>2. QED BY <2>1 DEF TypeOK, Statuses, Record
<1>2. LockDiscipline' /\ RunningWasClaimed' /\ ActiveIsHeld'
  BY DEF TypeOK, LockDiscipline, RunningWasClaimed, ActiveIsHeld, Record
<1>3. QED BY <1>1, <1>2

LEMMA CrashLock == ASSUME LockInv, NEW r \in Runs, Crash(r) PROVE LockInv'
  BY DEF LockInv, TypeOK, LockDiscipline, RunningWasClaimed, ActiveIsHeld,
     Crash, rowVars

LEMMA NextLock == LockInv /\ [Next]_vars => LockInv'
<1> SUFFICES ASSUME LockInv, [Next]_vars PROVE LockInv'
  OBVIOUS
<1>1. CASE \E j \in Jobs : Submit(j) \/ BackoffElapses(j) \/ LeaseAges(j)
  BY <1>1, SubmitLock, ClocksLock
<1>2. CASE ReclaimStaleJobs
  BY <1>2, ReclaimLock
<1>3. CASE \E r \in Runs, S \in SUBSET Jobs : ClaimBatch(r, S)
  BY <1>3, ClaimLock
<1>4. CASE \E r \in Runs, j \in Jobs : PickDirectly(r, j) \/ StartJob(r, j)
  BY <1>4, PickLock, StartLock
<1>5. CASE \E r \in Runs : Heartbeat(r) \/ Finish(r) \/ Crash(r)
  BY <1>5, HeartbeatLock, CrashLock, FinishRecords, RecordLock DEF LockInv
<1>6. CASE UNCHANGED vars
  BY <1>6 DEF vars, rowVars, runVars, LockInv, TypeOK, LockDiscipline, RunningWasClaimed, ActiveIsHeld
<1>7. QED BY <1>1, <1>2, <1>3, <1>4, <1>5, <1>6 DEF Next

\* The variables of the queue keep their types.
THEOREM TypeCorrect == Spec => []TypeOK
<1>1. LockInv => TypeOK
  BY DEF LockInv
<1>2. QED BY <1>1, InitLock, NextLock, PTL DEF Spec

\* A row is locked exactly while it is running, whoever claims, settles,
\* reclaims or revives it and wherever an invocation is killed.
THEOREM LockDisciplineHolds == Spec => []LockDiscipline
<1>1. LockInv => LockDiscipline
  BY DEF LockInv
<1>2. QED BY <1>1, InitLock, NextLock, PTL DEF Spec
-----------------------------------------------------------------------------
LEMMA FinalStep ==
  ASSUME LockInv, [Next]_vars, NEW j \in Jobs, status[j] = "succeeded"
  PROVE  status'[j] = "succeeded"
<1> USE DEF LockInv, TypeOK
<1>0. lockedBy[j] = None
  BY DEF LockDiscipline
<1>1. ASSUME NEW k \in Jobs, Submit(k) \/ BackoffElapses(k) \/ LeaseAges(k)
      PROVE  status'[j] = "succeeded"
  BY <1>1 DEF Submit, BackoffElapses, LeaseAges
<1>2. CASE ReclaimStaleJobs
  BY <1>2 DEF ReclaimStaleJobs, Stale
<1>3. ASSUME NEW r \in Runs, NEW S \in SUBSET Jobs, ClaimBatch(r, S)
      PROVE  status'[j] = "succeeded"
  BY <1>3 DEF ClaimBatch, Claimable
<1>4. ASSUME NEW r \in Runs, NEW k \in Jobs, PickDirectly(r, k) \/ StartJob(r, k)
      PROVE  status'[j] = "succeeded"
  BY <1>4 DEF PickDirectly, StartJob, rowVars
<1>5. ASSUME NEW r \in Runs, Finish(r)
      PROVE  status'[j] = "succeeded"
  <2>1. PICK k \in Jobs, s \in {"succeeded", "failed", "dead", "retry_scheduled"} :
          Record(r, k, s)
    BY <1>5, FinishRecords
  <2>2. workerOf[r] # None
    BY JobQueueAssumption
  <2>3. QED BY <1>0, <2>1, <2>2 DEF Record
<1>6. ASSUME NEW r \in Runs, Heartbeat(r) \/ Crash(r)
      PROVE  status'[j] = "succeeded"
  BY <1>6 DEF Heartbeat, Crash, rowVars
<1>7. CASE UNCHANGED vars
  BY <1>7 DEF vars, rowVars
<1>8. QED BY <1>1, <1>2, <1>3, <1>4, <1>5, <1>6, <1>7 DEF Next

\* A job never leaves 'succeeded': neither a late event nor a worker that
\* lost its lease puts it back to work.
THEOREM SucceededStays == Spec => SucceededIsFinal
<1>1. LockInv /\ [Next]_vars =>
        [\A j \in Jobs : status[j] = "succeeded" => status'[j] = "succeeded"]_vars
  BY FinalStep
<1>2. QED BY <1>1, InitLock, NextLock, PTL DEF Spec, SucceededIsFinal
-----------------------------------------------------------------------------
(* What the locked_by guard and the attempt numbers are worth.             *)

LEMMA InitClaim == Init => LatestClaimSettles /\ BudgetInv
  BY JobQueueAssumption DEF Init, LatestClaimSettles, BudgetInv, Runs

LEMMA NextLatest ==
  ASSUME LockInv, LatestClaimSettles, [Next]_vars
  PROVE  LatestClaimSettles'
<1> USE JobQueueAssumption DEF LockInv, TypeOK
<1>1. ASSUME NEW k \in Jobs, Submit(k) \/ BackoffElapses(k) \/ LeaseAges(k)
      PROVE  LatestClaimSettles'
  BY <1>1 DEF Submit, BackoffElapses, LeaseAges, LatestClaimSettles, SharesIsolate, runVars
<1>2. CASE ReclaimStaleJobs
  BY <1>2 DEF ReclaimStaleJobs, Stale, LatestClaimSettles, SharesIsolate, runVars
<1>3. ASSUME NEW r \in Runs, NEW S \in SUBSET Jobs, ClaimBatch(r, S)
      PROVE  LatestClaimSettles'
  BY <1>3 DEF ClaimBatch, LatestClaimSettles, SharesIsolate
<1>4. ASSUME NEW r \in Runs, NEW k \in Jobs, PickDirectly(r, k)
      PROVE  LatestClaimSettles'
  <2>1. lockedBy[k] # None => attempts[k] # 0
    BY DEF LockDiscipline, RunningWasClaimed
  <2>2. QED BY <1>4, <2>1 DEF PickDirectly, LatestClaimSettles, SharesIsolate, rowVars
<1>5. ASSUME NEW r \in Runs, NEW k \in Jobs, StartJob(r, k)
      PROVE  LatestClaimSettles'
  BY <1>5 DEF StartJob, LatestClaimSettles, SharesIsolate, rowVars
<1>6. ASSUME NEW r \in Runs, Heartbeat(r)
      PROVE  LatestClaimSettles'
  BY <1>6 DEF Heartbeat, LatestClaimSettles, SharesIsolate, runVars
<1>7. ASSUME NEW r \in Runs, Finish(r)
      PROVE  LatestClaimSettles'
  <2>1. PICK k \in Jobs, s \in {"succeeded", "failed", "dead", "retry_scheduled"} :
          Record(r, k, s)
    BY <1>7, FinishRecords
  <2>2. \A q \in Runs, j \in Jobs :
          held'[q][j] = IF q = r /\ j = k THEN 0 ELSE held[q][j]
    BY <2>1 DEF Record
  <2>3. \A j \in Jobs : lockedBy'[j] # None => lockedBy'[j] = lockedBy[j]
    BY <2>1 DEF Record
  <2>4. \A q \in Runs : workerOf[q] # None
    OBVIOUS
  <2>5. attempts' = attempts /\ workerOf' = workerOf
    BY <2>1 DEF Record
  <2>6. ASSUME NEW q \in Runs, NEW j \in Jobs,
               held'[q][j] # 0, lockedBy'[j] = workerOf[q]
        PROVE  held'[q][j] = attempts'[j] \/ SharesIsolate(q)
    BY <2>2, <2>3, <2>4, <2>5, <2>6 DEF LatestClaimSettles
  <2>7. QED BY <2>5, <2>6 DEF LatestClaimSettles, SharesIsolate
<1>8. ASSUME NEW r \in Runs, Crash(r)
      PROVE  LatestClaimSettles'
  BY <1>8 DEF Crash, LatestClaimSettles, SharesIsolate, rowVars
<1>9. CASE UNCHANGED vars
  BY <1>9 DEF vars, rowVars, runVars, LatestClaimSettles, SharesIsolate
<1>10. QED
  BY <1>1, <1>2, <1>3, <1>4, <1>5, <1>6, <1>7, <1>8, <1>9 DEF Next

LEMMA NextBudget ==
  ASSUME LockInv, BudgetInv, [Next]_vars
  PROVE  BudgetInv'
<1> USE JobQueueAssumption DEF LockInv, TypeOK
<1>1. ASSUME NEW k \in Jobs, Submit(k)
      PROVE  BudgetInv'
  <2>1. \A j \in Jobs : j # k =>
          /\ status'[j] = status[j] /\ attempts'[j] = attempts[j]
          /\ revived'[j] = revived[j]
    BY <1>1 DEF Submit
  <2>2. CASE status[k] = "none"
    BY <1>1, <2>1, <2>2 DEF Submit, BudgetInv
  <2>3. CASE status[k] # "none"
    BY <1>1, <2>1, <2>3 DEF Submit, BudgetInv
  <2>4. QED BY <2>2, <2>3
<1>2. ASSUME NEW k \in Jobs, BackoffElapses(k) \/ LeaseAges(k)
      PROVE  BudgetInv'
  BY <1>2 DEF BackoffElapses, LeaseAges, BudgetInv
<1>3. CASE ReclaimStaleJobs
  BY <1>3 DEF ReclaimStaleJobs, Stale, BudgetInv
<1>4. ASSUME NEW r \in Runs, NEW S \in SUBSET Jobs, ClaimBatch(r, S)
      PROVE  BudgetInv'
  BY <1>4 DEF ClaimBatch, Claimable, BudgetInv
<1>5. ASSUME NEW r \in Runs, NEW k \in Jobs, PickDirectly(r, k) \/ StartJob(r, k)
      PROVE  BudgetInv'
  BY <1>5 DEF PickDirectly, StartJob, rowVars, BudgetInv
<1>6. ASSUME NEW r \in Runs, Heartbeat(r) \/ Crash(r)
      PROVE  BudgetInv'
  BY <1>6 DEF Heartbeat, Crash, rowVars, BudgetInv
<1>7. ASSUME NEW r \in Runs, Finish(r)
      PROVE  BudgetInv'
  <2>1. PICK k \in Jobs, s \in {"succeeded", "failed", "dead", "retry_scheduled"} :
          /\ Record(r, k, s) /\ held[r][k] # 0
          /\ s = "retry_scheduled" => held[r][k] < MaxAttempts
    BY <1>7, FinishRecords
  <2>2. CASE lockedBy[k] # workerOf[r]
    BY <2>1, <2>2 DEF Record, BudgetInv
  <2>3. CASE lockedBy[k] = workerOf[r]
    <3>1. status[k] = "running"
      BY <2>3 DEF LockDiscipline
    <3>2. CASE s = "retry_scheduled" /\ held[r][k] # attempts[k]
      BY <2>1, <2>3, <3>1, <3>2 DEF Record, Misjudge, BudgetInv
    <3>3. CASE s # "retry_scheduled" \/ held[r][k] = attempts[k]
      BY <2>1, <2>3, <3>1, <3>3 DEF Record, Misjudge, BudgetInv
    <3>4. QED BY <3>2, <3>3
  <2>4. QED BY <2>2, <2>3
<1>8. CASE UNCHANGED vars
  BY <1>8 DEF vars, rowVars, BudgetInv
<1>9. QED
  BY <1>1, <1>2, <1>3, <1>4, <1>5, <1>6, <1>7, <1>8 DEF Next

LEMMA ClaimInvariant == Spec => []ClaimInv
<1>1. Init => ClaimInv
  BY InitLock, InitClaim DEF ClaimInv
<1>2. ClaimInv /\ [Next]_vars => ClaimInv'
  BY NextLock, NextLatest, NextBudget DEF ClaimInv
<1>3. QED BY <1>1, <1>2, PTL DEF Spec

\* Only the invocation with the latest claim of a row, or one that shares its isolate,
\* can settle it: one that was reclaimed and comes back is stopped by the locked_by guard.
THEOREM LatestClaim == Spec => []LatestClaimSettles
<1>1. ClaimInv => LatestClaimSettles
  BY DEF ClaimInv
<1>2. QED BY <1>1, ClaimInvariant, PTL

\* The work on a job is bounded by max_attempts, the events that revive it and the retries
\* decided on an earlier claim's number, however isolates are shared.
THEOREM Budget == Spec => []RetryBudget
<1>1. ClaimInv => RetryBudget
  BY DEF ClaimInv, BudgetInv, RetryBudget
<1>2. QED BY <1>1, ClaimInvariant, PTL
-----------------------------------------------------------------------------
(* The table with its programs implements LeaseQueue: each action is one   *)
(* step of the abstract queue or leaves it unchanged.                      *)

LEMMA InitRefines == Init => LQ!Init
  BY DEF Init, LQ!Init, Phase

LEMMA NextRefines ==
  ASSUME LockInv, [Next]_vars PROVE [LQ!Next]_(LQ!vars)
<1> USE JobQueueAssumption DEF LockInv, TypeOK
<1> DEFINE phase == [j \in Jobs |-> Phase(j)]
<1>a. \A j \in Jobs : Phase(j)' =
        CASE status'[j] = "none" -> "absent"
          [] status'[j] \in {"queued", "retry_scheduled"} -> "todo"
          [] status'[j] = "running" -> "leased"
          [] status'[j] \in {"failed", "dead"} -> "parked"
          [] status'[j] = "succeeded" -> "done"
  BY DEF Phase
<1>b. ASSUME status' = status, lockedBy' = lockedBy
      PROVE  UNCHANGED LQ!vars
  BY <1>b DEF LQ!vars, Phase
<1>1. ASSUME NEW k \in Jobs, Submit(k)
      PROVE  [LQ!Next]_(LQ!vars)
  <2>1. lockedBy' = lockedBy
    BY <1>1 DEF Submit, LockDiscipline
  <2>a. \A j \in Jobs : status'[j] = IF j = k THEN "queued" ELSE status[j]
    BY <1>1 DEF Submit
  <2>b. Phase(k)' = "todo"
    BY <2>a, <1>a
  <2>c. \A j \in Jobs : j # k => Phase(j)' = Phase(j)
    BY <2>a, <1>a DEF Phase
  <2>2. phase' = [phase EXCEPT ![k] = "todo"]
    BY <2>b, <2>c
  <2>3. CASE status[k] = "retry_scheduled"
    <3>1. phase' = phase
      BY <2>2, <2>3 DEF Phase
    <3>2. QED BY <2>1, <3>1 DEF LQ!vars
  <2>4. CASE status[k] # "retry_scheduled"
    <3>1. phase[k] \in {"absent", "parked"}
      BY <1>1, <2>4 DEF Submit, Phase
    <3>2. LQ!Submit(k)
      BY <2>1, <2>2, <3>1 DEF LQ!Submit
    <3>3. QED BY <3>2 DEF LQ!Next
  <2>5. QED BY <2>3, <2>4
<1>2. ASSUME NEW k \in Jobs, BackoffElapses(k) \/ LeaseAges(k)
      PROVE  [LQ!Next]_(LQ!vars)
  BY <1>2, <1>b DEF BackoffElapses, LeaseAges
<1>3. CASE ReclaimStaleJobs
  <2> DEFINE S == {j \in Jobs : Stale(j)}
             parked == {j \in S : attempts[j] + 1 >= MaxAttempts}
  <2>1. \A j \in S : phase[j] = "leased"
    BY DEF Stale, Phase
  <2>a. \A j \in Jobs : status'[j] =
          IF j \notin S THEN status[j] ELSE IF j \in parked THEN "dead" ELSE "queued"
    BY <1>3 DEF ReclaimStaleJobs
  <2>b. \A j \in S : Phase(j)' = IF j \in parked THEN "parked" ELSE "todo"
    BY <2>a, <1>a
  <2>c. \A j \in Jobs : j \notin S => Phase(j)' = Phase(j)
    BY <2>a, <1>a DEF Phase
  <2>2. phase' = [j \in Jobs |-> IF j \notin S THEN phase[j]
                                 ELSE IF j \in parked THEN "parked" ELSE "todo"]
    BY <2>b, <2>c
  <2>3. lockedBy' = [j \in Jobs |-> IF j \in S THEN None ELSE lockedBy[j]]
    BY <1>3 DEF ReclaimStaleJobs
  <2>4. S \in SUBSET Jobs /\ parked \in SUBSET S
    OBVIOUS
  <2> HIDE DEF S, parked
  <2>5. LQ!Lapse(S, parked)
    BY <2>1, <2>2, <2>3 DEF LQ!Lapse
  <2>6. QED BY <2>4, <2>5 DEF LQ!Next
<1>4. ASSUME NEW r \in Runs, NEW S \in SUBSET Jobs, ClaimBatch(r, S)
      PROVE  [LQ!Next]_(LQ!vars)
  <2>1. \A j \in S : phase[j] = "todo"
    BY <1>4 DEF ClaimBatch, Claimable, Phase
  <2>a. \A j \in Jobs : status'[j] = IF j \in S THEN "running" ELSE status[j]
    BY <1>4 DEF ClaimBatch
  <2>b. \A j \in S : Phase(j)' = "leased"
    BY <2>a, <1>a
  <2>c. \A j \in Jobs : j \notin S => Phase(j)' = Phase(j)
    BY <2>a, <1>a DEF Phase
  <2>2. phase' = [j \in Jobs |-> IF j \in S THEN "leased" ELSE phase[j]]
    BY <2>b, <2>c
  <2>3. lockedBy' = [j \in Jobs |-> IF j \in S THEN workerOf[r] ELSE lockedBy[j]]
    BY <1>4 DEF ClaimBatch
  <2>4. LQ!Take(S, workerOf[r])
    BY <2>1, <2>2, <2>3 DEF LQ!Take
  <2>5. QED BY <2>4 DEF LQ!Next
<1>5. ASSUME NEW r \in Runs, NEW k \in Jobs, PickDirectly(r, k) \/ StartJob(r, k)
      PROVE  [LQ!Next]_(LQ!vars)
  BY <1>5, <1>b DEF PickDirectly, StartJob, rowVars
<1>6. ASSUME NEW r \in Runs, Heartbeat(r) \/ Crash(r)
      PROVE  [LQ!Next]_(LQ!vars)
  BY <1>6, <1>b DEF Heartbeat, Crash, rowVars
<1>7. ASSUME NEW r \in Runs, Finish(r)
      PROVE  [LQ!Next]_(LQ!vars)
  <2>1. PICK k \in Jobs, s \in {"succeeded", "failed", "dead", "retry_scheduled"} :
          Record(r, k, s)
    BY <1>7, FinishRecords
  <2>2. CASE lockedBy[k] # workerOf[r]
    BY <2>1, <2>2, <1>b DEF Record
  <2>3. CASE lockedBy[k] = workerOf[r]
    <3>1. status[k] = "running"
      BY <2>3 DEF LockDiscipline
    <3>2. phase[k] = "leased"
      BY <3>1 DEF Phase
    <3> DEFINE p == IF s = "succeeded" THEN "done"
                    ELSE IF s = "retry_scheduled" THEN "todo" ELSE "parked"
    <3>3. p \in {"done", "todo", "parked"}
      OBVIOUS
    <3>a. \A j \in Jobs : status'[j] = IF j = k THEN s ELSE status[j]
      BY <2>1, <2>3 DEF Record
    <3>b. Phase(k)' = p
      BY <3>a, <1>a
    <3>c. \A j \in Jobs : j # k => Phase(j)' = Phase(j)
      BY <3>a, <1>a DEF Phase
    <3> HIDE DEF p
    <3>4. phase' = [phase EXCEPT ![k] = p]
      BY <3>b, <3>c
    <3>5. lockedBy' = [lockedBy EXCEPT ![k] = None]
      BY <2>1, <2>3 DEF Record
    <3>6. p \in LQ!Phases
      BY <3>3 DEF LQ!Phases
    <3>7. LQ!Settle(k, p)
      BY <3>2, <3>3, <3>4, <3>5 DEF LQ!Settle
    <3>8. QED BY <3>6, <3>7 DEF LQ!Next
  <2>4. QED BY <2>2, <2>3
<1>8. CASE UNCHANGED vars
  BY <1>8, <1>b DEF vars, rowVars
<1>9. QED
  BY <1>1, <1>2, <1>3, <1>4, <1>5, <1>6, <1>7, <1>8 DEF Next

\* Seen through Phase and locked_by, the queue is a LeaseQueue: leases are
\* taken only on jobs to do, settled once, and done jobs stay done.
THEOREM Refinement == Spec => ImplementsLeaseQueue
<1>1. LockInv /\ [Next]_vars => [LQ!Next]_(LQ!vars)
  BY NextRefines
<1>2. QED
  BY <1>1, InitRefines, InitLock, NextLock, PTL
     DEF Spec, ImplementsLeaseQueue, LQ!Spec
=============================================================================
