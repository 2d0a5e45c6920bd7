------------------------------ MODULE JobQueue ------------------------------
(***************************************************************************)
(* The executor_jobs table and the two programs that drain it:             *)
(* fase1-executor (decision jobs) and orchestrator (every other type).     *)
(* One row per dedupe key; rows are claimed in batches with FOR UPDATE     *)
(* SKIP LOCKED, worked on one after another by one invocation of an edge   *)
(* function, and settled by an UPDATE guarded by locked_by.  runtime_tick  *)
(* calls reclaim_stale_jobs, which takes back rows whose worker stopped    *)
(* sending heartbeats.                                                     *)
(*                                                                         *)
(* What a handler does to the document is not part of this module (see     *)
(* ProtectionPipeline); here a handler only succeeds or throws.            *)
(***************************************************************************)
EXTENDS Naturals, FiniteSets, Functions

CONSTANTS
  Jobs,           \* dedupe keys
  JobType,        \* JobType[j]: the type column of the row
  Executors,      \* invocations of fase1-executor
  Orchestrators,  \* invocations of orchestrator
  Workers,        \* values of locked_by
  WorkerMaps,     \* which invocations may share a worker id: fase1-executor draws
                  \* one per request, the orchestrator one per isolate (RUN_WORKER_ID)
  MaxAttempts,    \* column max_attempts
  ClaimLimit,     \* p_limit of the claim functions
  MaxRevivals,    \* bound: how often events requeue existing rows
  ManualRuns,     \* whether operators POST a jobId to the orchestrator
  None            \* SQL NULL

Runs == Executors \cup Orchestrators

DecisionTypes == {"protect_document_v2", "document.protected"}

OrchestratorTypes == {"run_tsa", "submit_anchor_polygon",
                      "submit_anchor_bitcoin", "build_artifact",
                      "generate_signature_evidence"}

\* Mutant: the TTL list forgets one more type.
MutTtlTypes == {"protect_document_v2", "document.protected", "run_tsa",
                "submit_anchor_bitcoin", "build_artifact"}

\* The types reclaim_stale_jobs has a TTL for.
TtlTypes == {"protect_document_v2", "document.protected", "run_tsa",
             "submit_anchor_polygon", "submit_anchor_bitcoin",
             "build_artifact"}

\* The types processJob keeps a heartbeat timer for.
LongTypes == OrchestratorTypes \ {"build_artifact"}

\* The types with errors that dead-letter a job at once.
TerminalErrorTypes == {"submit_anchor_polygon", "submit_anchor_bitcoin"}

ASSUME JobQueueAssumption ==
  /\ JobType \in [Jobs -> DecisionTypes \cup OrchestratorTypes]
  /\ Executors \cap Orchestrators = {}
  /\ WorkerMaps \subseteq [Runs -> Workers]
  /\ MaxAttempts \in Nat \ {0}
  /\ ClaimLimit \in Nat \ {0}
  /\ MaxRevivals \in Nat
  /\ ManualRuns \in BOOLEAN
  /\ None \notin Jobs /\ None \notin Workers

VARIABLES
  status,    \* status[j]: column status; "none" = the key has no row yet
  attempts,  \* attempts[j]: column attempts
  due,       \* due[j]: run_at <= now()
  lockedBy,  \* lockedBy[j]: column locked_by
  lease,     \* lease[j]: "old" once heartbeat_at is past the TTL.  A claim
             \* sets locked_at and heartbeat_at together and only
             \* heartbeat_at moves later, so one age stands for both.
  held,      \* held[r][j]: attempts value of the row as r read it, 0 = not held
  active,    \* active[r]: the job r is working on
  doomed,    \* doomed[r]: the trace_id update found another owner
  workerOf,  \* workerOf[r]: the worker id invocation r claims with
  revived,   \* history: how often an event requeued row j
  misjudged  \* history: how often row j was rescheduled on the attempt number
             \* of an earlier claim

rowVars == <<status, attempts, due, lockedBy, lease, revived, misjudged>>
runVars == <<held, active, doomed, workerOf>>
vars == <<rowVars, runVars>>

Statuses == {"none", "queued", "running", "succeeded", "failed",
             "retry_scheduled", "dead"}

TypeOK ==
  /\ status \in [Jobs -> Statuses]
  /\ attempts \in [Jobs -> Nat]
  /\ due \in [Jobs -> BOOLEAN]
  /\ lockedBy \in [Jobs -> Workers \cup {None}]
  /\ lease \in [Jobs -> {"fresh", "old"}]
  /\ held \in [Runs -> [Jobs -> Nat]]
  /\ active \in [Runs -> Jobs \cup {None}]
  /\ doomed \in [Runs -> BOOLEAN]
  /\ workerOf \in WorkerMaps
  /\ revived \in [Jobs -> Nat] /\ misjudged \in [Jobs -> Nat]

Init ==
  /\ status = [j \in Jobs |-> "none"]
  /\ attempts = [j \in Jobs |-> 0]
  /\ due = [j \in Jobs |-> FALSE]
  /\ lockedBy = [j \in Jobs |-> None]
  /\ lease = [j \in Jobs |-> "fresh"]
  /\ held = [r \in Runs |-> [j \in Jobs |-> 0]]
  /\ active = [r \in Runs |-> None]
  /\ doomed = [r \in Runs |-> FALSE]
  /\ workerOf \in WorkerMaps
  /\ revived = [j \in Jobs |-> 0] /\ misjudged = [j \in Jobs |-> 0]
-----------------------------------------------------------------------------
(* The table.                                                              *)

\* The bound counts the revivals of all rows together.
Revivals == FoldFunction(+, 0, revived)

\* Mutant: the upsert has no WHERE on the status of the existing row.
MutSubmitAny(j) ==
  /\ status[j] # "none" => Revivals < MaxRevivals
  /\ status' = [status EXCEPT ![j] = "queued"]
  /\ due' = [due EXCEPT ![j] = TRUE]
  /\ lockedBy' = [lockedBy EXCEPT ![j] = None]
  /\ revived' = [revived EXCEPT ![j] = IF status[j] = "none" THEN @ ELSE @ + 1]
  /\ UNCHANGED <<attempts, lease, misjudged, runVars>>

\* The listener's INSERT ... ON CONFLICT (dedupe_key) DO UPDATE ... WHERE
\* status IN ('failed','retry_scheduled','dead'): attempts are kept, and an
\* event that meets a queued, running or succeeded row changes nothing.
Submit(j) ==
  /\ status[j] \in {"none", "failed", "retry_scheduled", "dead"}
  /\ status[j] # "none" => Revivals < MaxRevivals
  /\ status' = [status EXCEPT ![j] = "queued"]
  /\ due' = [due EXCEPT ![j] = TRUE]
  /\ lockedBy' = [lockedBy EXCEPT ![j] = None]
  /\ revived' = [revived EXCEPT ![j] = IF status[j] = "none" THEN @ ELSE @ + 1]
  /\ UNCHANGED <<attempts, lease, misjudged, runVars>>

\* now() passes run_at.
BackoffElapses(j) ==
  /\ status[j] = "retry_scheduled" /\ ~due[j]
  /\ due' = [due EXCEPT ![j] = TRUE]
  /\ UNCHANGED <<status, attempts, lockedBy, lease, revived, misjudged, runVars>>

\* now() passes the TTL of a row nobody sends a heartbeat for.
LeaseAges(j) ==
  /\ status[j] = "running" /\ lease[j] = "fresh"
  /\ lease' = [lease EXCEPT ![j] = "old"]
  /\ UNCHANGED <<status, attempts, due, lockedBy, revived, misjudged, runVars>>

Stale(j) == /\ status[j] = "running"
            /\ JobType[j] \in TtlTypes
            /\ lease[j] = "old"

\* Mutant: reclaim looks for and writes a status the enum does not have.
MutReclaimProcessing ==
  /\ \E j \in Jobs : Stale(j)
  /\ status' = [j \in Jobs |-> IF Stale(j) THEN "processing" ELSE status[j]]
  /\ attempts' = [j \in Jobs |-> IF Stale(j) THEN attempts[j] + 1 ELSE attempts[j]]
  /\ lockedBy' = [j \in Jobs |-> IF Stale(j) THEN None ELSE lockedBy[j]]
  /\ UNCHANGED <<due, lease, revived, misjudged, runVars>>

\* Mutant: reclaim requeues the row and leaves the old lock on it.
MutReclaimKeepsLock ==
  /\ \E j \in Jobs : Stale(j)
  /\ status' = [j \in Jobs |->
                  IF ~Stale(j) THEN status[j]
                  ELSE IF attempts[j] + 1 >= MaxAttempts THEN "dead" ELSE "queued"]
  /\ attempts' = [j \in Jobs |-> IF Stale(j) THEN attempts[j] + 1 ELSE attempts[j]]
  /\ UNCHANGED <<due, lockedBy, lease, revived, misjudged, runVars>>

ReclaimStaleJobs ==
  /\ \E j \in Jobs : Stale(j)
  /\ status' = [j \in Jobs |->
                  IF ~Stale(j) THEN status[j]
                  ELSE IF attempts[j] + 1 >= MaxAttempts THEN "dead" ELSE "queued"]
  /\ attempts' = [j \in Jobs |-> IF Stale(j) THEN attempts[j] + 1 ELSE attempts[j]]
  /\ lockedBy' = [j \in Jobs |-> IF Stale(j) THEN None ELSE lockedBy[j]]
  /\ UNCHANGED <<due, lease, revived, misjudged, runVars>>
-----------------------------------------------------------------------------
(* One invocation of fase1-executor or orchestrator.                       *)

Idle(r) == active[r] = None /\ \A j \in Jobs : held[r][j] = 0

Claimable(r, j) ==
  /\ status[j] \in {"queued", "retry_scheduled"}
  /\ JobType[j] \in (IF r \in Executors THEN DecisionTypes ELSE OrchestratorTypes)
  /\ due[j]
  /\ lockedBy[j] = None

\* claim_initial_decision_jobs / claim_orchestrator_jobs: SKIP LOCKED may
\* leave out any row, so the batch is any set of claimable rows.
ClaimBatch(r, S) ==
  /\ Idle(r)
  /\ S # {} /\ Cardinality(S) <= ClaimLimit
  /\ \A j \in S : Claimable(r, j)
  /\ status' = [j \in Jobs |-> IF j \in S THEN "running" ELSE status[j]]
  /\ attempts' = [j \in Jobs |-> IF j \in S THEN attempts[j] + 1 ELSE attempts[j]]
  /\ lockedBy' = [j \in Jobs |-> IF j \in S THEN workerOf[r] ELSE lockedBy[j]]
  /\ lease' = [j \in Jobs |-> IF j \in S THEN "fresh" ELSE lease[j]]
  /\ held' = [held EXCEPT ![r] =
                [j \in Jobs |-> IF j \in S THEN attempts[j] + 1 ELSE 0]]
  /\ UNCHANGED <<due, revived, misjudged, active, doomed, workerOf>>

\* POST {jobId}: the orchestrator reads one row and processes it unclaimed.
PickDirectly(r, j) ==
  /\ ManualRuns
  /\ r \in Orchestrators /\ Idle(r)
  /\ status[j] # "none"
  /\ held' = [held EXCEPT ![r][j] = IF attempts[j] = 0 THEN 1 ELSE attempts[j]]
  /\ UNCHANGED <<rowVars, active, doomed, workerOf>>

\* The next job of the batch.  processJob first writes trace_id under the
\* ownership guard and throws when no row matched.
StartJob(r, j) ==
  /\ active[r] = None /\ held[r][j] # 0
  /\ active' = [active EXCEPT ![r] = j]
  /\ doomed' = [doomed EXCEPT ![r] =
                  /\ r \in Orchestrators
                  /\ \/ lockedBy[j] # workerOf[r]
                     \/ JobType[j] \notin OrchestratorTypes]
  /\ UNCHANGED <<rowVars, held, workerOf>>

Heartbeat(r) ==
  LET j == active[r] IN
  /\ r \in Orchestrators /\ j # None /\ ~doomed[r]
  /\ JobType[j] \in LongTypes
  /\ lockedBy[j] = workerOf[r] /\ status[j] = "running"
  /\ lease' = [lease EXCEPT ![j] = "fresh"]
  /\ UNCHANGED <<status, attempts, due, lockedBy, revived, misjudged, runVars>>

\* A retry that is decided on the number of an earlier claim.
Misjudge(r, j, s) ==
  misjudged' = [misjudged EXCEPT ![j] =
    IF s = "retry_scheduled" /\ held[r][j] # attempts[j] THEN @ + 1 ELSE @]

\* Mutant: the update that ends a job is not guarded by locked_by.
MutRecordUnguarded(r, j, s) ==
  /\ Misjudge(r, j, s)
  /\ status' = [status EXCEPT ![j] = s]
  /\ due' = [due EXCEPT ![j] = IF s = "retry_scheduled" THEN FALSE ELSE @]
  /\ lockedBy' = [lockedBy EXCEPT ![j] = None]
  /\ held' = [held EXCEPT ![r][j] = 0]
  /\ active' = [active EXCEPT ![r] = None]
  /\ doomed' = [doomed EXCEPT ![r] = FALSE]
  /\ UNCHANGED <<attempts, lease, revived, workerOf>>

\* Mutant: a retry is scheduled without giving the lock back.
MutRetryKeepsLock(r, j, s) ==
  /\ IF lockedBy[j] = workerOf[r]
     THEN /\ status' = [status EXCEPT ![j] = s]
          /\ due' = [due EXCEPT ![j] = IF s = "retry_scheduled" THEN FALSE ELSE @]
          /\ lockedBy' = [lockedBy EXCEPT ![j] = IF s = "retry_scheduled" THEN @ ELSE None]
          /\ Misjudge(r, j, s)
     ELSE UNCHANGED <<status, due, lockedBy, misjudged>>
  /\ held' = [held EXCEPT ![r][j] = 0]
  /\ active' = [active EXCEPT ![r] = None]
  /\ doomed' = [doomed EXCEPT ![r] = FALSE]
  /\ UNCHANGED <<attempts, lease, revived, workerOf>>

\* The UPDATE ... WHERE id = j AND locked_by = worker that ends a job.
Record(r, j, s) ==
  /\ IF lockedBy[j] = workerOf[r]
     THEN /\ status' = [status EXCEPT ![j] = s]
          /\ due' = [due EXCEPT ![j] = IF s = "retry_scheduled" THEN FALSE ELSE @]
          /\ lockedBy' = [lockedBy EXCEPT ![j] = None]
          /\ Misjudge(r, j, s)
     ELSE UNCHANGED <<status, due, lockedBy, misjudged>>
  /\ held' = [held EXCEPT ![r][j] = 0]
  /\ active' = [active EXCEPT ![r] = None]
  /\ doomed' = [doomed EXCEPT ![r] = FALSE]
  /\ UNCHANGED <<attempts, lease, revived, workerOf>>

Succeed(r) ==
  /\ active[r] # None /\ ~doomed[r]
  /\ Record(r, active[r], "succeeded")

\* fase1-executor never retries: the row becomes 'failed'.
DecisionFails(r) ==
  /\ r \in Executors /\ active[r] # None
  /\ Record(r, active[r], "failed")

\* Mutant: the dead letter comes one attempt late.
MutFailsLate(r, terminal) ==
  LET j == active[r] IN
  /\ r \in Orchestrators /\ j # None
  /\ terminal => JobType[j] \in TerminalErrorTypes /\ ~doomed[r]
  /\ Record(r, j, IF terminal \/ held[r][j] > MaxAttempts
                  THEN "dead" ELSE "retry_scheduled")

\* shouldDeadLetter = terminalError || attempt >= maxAttempts
JobFails(r, terminal) ==
  LET j == active[r] IN
  /\ r \in Orchestrators /\ j # None
  /\ terminal => JobType[j] \in TerminalErrorTypes /\ ~doomed[r]
  /\ Record(r, j, IF terminal \/ held[r][j] >= MaxAttempts
                  THEN "dead" ELSE "retry_scheduled")

\* The invocation is killed: its rows stay running and locked.
Crash(r) ==
  /\ ~Idle(r)
  /\ held' = [held EXCEPT ![r] = [j \in Jobs |-> 0]]
  /\ active' = [active EXCEPT ![r] = None]
  /\ doomed' = [doomed EXCEPT ![r] = FALSE]
  /\ UNCHANGED <<rowVars, workerOf>>

Finish(r) == Succeed(r) \/ DecisionFails(r) \/ \E t \in BOOLEAN : JobFails(r, t)

Next ==
  \/ \E j \in Jobs : Submit(j) \/ BackoffElapses(j) \/ LeaseAges(j)
  \/ ReclaimStaleJobs
  \/ \E r \in Runs, S \in SUBSET Jobs : ClaimBatch(r, S)
  \/ \E r \in Runs, j \in Jobs : PickDirectly(r, j) \/ StartJob(r, j)
  \/ \E r \in Runs : Heartbeat(r) \/ Finish(r) \/ Crash(r)

Spec == Init /\ [][Next]_vars

(* The cron tick keeps invoking reclaim and both programs, an invocation   *)
(* that is not killed works through its batch (every handler call is       *)
(* aborted after 30 s), and clocks advance.  Claims are strongly fair      *)
(* because every tick gets an invocation of its own: Runs is finite only   *)
(* in the model.  Crash, Submit, Heartbeat and PickDirectly have none.     *)
Fairness ==
  /\ WF_vars(ReclaimStaleJobs)
  /\ \A j \in Jobs :
       /\ WF_vars(BackoffElapses(j)) /\ WF_vars(LeaseAges(j))
       /\ SF_vars(\E r \in Runs, S \in SUBSET Jobs : j \in S /\ ClaimBatch(r, S))
  /\ \A r \in Runs :
       /\ WF_vars(\E j \in Jobs : StartJob(r, j))
       /\ WF_vars(Finish(r))

FairSpec == Spec /\ Fairness
-----------------------------------------------------------------------------
(* Properties.                                                             *)

\* A row carries a lock exactly while it is running.  claim_*_jobs rely on it:
\* a queued row with a left-over lock would wait for the 5-minute escape
\* clause, and a running row without a lock could never be settled.
LockDiscipline == \A j \in Jobs : (lockedBy[j] # None) <=> (status[j] = "running")

SharesIsolate(r) == \E q \in Runs \ {r} : workerOf[q] = workerOf[r]

\* Whoever passes the locked_by guard holds the latest claim of the row and
\* decides about retry or dead-letter with the row's current attempts: a
\* worker that was reclaimed and wakes up later can neither settle the job for
\* its successor nor use an outdated attempt number, unless both ran in one
\* isolate and so under one RUN_WORKER_ID.
LatestClaimSettles ==
  \A r \in Runs, j \in Jobs :
    held[r][j] # 0 /\ lockedBy[j] = workerOf[r] =>
      held[r][j] = attempts[j] \/ SharesIsolate(r)

\* max_attempts bounds the work on a job: claims and reclaims together stay
\* within max_attempts + 1, plus two for each time an event revived the row and
\* one for each retry that an invocation decided on an earlier claim's number.
RetryBudget ==
  \A j \in Jobs : attempts[j] <= MaxAttempts + 1 + 2 * revived[j] + misjudged[j]

\* No step, not even a late event or a stale worker, takes a job out of
\* 'succeeded': the listener's upsert and both claims leave it alone.
SucceededIsFinal ==
  [][\A j \in Jobs : status[j] = "succeeded" => status'[j] = "succeeded"]_vars

ByHand == \E r \in Runs, j \in Jobs : PickDirectly(r, j)

\* A job that has been queued is at some point settled, whatever crashes, unless
\* an operator runs jobs by hand for ever: a manual run may send heartbeats for
\* the row it did not claim and be killed, again and again.
EveryJobSettles ==
  <>[][~ByHand]_vars =>
  \A j \in Jobs : status[j] = "queued" ~> status[j] \in {"succeeded", "failed", "dead"}

\* The columns as a lease queue sees them.
Phase(j) == CASE status[j] = "none" -> "absent"
              [] status[j] \in {"queued", "retry_scheduled"} -> "todo"
              [] status[j] = "running" -> "leased"
              [] status[j] \in {"failed", "dead"} -> "parked"
              [] status[j] = "succeeded" -> "done"

LQ == INSTANCE LeaseQueue WITH phase <- [j \in Jobs |-> Phase(j)], holder <- lockedBy

\* The table with its programs implements the lease queue.
ImplementsLeaseQueue == LQ!Spec
=============================================================================
