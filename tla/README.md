# EcoSign: verification project

TLA+ modules about the code that turns a document of EcoSign into a chain of
proofs and collects the signatures on it: the event ledger, the job queue, the
protection pipeline with its timestamp, anchors and final artifact, the workers
that anchor hashes on Polygon and Bitcoin, the signature workflow from its
start to its end and the outbox of its mails. TLC checks the modules on small instances; TLAPS proves
for every instance each safety property that a passing run checks. Paths
are relative to the repository; `F/` stands for `supabase/functions/` and `M/` for
`supabase/migrations/`.

Contents: [the system](#the-system), [modules](#modules),
[runs](#what-the-runs-check), [bounds](#bounds), [fairness](#fairness),
[proofs](#what-is-proved), [divergences](#where-code-and-text-disagree),
[limits](#what-is-not-modelled), [plan](#plan).

## The system

Everything runs in Postgres (tables, triggers, SQL functions, cron) and in edge
functions: short invocations without state of their own that may be killed at
any `await`. Nothing holds a lock across a call; what two invocations share is
rows.

| Component | State | Operations | Interacts through |
|---|---|---|---|
| Event ledger (`F/_shared/eventHelper.ts`, `eventValidator.ts`, `M/20260301001200`, `M/20260205020000`) | `document_entities.events[]`, append-only, and `witness_hash` | `appendEvent`: class and stage checks, RPC with dedupe of anchor events, guard trigger | called by every component |
| Listener (`M/20260224163000`) | none | trigger on an append: inserts or revives a row of `executor_jobs` | same transaction as the append |
| Job queue (`executor_jobs`, `M/20260131*`, `M/20260215020000`) | one row per dedupe key: status, attempts, run_at, locked_by, heartbeat_at | claim a batch, start, heartbeat, settle, retry, dead-letter, reclaim, manual run, revive | cron `runtime_tick` calls reclaim and starts both executors |
| Decision (`F/fase1-executor`, `protectDocumentV2PipelineDecision.ts`) | none | reads the ledger, appends `job.*.required`, `artifact.chain.pending`, `document.certified` | queue to ledger |
| Handlers (`F/orchestrator`, `run-tsa`, `submit-anchor-*`, `build-artifact`) | none | call a provider, append the result | queue to ledger, storage and anchors |
| Finalization (`F/finalize-document`) | the ECO file in storage | upload, download and compare, append `artifact.finalized` | called by `run-tsa` and the anchor workers with a snapshot of the ledger |
| Requests (`F/record-protection-event`, `F/apply-signer-signature`) | none | append `document.protected.requested` | clients |
| Anchors (`F/anchor-*`, `F/process-*-anchors`, `M/20260316120000`) | `anchors`: status, transaction or proof, attempts, metadata with submittedAt and nextRetryAt | submit, claim, stamp, check, time out, retry, confirm, fail | called by submit-anchor; cron every five minutes; ledger; finalization |
| Signature workflow (`F/signer-access`, `F/confirm-signer-identity`, `F/apply-signer-signature`, `M/20260305203000`, `M/20260309030000`, `M/20260305113000`) | `workflow_events`; the statuses of `workflow_signers` and `signature_workflows`, projected from it by triggers; the PDF at `document_path`, the witness | open the link, confirm, sign, repair, advance, count, complete | writes the witness and its requests to the ledger |
| Refusals and changes (`F/reject-signature`, `F/cancel-workflow`, `F/request-document-changes`, `F/respond-to-changes`) | `change_request_status`, access tokens | reject, cancel and revoke, ask for changes, answer | append to `workflow_events` |
| Signing locks (`M/20260304120000`, `M/20260304124500`, `M/20260307002000`) | `signing_lock_id`, `signing_lock_at` of a signer | claim, release, clear, expire | called by `apply-signer-signature`, read by `cancel-workflow` |
| Codes of signers (`F/send-signer-otp`, `F/verify-signer-otp`) | `signer_otps` | send, verify | a gate of `apply-signer-signature` |
| Notifications (`F/send-pending-emails`, `M/20260115100000`) | `workflow_notifications`: delivery_status, retry_count, sent_at, a cooldown | queue a notice; scan, choose, cancel, throttle, mail, record | rows from the functions of the workflow, which also call the dispatcher; cron; Resend |
| Everything else | see `PROJECT.json` | links, NDAs, presential sessions, drafts, custody, admin, client | apart from the pipeline |

What makes it correct, component by component:

- *Queue*: a row is locked exactly while it runs; who settles a row holds its
  latest claim; the attempts are bounded; success is final; every queued job is
  settled.
- *Ledger and pipeline*: a witness is timestamped once and the document closed
  once, however many handlers and finalizers run; evidence comes in its order;
  the stored ECO covers a timestamp; a requested document is closed, its anchors
  are submitted.
- *Anchors*: what is called confirmed was mined; a Polygon failure is in the
  ledger; the window belongs to the proof that waits; nothing is pending for ever;
  the row goes none, pending, confirmed or failed.
- *Signature workflow*: each signer signs once, in a sequential workflow after all
  before him; it ends once, and is completed when everybody has signed whose link
  is alive, by whoever comes last (unless the read that counts them fails); a signature on record is on the stored
  PDF, on the witness and in the ledger of the document; turns come.
- *Outbox*: a notice is mailed once and a workflow not twice in a window; what is sent,
  failed or cancelled stays so; the notice of the signer in turn is settled unless a newer one hides it; an
  ended workflow keeps nothing to send.

What is hard: an invocation acts on the ledger or row it read earlier; two cron
ticks overlap; a handler that was given up after 30 s goes on (a zombie); a kill
leaves a locked row, a sent transaction nobody stored, a timestamp without its
follow-up events; appends after a row update are best effort; events come in
an order nobody wrote a test for; a signer has two tabs, or clicks again while his
first call is on its way; every signer overwrites one file; locks grow old; two
dispatchers mail the same row, and one records what the other has overtaken. `PROJECT.json` lists each hazard at its line.

## Modules

| Module | Role |
|---|---|
| `LeaseQueue` | abstract: jobs absent, to do, leased, parked, done |
| `JobQueue` | `executor_jobs` with the programs that drain it; implements `LeaseQueue` |
| `JobQueueProofs` | theorems about `JobQueue` |
| `AnchorLifecycle` | abstract: an anchor none, pending, confirmed, failed |
| `AnchorWorker` | one row of `anchors` with its calls and cron invocations; implements `AnchorLifecycle` |
| `AnchorWorkerProofs` | theorems about `AnchorWorker` |
| `SignatureRound` | abstract: who has signed, whose link lapsed, how the round ended |
| `SigningWorkflow` | one workflow: tabs, calls, owner, projections, locks and files; implements `SignatureRound` |
| `SigningWorkflowProofs`, `SigningStampsProofs` | theorems about `SigningWorkflow` |
| `NotificationOutbox` | the notices of one workflow and the invocations that mail them |
| `NotificationOutboxProofs` | theorems about `NotificationOutbox` |
| `ProtectionPipeline` | one document; composes `LeaseQueue` (Q) and `AnchorLifecycle` (A) with the ledger, the handlers and finalization |
| `ProtectionPipelineProofs` | theorems about `ProtectionPipeline` |
| `MCJobQueue`, `MCProtectionPipeline`, `MCAnchorWorker`, `MCSigningWorkflow`, `MCNotificationOutbox` | instances for TLC |

`LeaseQueue` and `AnchorLifecycle` carry the composition. The pipeline does not
repeat rows and columns: it takes jobs with `Q!Take`, settles them with
`Q!Settle`, moves anchors with `A!Submit`, `A!Confirm`, `A!Fail`. The detailed
modules show that the tables give what the abstract ones promise, and
`UsesLeaseQueue` shows that the pipeline, with its triggers and zombies, asks for
nothing else.

**JobQueue.** One variable per column that matters (`status`, `attempts`, `due`
for `run_at <= now()`, `lockedBy`, `lease` for the age of the heartbeat) and per
invocation the batch it holds with the attempts value it read. `ClaimBatch` is
both claim functions (SKIP LOCKED: any subset of the claimable rows),
`StartJob` the update of `trace_id` that detects a lost lease, `Record` the
`UPDATE ... WHERE locked_by` that ends a job, `ReclaimStaleJobs` one statement
over all stale rows, `Submit` the listener's upsert, `PickDirectly` the manual POST.
The age of a lease is not tied to the heartbeat of a live invocation: a lease may grow
old under a working invocation, which makes it a zombie. `workerOf` is the worker id an invocation
claims with, chosen at the start from `WorkerMaps`: the orchestrator makes one per isolate
(`RUN_WORKER_ID`), so that two of its invocations may share one, `fase1-executor` one per request.
`misjudged` counts the reschedules decided on the attempt number of an earlier claim.

**ProtectionPipeline.** `ledger` is the sequence of the events whose order or
position is read (requests, timestamps, certification, confirmations,
closure), `tracked` the set of the others. `AppendEvent` is one transaction:
stage check, trigger guards, dedupe, append and the listener's jobs. An
invocation is a record with the events it still has to append, computed from the
ledger when it read it. `Claim` is claim and read (a decision job whose read fails ends as a no-op
that succeeds, the others fail), `Emit` one append, `StepFails` a call
or append that is refused, the rest
what the handler does in between. `Fail` parks a decision job at once, as `fase1-executor` does,
and reschedules the others while they have attempts. A finalizer keeps the length of its snapshot.
`signed` and `signing` are the part of `apply-signer-signature` that touches the
document. A document of a signature workflow with k signers has witnesses
0 .. k; a job is a type and a witness, as in the dedupe keys.

**AnchorWorker.** A claim copies the row; then the invocation has a plan, a
sequence of tokens (`MarkFailed`, `Store(tx)`, `Emit(...)`) in the code's order, one step each.
`WriteRow` carries out an update: it
sets only its columns (`RetryRow`, `FailRow`, `ConfirmRow`, `StampedRow`), by id, whatever the row holds now. The network is a
variable chosen at the start, so that one run covers both workers. A claim of the row
does not exclude the next tick: `ClaimPending` takes rows in `processing`, too. `overlapped` and
`unrecorded` are history: two calls or two invocations were at work at once, an append was lost.

**SigningWorkflow.** A tab is a signer's page together with the call it waits for:
`tab[t].at` is the step of `SignWorkflowPage` or, while a call runs, the next
statement of that call that reads or writes shared rows. A call reads its gates in
one step (`AccessStep`, `Sign`, `Reject`, `Cancel`) and appends in later ones,
and the others act in between; `was` and `again` are what the call has read, `copy` the
PDF it has downloaded and stamped. The statuses are functions of the log, as the
triggers compute them: `Projected` of a signer's latest event alone, `FlowStatus` of the
events that end a workflow, which sticks. `pdf` and `witness` are sets of stamps;
`UploadPdf` overwrites the one file of all. `Claim` has the turn check and the lock
of the signer. The lock of a parallel workflow is absent because
`claim_signer_for_signing` takes it and gives it back in one transaction
(`M/20260307002000:103`). `Kill` ends a call at any step after its claim; its lock
stays until `LockExpires`, and the tab may call again, which the code
answers with `Repair` when the signature is on record. Three reads and calls whose failure the
code ignores may fail: `AdvanceWorkflow` is then skipped, `Count` finds nobody left, `Cancel` does not
see the locks; `miscounted` remembers the second. `TokenLapses` is the end
of a link.

**NotificationOutbox.** `row[n]` is the notice of a signer, which the unique constraint
allows once, or `Other`, a row of a type that the dispatcher cancels. The workflow is
its environment: `Leave` and `End` move turns and end it, `SetBack` makes a signer ready again who
was past (see `Signing_second_tab`), `Enqueue` is the upsert of
`apply-signer-signature`, which comes after the turn it announces, or never. An invocation
is a record with its next step, the row it copied and the rows it scanned.
`Select` is the scan, the choice of one row and its cooldown, `Judge` the read of the
workflow with the checks on type and status, `CheckThrottle` and `CheckSigner` the two reads before
the mail, `Send` the answers of Resend, and three actions record them. No step claims a
row, and no update looks at what it overwrites. `cooling` is a `rate_limited_until` that has
not passed, `fresh` are the rows sent whose `sent_at` is within the 30 s. `mails`, `burst`,
`shared` and `rough` are history: what was mailed, and where the code promises nothing because two
invocations had a row before them, a mail went unrecorded or a read failed.

## What the runs check

| Run | Specification | Question |
|---|---|---|
| `JobQueue_mixed` | FairSpec | Two job types, three invocations, two of which may share an isolate, manual runs, kills, reclaims, one revival: types, locks, latest claim, budget, final success, refinement of `LeaseQueue`; every queued job is settled, whatever is killed, once the manual runs are over |
| `Pipeline_direct` | Spec | Two concurrent requests, two handlers, a finalizer, one fault: uniqueness of proofs, the stored ECO, the use of the queue, nobody ends the lease of another |
| `Pipeline_signing` | Spec | A direct protection and two signers on one document, in any order, with a Bitcoin anchor: evidence comes in order and nothing is proved twice |
| `Pipeline_live` | FairSpec | One kill, timeout, failed read, refused call or lost append: the document is closed unless this fault lost the decision to timestamp it; without a fault the anchor is submitted |
| `Anchor_overlap` | FairSpec | Both networks, two overlapping invocations, a resubmission, a kill, provider error or lost append: confirmations, recorded failures, no anchor pending for ever; up to the first overlap fresh windows and refinement of `AnchorLifecycle` |
| `Signing_faults` | Spec | Sequential and parallel, a second tab, a cancellation, a call killed or a read that fails, an expired link: refinement of `SignatureRound`, stamps are kept in sequence |
| `Signing_live` | FairSpec | Everything signers and owner may do instead of signing: signatures are attested, turns come, a workflow all have signed ends |
| `Outbox_overlap` | FairSpec | Two signers in turn, two overlapping invocations, two faults (a read or mail that fails, 429, a kill, a turn that comes back): one mail per notice and per window outside of overlaps, settled rows stay, the notice of the signer in turn is settled unless hidden by a newer one, an ended workflow is cleared |
| `Pipeline_eco_hash`, `Signing_parallel`, `Signing_miscount`, `Signing_second_tab` | Spec | violations, see [below](#where-code-and-text-disagree) |

The mutants in the modules (`Mut...`) are plausible bugs, one or more per
property: a dropped `locked_by` guard, a reclaim that keeps the lock, a
decision that does not wait for the timestamp, a confirmation that does not
write its proof, a claim that ignores the lock, a call that counts who is left only
in sequential workflows. `PROJECT.json` pairs each with the property that finds it.
Deadlock is not checked: all work done is a proper end of these systems.

Liveness has FairSpec, which does not restrict the states that safety is
checked on. Symmetry is used in runs without liveness only, over
interchangeable invocations and calls.

## Bounds

- `JobQueue_mixed`: MaxAttempts 2 and one revival reach a retry and the dead letter from
  both sides (worker and reclaim) before and after a revival; three isolates
  give a worker, its successor and a manual run, and with two the worker and its successor are the
  same to the guard. Budget and uniqueness of the
  claim do not depend on the bounds: they are proved.
- `Pipeline_*`: MaxFaults 1 is one kill, timeout, failed read or refusal anywhere; two
  handlers make a zombie and its successor meet. MaxAttempts 3 leaves a retry
  after a fault (4 in the live run, where each wait for a finalizer counts).
  Two signers are the smallest number with a signature that is not the last
  one; Bitcoin alone suffices where networks are independent (the decision
  orders them, nothing else relates them). The safety properties do not depend on these
  bounds: they are proved.
- `Anchor_overlap`: two calls are a submission and a resubmission after a failure;
  two invocations overlap; MaxAttempts 1 makes attempts run out while the other
  invocation still has the old row. All but `NeverPendingForever` is proved without these bounds.
- `Signing_*`: two signers have a first, a next and a last one. Of the faults run, the
  signer with two tabs is the first, who can disturb the other's turn; MaxFaults 1
  leaves one lock behind at every step or fails one read, MaxLapses 1 ends one link, before, during or
  after its signature. Cancellation is the owner's only act there; refusals, changes and
  answers are in the live run, with one tab each. The refinement and `TurnsKeepStamps` do not depend on the
  bounds: they are proved.

- `Outbox_overlap`: two signers in turn make an old row stay behind that nobody will
  settle; two invocations share rows; MaxRetries 2 (10 in the code) has a refused mail
  before the last one; two faults are a 429 and a kill, two refusals, or a turn that comes back and one of these.
  Its safety does not depend on the bounds: it is proved for both kinds.

MaxFaults, MaxSubmits, MaxRevivals, `FaultKinds`, `ManualRuns`, `WorkerMaps`, MaxLapses
and the number of tabs are the only bounds the code does not have; `Owner` and
`Refusals` choose what people may do in a run.

## Fairness

- *Cron*: `runtime_tick` (`M/20260131001400`) reclaims and starts both
  executors, the crons of `M/20260317150000` and `M/20260303133000` start the
  anchor workers every five minutes. So a job that can be claimed again and again
  is claimed: strong fairness of the claim, because `Runs` is finite only in the
  model and each tick brings a fresh invocation. Reclaim is weakly fair.
- *Invocations* run to their end unless a fault kills them: weak fairness of
  `Work`, `Finish`, `Close`. Each handler call ends after 30 s at the latest
  (`F/orchestrator/index.ts:241`).
- *Calls* of a page or the owner go on once their gates are passed: weak fairness
  of `Call` for each tab and of `OwnersCall`. What a person has to click has
  no fairness.
- *Dispatchers*: the cron job, kept in the dashboard, and the functions of the workflow start
  new invocations again and again; some invocation goes on, while any other may hang: weak
  fairness of all of them together.
- *Time* passes: backoffs, leases, retry times, the five minutes of a signing lock, the
  throttle window and the cooldown of the outbox.
- The liveness properties of the signature workflow except `Disturbed`: nothing in the
  code takes a workflow up again whose last call was killed, and a signer who was set
  back to ready by a late event is ahead again. `Signing_live` has no kills;
  the set-backs it has come from the owner's late answer.
- No fairness for people, blockchains, confirmation windows and faults.
  `NeverPendingForever` therefore rests on the attempts alone: retries are counted,
  also when two invocations lose counts to each other.

## What is proved

`JobQueueProofs` proves, for any set of jobs, invocations, workers and any
bounds allowed by `JobQueueAssumption`:

| Theorem | Says |
|---|---|
| `TypeCorrect` | `Spec => []TypeOK` |
| `LockDisciplineHolds` | `Spec => []LockDiscipline` |
| `SucceededStays` | `Spec => SucceededIsFinal` |
| `LatestClaim` | `Spec => []LatestClaimSettles` |
| `Budget` | `Spec => []RetryBudget` |
| `Refinement` | `Spec => ImplementsLeaseQueue` |

The invariant is `LockInv`: the types, `LockDiscipline`, `RunningWasClaimed` (a
running row has attempts at least 1) and `ActiveIsHeld` (an invocation works on
a job of its batch). The last two are what the guards rely on: a settled job
was held with an attempt number that is not 0, and a manual run, which reads 1 for
a row that was never claimed, cannot meet a locked row with 0 attempts.
It has one lemma per action; all ways to end a job are reduced to `Record` by
`FinishRecords`. `LatestClaimSettles` says that who passes the `locked_by` guard holds the latest
claim or shares his isolate: `RUN_WORKER_ID` is made once per isolate
(`F/orchestrator/index.ts:27`), and two overlapping invocations of one isolate
pass each other's guard. What this costs is in `RetryBudget`: each reschedule on an outdated
attempt number (`misjudged`) is worth one attempt more. The budget needs to know more than its bound:
`BudgetInv` says by how much a row may exceed `MaxAttempts` in each state, since the
claim counts before the limit is compared and reclaim counts once more.
`Refinement` shows that every action is a step or stutter of `LeaseQueue`, in shared isolates,
too, as a guarded `Record` on a row means that it is leased.

`SigningWorkflowProofs` and `SigningStampsProofs` prove, for any finite set of signers, any tabs and any
bounds allowed by `SigningAssumption`:

| Theorem | Says |
|---|---|
| `TypeCorrect` | `Spec => []TypeOK` |
| `Refinement` | `Spec => ImplementsRound` |
| `TurnsHold` | `Spec => [](NoneSkipped /\ WritersInTurn /\ CompletedByAll)` |
| `StampsKept` | `Spec => []TurnsKeepStamps` |

No single call checks what the refinement needs. The claim compares a signer with
those who are *ready*; that nobody before him is still waiting to be asked follows from
`NoneSkipped` (whoever has an event was reached: all before him have one, too) and
`ReachedByCalls` (the same for tabs and the owner, whose appends come later than their
gates). Then whoever is claimed has only signers before him who are done, and
`WritersInTurn` says that this stays true until his signature is on record, though the
lock may have been lost by then. `CompletedByAll` carries the count of the last signer
to the append of `workflow.completed`; it and the refinement speak of counts that were read
(`miscounted` is their exception, a step `Miscount` of `SignatureRound`). `Logged` ties the statuses to the log and
`Grounded` says what a call has read that cannot become false. `Onward` is what every step
does to the facts that calls rely on; a step is a move of a tab (`TabMoves`,
`GoKeeps`), which needs nothing of the log, and an append (`AppendKeeps`, `EndKeeps`), which
needs nothing of the tab. That signers are signing orders and `First` their least one
rests on the well-foundedness of the naturals (`FirstIsLeast`).

That stamps are kept is the other argument, since no lock spans two signers and every one of
them overwrites the file. Its invariant, `StampInv`, follows a baton: `OneAsked` says that at most one
signer is asked who has not signed, or one call has put his signature on record and has still
to ask the next, never both. A signer who was passed over because his link had expired does
not count; `Engaged` says what of his could still come (an open tab, a request for
changes, the owner's answer), and `EngagedIfAsked` that nothing of the kind exists for one who was
never asked. With the baton, the signer's own lock is enough for one writer (`OneWriter`):
it is his until his signature, unless the cancellation took it, and after a cancellation
nobody claims (`RevokesCancelled`). `CopiesHold` is then the sequential argument about
stamp, upload and witness. The invariant was checked with TLC on four instances (a second
tab with cancellation, with answers and refusals; one tab each with everything; three
signers) before it was proved. All of it holds under the antecedent of `TurnsKeepStamps`,
that nobody is set back who has signed; `Signing_second_tab` shows what may happen otherwise, and
`Signing_parallel` what happens without turns.

That antecedent is not always met. In `Signing_second_tab` the other tab reports a visit
after the signature; an answer to a request of before the signature sets the signer back to ready;
and a call killed behind `signer.signed` gives back a page that offers to reject, which
`F/reject-signature/index.ts` does not refuse to one who has signed (TLC finds both with two signers and
one tab each).

`NotificationOutboxProofs` proves, for any finite set of signers in turn or in parallel, any number
of invocations and any bounds allowed by `OutboxAssumption`:

| Theorem | Says |
|---|---|
| `TypeCorrect` | `Spec => []TypeOK` |
| `NoticeIsMailedOnce` | `Spec => []OneMailPerNotice` |
| `OneMailInAWindow` | `Spec => []OneMailPerWindow` |
| `SettledForGood` | `Spec => SettledStays` |

Nothing guards a row, so the argument is about what invocations have before them: the row an
invocation works on is one of its scan (`Fit`), which nobody else has scanned (`Alone`) unless it
is shared, so it is still pending (`HeldPending`), and its mail is in the row or in the
invocation about to record it (`MailsRecorded`). A settled row is therefore before nobody, and
no step writes it. `WindowInv` is the same for the window: one invocation at a time, and past the
throttle there has been no mail.

`ProtectionPipelineProofs` proves, for any number of signers, calls, invocations and
finalizations, any networks, attempts and faults allowed by `PipelineAssumption`:

| Theorem | Says |
|---|---|
| `TypeCorrect` | `Spec => []TypeOK` |
| `QueueUsedAsAllowed` | `Spec => UsesLeaseQueue` |
| `LeasesHaveHolders` | `Spec => []LeasesAreHeld`: a job has a holder exactly as long as it is leased |
| `ProofsStayUnique` | `Spec => []ProofsAreUnique` |
| `EvidenceStaysInOrder` | `Spec => []EvidenceInOrder` |
| `StoredEcosAreTimestamped` | `Spec => []StoredEcoIsTimestamped` |

`PipelineAssumption` says of SQL's NULL that it is no invocation and no copy of the artifact.
`UsesLeaseQueue` says that every step is one `LeaseQueue` allows, and `OnlyHolderSettles`, which
it contains, that no invocation but the holder moves when a lease ends: it is the holder who
settles, or reclaim, never a zombie. The first needs the types only: an append is to the job table the submission of one
absent or parked job, or nothing (`AppendPhase`), and every other step takes, settles or
lapses one job (`QueueSteps`); the second is `HolderSettles`. With `JobQueueProofs!Refinement` the two sides of the queue
meet at every size. `ProofsStayUnique` rests on the ledger alone: it only
grows, and what the trigger rejects is not appended (`LedgerGrows`).

The other two are about invocations with old snapshots. `EvidenceInOrder` is not inductive: what
appends `document.certified` was decided when another ledger was read. The
strengthening, `PipelineInv`, calls an event *founded* when what it presupposes is on record
(`Founded`: a timestamp for a certification or a `build_artifact` job, the
timestamp of its own witness for an `anchor.submitted`) and says of everything that may
become an event that it is founded: the events an invocation has still to append
(`RunIsFounded`), the ledger (`EventsAreFounded`), the anchors and the outcomes
their workers have yet to report (`AnchorsAreFounded`), the job that builds the artifact and the stored file
(`ArtifactIsFounded`), the snapshots that closers and builders work from (`CloserIsFounded`: they
were long enough to hold a timestamp). Since the ledger only grows, nothing that is
founded ceases to be (`FoundationsStay`); so it is enough that an invocation starts with
founded events (`ClaimStarts`, from what the operators `DecisionEvents` and `TsaEvents` return) and that
each append comes from one of them (`LedgerSteps`, `SourcesAreFounded`). An
`artifact.finalized` is published only behind an upload: `RunIsFounded` and `CloserIsFounded`
follow the file from the upload to the append. `PipelineInv` was an invariant of `Pipeline_direct`
and `Pipeline_signing` before it was proved.

`AnchorWorkerProofs` proves, for either network, any number of calls, invocations, submissions,
attempts and faults allowed by `AnchorAssumption`:

| Theorem | Says |
|---|---|
| `TypeCorrect` | `Spec => []TypeOK` |
| `ConfirmationsAreReal` | `Spec => []ConfirmationIsReal` |
| `FailuresAreRecorded` | `Spec => []FailureIsRecorded` |
| `WindowsAreFresh` | `Spec => []WindowIsFresh` |
| `Refinement` | `Spec => ImplementsLifecycle` |

A plan goes on whatever happens to the row, so the invariants speak of the tokens
still to be done. For confirmations each token is real (`TokenIsReal`): what it is about was sent,
and what it confirms was mined, which stays so because a chain takes nothing back (`ChainKept`); this
needs no assumption on overlaps. A Polygon plan records a failure before it marks one
(`PlansRecordFirst`), unless the append was lost: the code logs that and goes on, and
`FailureIsRecorded` excepts a row for which it happened (`unrecorded`).
Until two calls or two invocations overlap, killed and started
again any number of times, the one update of a plan finds the row as it was
claimed (`PlansHoldRow`) and a call that has sent its transaction finds no live row
(`CallsHoldRow`); both are kept by `AloneInv`, on which `WindowIsFresh` and the lifecycle rest. The code
does not exclude an overlap (`claim_anchor_batch` gives a row in
processing to the next tick as soon as it is due), so these two properties speak of each behaviour up to
its first one; behind it an old view can give the row an old window, or write `processing` over a
final status, and nothing is promised.

What stays with TLC: the liveness properties (`EveryJobSettles`, `RequestedIsClosed`,
`DirectProtectionIsAnchored`, `NeverPendingForever`, `SignaturesAreAttested`, `TurnComes`,
`AllSignedEnds`, `TurnNoticeSettles`, `EndedFlowIsCleared`), since the prover has neither fairness nor
ENABLED, and the four properties that are violated. That `ProtectionPipeline` moves
anchors only as `AnchorLifecycle` allows needs no proof: its actions are `A!Submit`, `A!Confirm` and `A!Fail`.

## Where code and text disagree

Four of these have a run that shows them (kind and quotation in
`PROJECT.json`, "findings"):

1. `Pipeline_eco_hash`: `build-artifact` uploads with upsert to the path whose content
   `finalize-document` has verified; the file is then not the one whose hash is
   in `artifact.finalized`.
2. `Signing_parallel`: `RETURN NEXT` does not return, so `claim_signer_for_signing`
   gives the lock of a parallel workflow back that it has just taken; two signers then
   stamp the same PDF and the later upload drops the earlier stamp.
3. `Signing_second_tab`: the projection of a signer's status looks at his latest event
   alone; a `signer.accessed` that was on its way when he signed makes him ready again.
4. `Signing_miscount`: `apply-signer-signature` does not look at the error of the read that counts the
   remaining signers, and takes its empty answer for "nobody left": the first of two signers
   completes the workflow.

Seen while modelling, in the models, without a run of their own.

The pipeline:

- `run-tsa` finalizes after every timestamp (`F/run-tsa/index.ts:252`), also that
  of the first of several signers; a comment of the decision
  (`F/_shared/protectDocumentV2PipelineDecision.ts:121`) says that these never close the
  document. Once the document is closed the decision stops, and it looks for any timestamp,
  whatever its witness.
- The last signer's branch reads a `const` of another block
  (`F/apply-signer-signature/index.ts:1864`) and throws, so the final
  `document.protected.requested` of `docs/architecture/DECISION_LOG_3.0.md:612` is never
  appended.
- The constraint `valid_bitcoin_tx` (`M/20260316120000:43`) was made for Bitcoin rows and
  refuses to confirm Polygon rows; a mined transaction ends in `anchor.failed`. This is also
  why `ConfirmAnchor` of the pipeline is for Bitcoin only.
- `claim_anchor_batch` says it prevents duplicate concurrent processing
  (`M/20260301001200:140`); a row in `processing` that is due is claimable at once.
- A Bitcoin hash the calendar refuses fails without an event
  (`F/process-bitcoin-anchors/index.ts:617`), against
  `docs/beta/CONTRATO_ESTADOS_EVENTOS_ANCHORING_POR_DOCUMENTO.md:103`.
- `anchor.final_failed` (`:474` of the same function) has an underscore, so
  `appendEvent` refuses it, and the result is not looked at.
- Anchor events are deduplicated by kind, witness, network and stage: the
  `anchor.failed` of a second attempt is swallowed by the first one's.
- A document that was protected directly with an anchor and is then signed gets
  its request for the signed witness refused by B2 (`F/_shared/eventValidator.ts:62`);
  `apply-signer-signature` logs it.
- A decision job that meets a database error is `failed` and never retried
  (`F/fase1-executor/index.ts:580`), and one that cannot read its document ends as a no-op that
  has succeeded (`:315`). Nothing takes a lost decision up; `RequestedIsClosed` excepts the first one
  (`DecisionLost`).
- A kill or a lost append between the two writes of a Polygon failure leaves a row `failed` without an
  event, or an event without the status: the result of the append is not looked at
  (`F/process-polygon-anchors/index.ts:105`).
- `reclaim_stale_jobs` has no TTL for `generate_signature_evidence`: such a row
  would stay running after a kill. No caller of `run-tsa` in the repository passes
  the `signer_id` that would enqueue one.
- The row of a Bitcoin anchor is confirmed before `anchor.confirmed` is appended, best
  effort; a confirmed row is never looked at again.

The signature workflow:

- It is completed although a signer's link expired without his signature: the count takes every
  terminal status. In a sequential workflow, on the other hand, nobody advances
  it when a link expires in its turn.
- `cancel-workflow` revokes after its event has made every pending signer `cancelled`, and
  passes these over (`F/cancel-workflow/index.ts:112`): their tokens stay alive. The gates
  look at the workflow, too, so nobody signs with them.
- The owner's answer to a request for changes is appended after its gates and may come
  after the signature, which sets the signer back.
- The repair of a recorded signature neither advances nor completes when the status is already
  `signed` (`F/apply-signer-signature/index.ts:849`): a call killed there leaves the workflow
  as it is.
- To accept a change always fails: `create_workflow_version` stores a signer's id in a column
  that references `auth.users` (`M/20251117010000:56`).
- `ClearLock` clears the lock of the signer, whoever holds it by then.

The outbox:

- "A single workflow may emit at most ONE email per throttle window"
  (`F/send-pending-emails/index.ts:5`): two invocations that both pass the throttle before
  either has recorded its mail emit two, of one row or of two. The exceptions of
  `OneMailPerNotice` and `OneMailPerWindow` say where.
- A read of the workflows that fails leaves them all missing, and the notices chosen are
  cancelled for good (`:392`); the upsert that queues a notice finds the row there and leaves it.
- A 429 that comes late sets rows back to pending whose retries are used up: they stay pending and
  are not scanned again.
- A notice of a signer who has signed is skipped in each run and stays pending. In a parallel workflow,
  being of the same time as the others, it may stay the one that is tried; in a sequential one it hides
  for good the older notice of a signer who was set back to ready (`Hidden`).
- The notice for the first signer of a new version (`F/respond-to-changes/index.ts:390`) is the row
  the unique constraint allows once; the insert fails and its result is not looked at. (To
  accept a change fails before that, as said above.)

## What is not modelled

- Contents: payloads, hashes, PDFs, signatures and certificates are witnesses,
  copies and kinds. Authentication, row-level security and rate limits are left out.
- Events no decision reads and no trigger acts on; projections
  into `user_documents` (a function of the ledger in the same transaction).
- `appendEvent` reads the stage order before its atomic append; the model has both
  in one step.
- In the pipeline, `submit-anchor` is one step and anchors follow
  `AnchorLifecycle`; its inner steps are in `AnchorWorker`. That refinement holds
  up to the first overlap of calls or cron ticks: behind it an invocation with an old view
  can write `processing` over a failed or confirmed row.
- In `AnchorWorker` the schedule is "due or not" and the window "late or not", the
  ten-minute reclaim of a queued row is taken to outlast an invocation.
- `SigningWorkflow` and `ProtectionPipeline` are not composed: a signature of the pipeline is
  one witness and its request, of the workflow a stamp on both files. The ledger's
  timestamps are not in the workflow, the log of the workflow not in the pipeline.
- Of a signature: NDAs, workflows without codes, fields, the ECO snapshots and evidence of
  each signer, notifications. An append of `apply-signer-signature` is taken not to fail; a kill in
  front of it is the model's failure. The attempts and the ten minutes of a code are left
  out, verification is one step. A lock's five minutes are taken to outlast a call
  that is alive.
- Of the outbox: several workflows and the limits over them (200 rows, five mails), the cutoff for
  old rows, `system_emails`, texts and recipients. Signers and workflow are an
  environment: turns that come, go and come back, and an end. How they do so is in
  `SigningWorkflow`; that it does no more than this environment is not checked.
- `process-signer-signed` has no caller in the repository, and no page calls
  `request-document-changes` and `respond-to-changes`; these two are modelled as their
  handlers stand.
- Every component with status `not_modelled` in `PROJECT.json`, with the reason given
  there. The lines of the repository are mostly its web client: pages and forms, whose
  state is what the rows say. Of it only the signer's page is modelled.

## Plan

1. *Done*: `LeaseQueue`, `JobQueue`, its proofs; `ProtectionPipeline`;
   `AnchorLifecycle`, `AnchorWorker`; `SignatureRound`, `SigningWorkflow`, its proofs;
   `NotificationOutbox`, its proofs.
2. *Done*: proofs of every safety property of a passing run, for `ProtectionPipeline` and
   `AnchorWorker`, too.
3. Composition: the pipeline's `Sign` and requests as the abstract view of
   `SigningWorkflow`; the workflow of the outbox as another.
4. Candidates after that: codes with their expiry and attempts, presential sessions, the client's derivations of a state from the ledger as
   operators checked against a reference.
