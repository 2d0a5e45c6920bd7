------------------------- MODULE ProtectionPipeline -------------------------
(***************************************************************************)
(* One document on its way from a protection request to its final          *)
(* artifact.  The only shared truth is the document's ledger, the          *)
(* append-only events[] of document_entities: a database trigger turns     *)
(* some events into jobs, an invocation works on a job from the ledger as  *)
(* it was when it read it, and appends events that make further jobs.      *)
(*                                                                         *)
(* The executor_jobs table is used through LeaseQueue, which JobQueue      *)
(* implements: an invocation that lost its lease goes on as a zombie, and  *)
(* only the holder of a lease settles the job.                             *)
(*                                                                         *)
(* The ledger is kept as the sequence of its evidence events and, as their *)
(* order and number are never read, the set of its other events.  Events   *)
(* that no decision reads and no trigger acts on (tsa.failed, anchor       *)
(* failures, monitoring) are left out.  The anchors table is used through  *)
(* AnchorLifecycle, which AnchorWorker implements.                         *)
(***************************************************************************)
EXTENDS Integers, Sequences, SequencesExt

CONSTANTS
  Callers,      \* calls of record-protection-event, made at any time
  Signers,      \* number of signers of the document's signature workflow
  Networks,     \* the networks the owner's plan anchors to
  Runs,         \* invocations that work on a job
  Closers,      \* invocations of finalize-document
  MaxAttempts,  \* column max_attempts
  MaxFaults,    \* bound: kills, timeouts, failed reads, appends and calls
  None          \* SQL NULL

\* Witness 0 is the protected upload, witness k the PDF signed by signer k.
Witnesses == 0 .. Signers

ASSUME PipelineAssumption ==
  /\ Signers \in Nat
  /\ Networks \subseteq {"polygon", "bitcoin"}
  /\ MaxAttempts \in Nat \ {0}
  /\ MaxFaults \in Nat
  /\ None \notin Runs /\ None \notin [by : Runs \cup Closers, seen : Nat]

\* The dedupe keys: a milestone of protect_document_v2 or an anchor job has a
\* witness, the artifact is built once per document.  The type of a job
\* submit_anchor_N is written N.
Milestones == {"awaiting_tsa", "awaiting_anchors", "awaiting_artifact"}
ArtifactJob == <<"build_artifact", None>>
Jobs == (Milestones \cup {"run_tsa"} \cup Networks) \X Witnesses \cup {ArtifactJob}

VARIABLES
  ledger,    \* document_entities.events: the evidence events, in order
  tracked,   \* document_entities.events: the other events
  witness,   \* document_entities.witness_hash
  phase,     \* executor_jobs, as LeaseQueue sees it
  holder,    \* executor_jobs.locked_by
  attempts,  \* executor_jobs.attempts
  run,       \* run[r]: the invocation r, see NoRun
  closer,    \* closer[c]: the invocation c of finalize-document, see NoCloser
  file,      \* the ECO stored at artifacts/<document>/v1.eco.json
  anchor,    \* anchor[n, w]: anchors.anchor_status
  outcome,   \* anchors whose worker has yet to trigger finalization
  call,      \* call[c]: progress of a record-protection-event call
  signed,    \* how many signers have signed
  signing,   \* progress of apply-signer-signature
  faults     \* faults so far (not in the code)

vars == <<ledger, tracked, witness, phase, holder, attempts, run, closer, file, anchor,
          outcome, call, signed, signing, faults>>
anchors == <<anchor, outcome>>
queue == <<phase, holder, attempts>>
events == <<ledger, tracked>>

Q == INSTANCE LeaseQueue WITH Workers <- Runs
A == INSTANCE AnchorLifecycle WITH Anchors <- Networks \X Witnesses, state <- anchor

NoRun == [job |-> None, pc |-> "idle", seen |-> 0, out |-> <<>>]
NoCloser == [pc |-> "idle", seen |-> 0, witness |-> 0]

Init ==
  /\ ledger = <<>> /\ tracked = {} /\ witness = 0 /\ file = None
  /\ Q!Init /\ attempts = [j \in Jobs |-> 0]
  /\ run = [r \in Runs |-> NoRun]
  /\ closer = [c \in Closers |-> NoCloser]
  /\ A!Init /\ outcome = {}
  /\ call = [c \in Callers |-> [pc |-> "new", witness |-> 0]]
  /\ signed = 0 /\ signing = "ready" /\ faults = 0
\* Something goes wrong that the environment may do to the program.
Fault == faults < MaxFaults /\ faults' = faults + 1
-----------------------------------------------------------------------------
(* The events.                                                             *)

\* Mutant: every network is required, whatever the owner's plan.
MutIgnoresPlan(flow, stage, w) ==
  [kind |-> "document.protected.requested", flow |-> flow, stage |-> stage,
   witness |-> w,
   evidence |-> {"tsa"} \cup (IF flow = "SIGNATURE_FLOW" /\ stage # "final"
                              THEN {} ELSE {"polygon", "bitcoin"})]
Requested(flow, stage, w) ==
  [kind |-> "document.protected.requested", flow |-> flow, stage |-> stage,
   witness |-> w,
   evidence |-> {"tsa"} \cup (IF flow = "SIGNATURE_FLOW" /\ stage # "final"
                              THEN {} ELSE Networks)]
Timestamped(w) == [kind |-> "tsa.confirmed", witness |-> w]
Required(type, w) == [kind |-> "job.required", type |-> type, witness |-> w]
Pending(w) == [kind |-> "artifact.chain.pending", witness |-> w]
Certified(w) == [kind |-> "document.certified", witness |-> w]
Submitted(n, w) == [kind |-> "anchor.submitted", network |-> n, witness |-> w]
Confirmed(n, w) == [kind |-> "anchor.confirmed", network |-> n, witness |-> w]
Logged(w) == [kind |-> "rekor.confirmed", witness |-> w]
\* eco: the copy whose hash the event records; build-artifact records none.
Finalized(eco) == [kind |-> "artifact.finalized", eco |-> eco]

EvidenceKinds == {"document.protected.requested", "tsa.confirmed",
                  "document.certified", "anchor.confirmed", "artifact.finalized"}

Has(s, kind) == \E i \in DOMAIN s : s[i].kind = kind
Requests(s) == SelectSeq(s, LAMBDA e : e.kind = "document.protected.requested")
LatestRequest(s) == Last(Requests(s))
Snapshot(n) == SubSeq(ledger, 1, n)

\* Networks are asked for in this order.
InOrder(S) == (IF "polygon" \in S THEN <<"polygon">> ELSE <<>>)
              \o (IF "bitcoin" \in S THEN <<"bitcoin">> ELSE <<>>)
-----------------------------------------------------------------------------
(* Appending an event: appendEvent, the RPC and the table's triggers.      *)

StageRank == [initial |-> 0, intermediate |-> 1, final |-> 2]

\* B2: within a stage the required evidence is fixed, from stage to stage it
\* may only grow, and stages do not go back.
BreaksMonotonicity(e) ==
  /\ Has(ledger, "document.protected.requested")
  /\ LET prev == LatestRequest(ledger) IN
     \/ prev.stage = e.stage /\ prev.evidence # e.evidence
     \/ StageRank[prev.stage] < StageRank[e.stage] /\ ~(prev.evidence \subseteq e.evidence)
     \/ StageRank[prev.stage] > StageRank[e.stage]

\* Mutant: the trigger does not look for what is there already.
MutClosesTwice(e) ==
  \/ e.kind = "document.protected.requested" /\ BreaksMonotonicity(e)
  \/ /\ e.kind = "tsa.confirmed"
     /\ ~Has(ledger, "document.protected.requested") \/ e.witness # witness
Rejected(e) ==
  \/ e.kind = "document.protected.requested" /\ BreaksMonotonicity(e)
  \/ /\ e.kind = "tsa.confirmed"
     /\ \/ ~Has(ledger, "document.protected.requested")
        \/ Contains(ledger, Timestamped(witness))
        \/ e.witness # witness
  \/ e.kind = "artifact.finalized" /\ Has(ledger, "artifact.finalized")

\* An anchor event that is there already is accepted and ignored.
Ignored(e) == \/ e.kind = "anchor.submitted" /\ e \in tracked
              \/ e.kind = "anchor.confirmed" /\ Contains(ledger, e)

\* The jobs the listener inserts for an event: milestones of
\* protect_document_v2, and the job a job.required event names.
JobsFor(e) ==
  CASE e.kind = "document.protected.requested" -> {<<"awaiting_tsa", e.witness>>}
    [] e.kind = "tsa.confirmed" -> {<<"awaiting_anchors", e.witness>>}
    [] e.kind \in {"rekor.confirmed", "anchor.confirmed"} ->
         {<<"awaiting_artifact", e.witness>>}
    [] e.kind = "job.required" ->
         {IF e.type = "build_artifact" THEN ArtifactJob ELSE <<e.type, e.witness>>}
    [] OTHER -> {}

\* Event and jobs are one transaction.  A row that exists is requeued only
\* when it is parked; a retry that is scheduled already counts as to do.
AppendEvent(e) ==
  /\ ~Rejected(e)
  /\ IF Ignored(e) THEN UNCHANGED <<events, phase>>
     ELSE /\ IF e.kind \in EvidenceKinds
             THEN ledger' = Append(ledger, e) /\ UNCHANGED tracked
             ELSE tracked' = tracked \cup {e} /\ UNCHANGED ledger
          /\ phase' = [j \in Jobs |->
                         IF j \in JobsFor(e) /\ phase[j] \in {"absent", "parked"}
                         THEN "todo" ELSE phase[j]]
  /\ UNCHANGED <<holder, attempts>>
-----------------------------------------------------------------------------
(* Requests for protection.                                                *)

\* record-protection-event: reads the document and returns when any
\* protection was requested before.
CheckRequest(c) ==
  /\ call[c].pc = "new"
  /\ call' = [call EXCEPT ![c] =
                [pc |-> IF Has(ledger, "document.protected.requested") THEN "done" ELSE "checked",
                 witness |-> witness]]
  /\ UNCHANGED <<events, witness, queue, run, closer, file, anchors, signed, signing, faults>>

\* ... and appends the request some time later.
RequestProtection(c) ==
  LET e == Requested("DIRECT_PROTECTION", "initial", call[c].witness) IN
  /\ call[c].pc = "checked"
  /\ call' = [call EXCEPT ![c].pc = "done"]
  /\ IF Rejected(e) THEN UNCHANGED <<events, queue>> ELSE AppendEvent(e)
  /\ UNCHANGED <<witness, run, closer, file, anchors, signed, signing, faults>>

\* apply-signer-signature: the signed PDF becomes the document's witness.
Sign ==
  /\ signing = "ready" /\ signed < Signers
  /\ signed' = signed + 1 /\ witness' = signed + 1
  /\ signing' = "stamped"
  /\ UNCHANGED <<events, queue, run, closer, file, anchors, call, faults>>

\* Appends a request once per witness and stage; a rejection is only logged.
RequestOnce(e) == IF Contains(ledger, e) \/ Rejected(e)
                  THEN UNCHANGED <<events, queue>>
                  ELSE AppendEvent(e)

RequestForSigner ==
  /\ signing = "stamped"
  /\ RequestOnce(Requested("SIGNATURE_FLOW", "initial", signed))
  /\ signing' = IF signed = Signers THEN "last" ELSE "ready"
  /\ UNCHANGED <<witness, run, closer, file, anchors, call, signed, faults>>

\* The last signer completes the workflow and is to ask for the final
\* protection.  The code names the witness by hashHex, a constant of a block
\* that has ended: the ReferenceError is caught and logged, nothing is appended.
RequestFinal ==
  /\ signing = "last"
  /\ signing' = "done"
  /\ UNCHANGED <<events, queue, witness, run, closer, file, anchors, call, signed, faults>>
-----------------------------------------------------------------------------
(* fase1-executor: what a document needs next, decided from the ledger.    *)

Unconfirmed(s) == {n \in LatestRequest(s).evidence \cap Networks :
                     \A i \in DOMAIN s : ~(s[i].kind = "anchor.confirmed" /\ s[i].network = n)}

Terminal(req) == req.flow # "SIGNATURE_FLOW" \/ req.stage = "final"

\* Mutant: the timestamp is not waited for.
MutDecidesEarly(s) ==
  IF ~Has(s, "document.protected.requested") \/ Has(s, "artifact.finalized") THEN <<>>
  ELSE <<"run_tsa", "build_artifact">>

Decide(s) ==
  IF ~Has(s, "document.protected.requested") THEN <<>>
  ELSE IF ~Has(s, "tsa.confirmed") THEN <<"run_tsa">>
  ELSE IF Has(s, "artifact.finalized") THEN <<>>
  ELSE (IF Terminal(LatestRequest(s)) THEN <<"build_artifact">> ELSE <<>>)
       \o InOrder(Unconfirmed(s))

RequiredEvents(jobs, w) == [i \in DOMAIN jobs |-> Required(jobs[i], w)]

\* Mutant: certified without looking for the timestamp.
MutCertifiesEarly(s, w) ==
  RequiredEvents(Decide(s), w)
    \o (IF Has(s, "document.protected.requested") THEN <<Certified(w)>> ELSE <<>>)

\* The events a protect_document_v2 job appends, in order.
DecisionEvents(s, w) ==
  LET jobs == Decide(s) IN
    (IF ToSet(jobs) \cap Networks # {} /\ Pending(w) \notin tracked
     THEN <<Pending(w)>> ELSE <<>>)
    \o RequiredEvents(jobs, w)
    \o (IF /\ Has(s, "document.protected.requested") /\ Has(s, "tsa.confirmed")
           /\ ~Contains(s, Certified(w))
        THEN <<Certified(w)>> ELSE <<>>)

\* Mutant: the anchors are left to the next decision.
MutNoFollowUps(s, w) == <<Timestamped(w)>>

\* run-tsa appends the timestamp and asks for the anchors of the first request.
TsaEvents(s, w) ==
  LET asked == Head(Requests(s)).evidence \cap Networks IN
  <<Timestamped(w)>>
  \o RequiredEvents(InOrder({n \in asked : Required(n, w) \notin tracked}), w)
-----------------------------------------------------------------------------
(* An invocation that works on a job.                                      *)

\* A claim and the handler's read of the ledger.  The handler checks what it
\* needs and goes on from what it read, whatever is appended meanwhile.  When
\* the read fails, a decision job finds no document and nothing to do, and any
\* other job fails.  (A job that waits in its batch is only claimed later here.)
Claim(r, j) ==
  LET start(pc, out, seen) == run' = [run EXCEPT ![r] =
                                [job |-> j, pc |-> pc, out |-> out, seen |-> seen]]
  IN
  /\ run[r] = NoRun
  /\ Q!Take({j}, r)
  /\ attempts' = [attempts EXCEPT ![j] = @ + 1]
  /\ \/ Fault /\ start(IF j[1] \in Milestones THEN "emit" ELSE "failed", <<>>, 0)
     \/ /\ UNCHANGED faults
        /\ j[1] \in Milestones /\ start("emit", DecisionEvents(ledger, j[2]), 0)
     \/ /\ UNCHANGED faults /\ j[1] = "run_tsa"
        /\ IF Contains(ledger, Timestamped(j[2])) THEN start("emit", <<>>, 0)
           ELSE IF ~Has(ledger, "document.protected.requested") THEN start("failed", <<>>, 0)
           ELSE start("emit", TsaEvents(ledger, j[2]), 0)
     \/ /\ UNCHANGED faults /\ j[1] \in Networks
        /\ start(IF Contains(ledger, Timestamped(j[2])) THEN "call" ELSE "precondition", <<>>, 0)
     \/ /\ UNCHANGED faults /\ j = ArtifactJob
        /\ IF Has(ledger, "artifact.finalized") THEN start("emit", <<>>, 0)
           ELSE start("upload", <<Logged(witness), Finalized(None)>>, Len(ledger))
  /\ UNCHANGED <<events, witness, closer, file, anchors, call, signed, signing>>

\* Append the next event; a rejected event fails the job.
Emit(r) ==
  LET e == Head(run[r].out) IN
  /\ run[r].pc = "emit" /\ run[r].out # <<>>
  /\ IF Rejected(e)
     THEN /\ run' = [run EXCEPT ![r].pc = "failed"]
          /\ UNCHANGED <<events, queue>>
     ELSE /\ AppendEvent(e)
          /\ run' = [run EXCEPT ![r].out = Tail(@),
                                ![r].pc = IF e.kind = "tsa.confirmed" THEN "close" ELSE "emit"]
  /\ UNCHANGED <<witness, closer, file, anchors, call, signed, signing, faults>>

\* triggerFinalization: read the ledger again and pass it to
\* finalize-document.  Best effort: when a call fails, nothing comes of it.
TriggerFinalization ==
  \/ Fault /\ UNCHANGED closer
  \/ \E c \in Closers :
       /\ closer[c] = NoCloser
       /\ closer' = [closer EXCEPT ![c] =
                       [pc |-> "read", seen |-> Len(ledger), witness |-> witness]]
       /\ UNCHANGED faults

\* run-tsa after its timestamp: finalization first, then the anchors.
CloseAfterTsa(r) ==
  /\ run[r].pc = "close"
  /\ TriggerFinalization
  /\ run' = [run EXCEPT ![r].pc = "emit"]
  /\ UNCHANGED <<events, witness, queue, file, anchors, call, signed, signing>>

\* submit-anchor-N has the network anchor the witness; a row that has not
\* failed is used again.
SubmitAnchor(r) ==
  LET j == run[r].job IN
  /\ run[r].pc = "call"
  /\ IF anchor[j] \in {"none", "failed"} THEN A!Submit(j) ELSE UNCHANGED anchor
  /\ run' = [run EXCEPT ![r].pc = "emit", ![r].out = <<Submitted(j[1], j[2])>>]
  /\ UNCHANGED <<events, witness, queue, closer, file, outcome, call, signed, signing, faults>>

\* build-artifact stores an ECO made from its snapshot, over any that is
\* there, then logs it (best effort) and closes the document.
BuildArtifact(r) ==
  /\ run[r].pc = "upload"
  /\ file' = [by |-> r, seen |-> run[r].seen]
  /\ \E logged \in BOOLEAN :
       /\ run' = [run EXCEPT ![r].pc = "emit", ![r].seen = 0,
                             ![r].out = IF logged THEN @ ELSE Tail(@)]
       /\ IF logged THEN UNCHANGED faults ELSE Fault
  /\ UNCHANGED <<events, witness, queue, closer, anchors, call, signed, signing>>

\* Mutant: whoever worked on the job settles it.
MutSettleUnguarded(r, p) ==
  /\ phase' = [phase EXCEPT ![run[r].job] = p]
  /\ holder' = [holder EXCEPT ![run[r].job] = None]
  /\ run' = [run EXCEPT ![r] = NoRun]
  /\ UNCHANGED <<events, witness, attempts, closer, file, anchors, call, signed, signing, faults>>

\* Only the holder of the lease settles the job.
Settle(r, p) ==
  /\ IF holder[run[r].job] = r THEN Q!Settle(run[r].job, p) ELSE UNCHANGED <<phase, holder>>
  /\ run' = [run EXCEPT ![r] = NoRun]
  /\ UNCHANGED <<events, witness, attempts, closer, file, anchors, call, signed, signing, faults>>

\* Mutant: every failure is final.
MutParks(j) == "parked"

RetryOrPark(j) == IF attempts[j] >= MaxAttempts THEN "parked" ELSE "todo"

Succeed(r) == run[r].pc = "emit" /\ run[r].out = <<>> /\ Settle(r, "done")

\* A failure is retried until the attempts are used up.  fase1-executor marks a
\* decision job failed at the first error, and a missing timestamp dead-letters
\* an anchor job at once.
Fail(r) ==
  \/ /\ run[r].pc = "failed" /\ run[r].job[1] \notin Milestones
     /\ Settle(r, RetryOrPark(run[r].job))
  \/ /\ run[r].pc = "precondition" \/ (run[r].pc = "failed" /\ run[r].job[1] \in Milestones)
     /\ Settle(r, "parked")

Work(r) == \/ Emit(r) \/ CloseAfterTsa(r) \/ SubmitAnchor(r)
           \/ BuildArtifact(r) \/ Succeed(r) \/ Fail(r)
-----------------------------------------------------------------------------
(* finalize-document, working on the snapshot of its caller.               *)

\* Nothing to do, or a best-effort Rekor entry.
StartClosing(c) ==
  /\ closer[c].pc = "read"
  /\ IF Has(Snapshot(closer[c].seen), "artifact.finalized")
     THEN closer' = [closer EXCEPT ![c] = NoCloser] /\ UNCHANGED <<events, queue, faults>>
     ELSE /\ closer' = [closer EXCEPT ![c].pc = "upload"]
          /\ \/ AppendEvent(Logged(closer[c].witness)) /\ UNCHANGED faults
             \/ Fault /\ UNCHANGED <<events, queue>>
  /\ UNCHANGED <<witness, run, file, anchors, call, signed, signing>>

Copy(c) == [by |-> c, seen |-> closer[c].seen]

UploadEco(c) ==
  /\ closer[c].pc = "upload"
  /\ file' = Copy(c)
  /\ closer' = [closer EXCEPT ![c].pc = "verify"]
  /\ UNCHANGED <<events, witness, queue, run, anchors, call, signed, signing, faults>>

\* Download the file again and compare hashes.
VerifyUpload(c) ==
  /\ closer[c].pc = "verify"
  /\ closer' = [closer EXCEPT ![c] = IF file = Copy(c) THEN [@ EXCEPT !.pc = "publish"]
                                     ELSE NoCloser]
  /\ UNCHANGED <<events, witness, queue, run, file, anchors, call, signed, signing, faults>>

\* The result of the append is not looked at.
PublishClosure(c) ==
  /\ closer[c].pc = "publish"
  /\ closer' = [closer EXCEPT ![c] = NoCloser]
  /\ IF Rejected(Finalized(Copy(c))) THEN UNCHANGED <<events, queue>>
     ELSE AppendEvent(Finalized(Copy(c)))
  /\ UNCHANGED <<witness, run, file, anchors, call, signed, signing, faults>>

Close(c) == StartClosing(c) \/ UploadEco(c) \/ VerifyUpload(c) \/ PublishClosure(c)
-----------------------------------------------------------------------------
(* The anchor workers: the outcome of a pending anchor.                    *)

\* The row, then the event (best effort), then finalization.  The constraint
\* valid_bitcoin_tx lets only a row with a Bitcoin transaction be confirmed.
ConfirmAnchor(n, w) ==
  /\ n = "bitcoin" /\ A!Confirm(<<n, w>>)
  /\ outcome' = outcome \cup {<<n, w>>}
  /\ \/ AppendEvent(Confirmed(n, w)) /\ UNCHANGED faults
     \/ Fault /\ UNCHANGED <<events, queue>>
  /\ UNCHANGED <<witness, run, closer, file, call, signed, signing>>

\* Only a timeout is followed by finalization.
AnchorFails(n, w) ==
  /\ A!Fail(<<n, w>>)
  /\ outcome' \in {outcome, outcome \cup {<<n, w>>}}
  /\ Fault
  /\ UNCHANGED <<events, witness, queue, run, closer, file, call, signed, signing>>

CloseAfterAnchor(n, w) ==
  /\ <<n, w>> \in outcome
  /\ outcome' = outcome \ {<<n, w>>}
  /\ TriggerFinalization
  /\ UNCHANGED <<events, witness, queue, run, file, anchor, call, signed, signing>>
-----------------------------------------------------------------------------
(* What goes wrong.                                                        *)

\* The invocation is killed; its row stays leased.
Crash(r) ==
  /\ Fault /\ run[r] # NoRun
  /\ run' = [run EXCEPT ![r] = NoRun]
  /\ UNCHANGED <<events, witness, queue, closer, file, anchors, call, signed, signing>>

CloserCrash(c) ==
  /\ Fault /\ closer[c] # NoCloser
  /\ closer' = [closer EXCEPT ![c] = NoCloser]
  /\ UNCHANGED <<events, witness, queue, run, file, anchors, call, signed, signing>>

\* The timestamp authority, a network or storage refuses, or an event cannot be
\* appended; without its Rekor entry alone build-artifact goes on.
StepFails(r) ==
  /\ Fault
  /\ \/ run[r].pc \in {"call", "upload"}
     \/ run[r].pc = "emit" /\ run[r].out # <<>> /\ Head(run[r].out).kind # "rekor.confirmed"
  /\ run' = [run EXCEPT ![r].pc = "failed"]
  /\ UNCHANGED <<events, witness, queue, closer, file, anchors, call, signed, signing>>

\* The orchestrator stops waiting after 30 s and retries the job; the
\* function it called goes on.
TimeOut(r) ==
  LET j == run[r].job IN
  /\ Fault /\ j # None
  /\ j[1] \notin Milestones /\ holder[j] = r
  /\ Q!Settle(j, RetryOrPark(j))
  /\ UNCHANGED <<events, witness, attempts, run, closer, file, anchors, call, signed, signing>>

\* reclaim_stale_jobs: nobody has worked on the row for its TTL.
Reclaim(j) ==
  /\ \A r \in Runs : ~(holder[j] = r /\ run[r].job = j)
  /\ Q!Lapse({j}, IF attempts[j] + 1 >= MaxAttempts THEN {j} ELSE {})
  /\ attempts' = [attempts EXCEPT ![j] = @ + 1]
  /\ UNCHANGED <<events, witness, run, closer, file, anchors, call, signed, signing, faults>>
-----------------------------------------------------------------------------
Next ==
  \/ \E c \in Callers : CheckRequest(c) \/ RequestProtection(c)
  \/ Sign \/ RequestForSigner \/ RequestFinal
  \/ \E r \in Runs : Work(r) \/ Crash(r) \/ StepFails(r) \/ TimeOut(r)
  \/ \E r \in Runs, j \in Jobs : Claim(r, j)
  \/ \E j \in Jobs : Reclaim(j)
  \/ \E c \in Closers : Close(c) \/ CloserCrash(c)
  \/ \E n \in Networks, w \in Witnesses :
       ConfirmAnchor(n, w) \/ AnchorFails(n, w) \/ CloseAfterAnchor(n, w)

Spec == Init /\ [][Next]_vars

(* Cron ticks keep claiming and reclaiming, invocations run to their end,  *)
(* and a finalize-document that was called is executed.  People, chains    *)
(* and faults have no fairness.                                            *)
Fairness ==
  /\ \A r \in Runs : WF_vars(Work(r))
  /\ \A c \in Closers : WF_vars(Close(c))
  /\ \A j \in Jobs : SF_vars(\E r \in Runs : Claim(r, j)) /\ WF_vars(Reclaim(j))

FairSpec == Spec /\ Fairness
-----------------------------------------------------------------------------
(* Properties.                                                             *)

Copies == [by : Runs \cup Closers, seen : Nat]

Evidence ==
       [kind : {"document.protected.requested"}, flow : {"DIRECT_PROTECTION", "SIGNATURE_FLOW"},
        stage : DOMAIN StageRank, witness : Witnesses, evidence : SUBSET ({"tsa"} \cup Networks)]
  \cup [kind : {"tsa.confirmed", "document.certified"}, witness : Witnesses]
  \cup [kind : {"anchor.confirmed"}, network : Networks, witness : Witnesses]
  \cup [kind : {"artifact.finalized"}, eco : Copies \cup {None}]

Tracking ==
       [kind : {"job.required"}, type : {"run_tsa", "build_artifact"} \cup Networks,
        witness : Witnesses]
  \cup [kind : {"artifact.chain.pending", "rekor.confirmed"}, witness : Witnesses]
  \cup [kind : {"anchor.submitted"}, network : Networks, witness : Witnesses]

TypeOK ==
  /\ ledger \in Seq(Evidence) /\ tracked \subseteq Tracking
  /\ witness \in Witnesses
  /\ Q!TypeOK /\ attempts \in [Jobs -> Nat]
  /\ run \in [Runs -> [job : Jobs \cup {None}, seen : Nat, 
                       pc : {"idle", "emit", "close", "call", "upload", "failed",
                             "precondition"},
                       out : Seq(Evidence \cup Tracking)]]
  /\ closer \in [Closers -> [pc : {"idle", "read", "upload", "verify", "publish"},
                             seen : Nat, witness : Witnesses]]
  /\ file \in Copies \cup {None}
  /\ anchor \in [Networks \X Witnesses -> {"none", "pending", "confirmed", "failed"}]
  /\ outcome \subseteq Networks \X Witnesses
  /\ call \in [Callers -> [pc : {"new", "checked", "done"}, witness : Witnesses]]
  /\ signed \in 0 .. Signers
  /\ signing \in {"ready", "stamped", "last", "done"}
  /\ faults \in 0 .. MaxFaults

\* However many handlers and finalizers run at once, a witness is timestamped
\* once and the document is closed once.
ProofsAreUnique ==
  \A i, k \in DOMAIN ledger :
    /\ ledger[i].kind = ledger[k].kind
    /\ \/ ledger[i].kind = "artifact.finalized"
       \/ ledger[i].kind = "tsa.confirmed" /\ ledger[i].witness = ledger[k].witness
    => i = k

\* The order of the proof, as at no time the later fact is there without the
\* earlier one: a timestamp follows a request; a witness is
\* certified or given to a chain only when a timestamp is on record, and to a
\* chain only when the timestamp is its own.
EvidenceInOrder ==
  /\ Has(ledger, "tsa.confirmed") => Has(ledger, "document.protected.requested")
  /\ Has(ledger, "document.certified") => Has(ledger, "tsa.confirmed")
  /\ \A n \in Networks, w \in Witnesses :
       anchor[<<n, w>>] # "none" \/ Submitted(n, w) \in tracked => Contains(ledger, Timestamped(w))

\* A closed document has an ECO in storage, and whatever copy won the race for
\* the path was made from a ledger that had a timestamp in it.
StoredEcoIsTimestamped ==
  /\ Has(ledger, "artifact.finalized") => file # None
  /\ file # None => Has(Snapshot(file.seen), "tsa.confirmed")

\* When a lease ends, no invocation but its holder moves: the holder settles
\* the job, the orchestrator has stopped waiting for it, or nobody works on it.
OnlyHolderSettles ==
  \A j \in Jobs : holder[j] # None /\ holder'[j] = None =>
    \A r \in Runs \ {holder[j]} : run'[r] = run[r]

\* The pipeline uses the job table as LeaseQueue allows: no event revives a job
\* that is queued, leased or done; and no zombie settles its successor's lease.
UsesLeaseQueue == Q!Spec /\ [][OnlyHolderSettles]_vars

\* The decision job of a request is over, and neither a timestamp nor a job for
\* one has come of it.
DecisionLost ==
  \E w \in Witnesses :
    /\ phase[<<"awaiting_tsa", w>>] \in {"parked", "done"}
    /\ Required("run_tsa", w) \notin tracked /\ ~Has(ledger, "tsa.confirmed")

\* A requested protection is closed, whatever single invocation is killed,
\* times out or has a read, an append or a call refused, except that the first
\* decision can be lost: a failed read or append of its job is never repeated.
RequestedIsClosed ==
  Has(ledger, "document.protected.requested")
  ~> (Has(ledger, "artifact.finalized") \/ DecisionLost)

\* Unless something goes wrong every network of a direct protection gets its
\* anchor, although the document is usually closed before.
DirectProtectionIsAnchored ==
  \A n \in Networks :
    Has(ledger, "document.protected.requested")
    ~> (Submitted(n, 0) \in tracked \/ faults > 0)

\* The decision log on the closing event: sha256 of the stored file equals the
\* eco_hash of artifact.finalized.
EcoHashMatches ==
  \A i \in DOMAIN ledger :
    ledger[i].kind = "artifact.finalized" /\ ledger[i].eco # None => file = ledger[i].eco
=============================================================================
