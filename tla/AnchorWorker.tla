---------------------------- MODULE AnchorWorker ----------------------------
(***************************************************************************)
(* The anchor of one witness on one network: its row of the anchors table, *)
(* the submit-anchor calls that create it, and the cron worker that asks   *)
(* the chain (or the OpenTimestamps calendar) until it is confirmed or     *)
(* given up.                                                               *)
(*                                                                         *)
(* A claim is a transaction of its own and marks nothing that would keep   *)
(* the next cron tick away: an invocation works on the row as it was when  *)
(* it claimed it, and writes by id, one column set at a time, with         *)
(* best-effort events in between.  Those are the tokens of its plan.       *)
(*                                                                         *)
(* The retry schedule is reduced to "due or not", the confirmation window  *)
(* to "late or not".  The call of finalize-document and the notification   *)
(* that follow an outcome are left to ProtectionPipeline, respectively     *)
(* left out.                                                               *)
(***************************************************************************)
EXTENDS Integers, Sequences

CONSTANTS
  Networks,     \* the networks the owner's plan anchors to
  Submitters,   \* concurrent submit-anchor calls
  Workers,      \* concurrent invocations of the cron worker
  MaxSubmits,   \* bound: submit-anchor calls
  MaxAttempts,  \* MAX_POLYGON_ATTEMPTS, MAX_VERIFY_ATTEMPTS
  FaultKinds,   \* which of "crash", "append", "provider" may happen
  MaxFaults     \* bound: faults

ASSUME AnchorAssumption ==
  /\ Networks \subseteq {"polygon", "bitcoin"}
  /\ MaxSubmits \in Nat /\ MaxAttempts \in Nat \ {0} /\ MaxFaults \in Nat
  /\ FaultKinds \subseteq {"crash", "append", "provider"}

VARIABLES
  network,  \* anchors.anchor_type
  row,      \* the row: status; tx, its transaction or proof; since, the one
            \* whose submittedAt is in the metadata; attempts; due, whether
            \* nextRetryAt is null or has passed
  chain,    \* chain[tx]: what became of a transaction
  late,     \* transactions whose confirmation window has passed
  ledger,   \* the anchor events of this witness and network
  submit,   \* submit[s]: progress of a submit-anchor call
  worker,   \* worker[w]: the row as claimed and the tokens to be done
  submits,  \* submit-anchor calls so far
  faults,   \* faults so far (not in the code)
  unrecorded,  \* history: an append of anchor.failed was refused
  overlapped   \* history: a call looked up, or a tick claimed, the row while another had it

notes == <<unrecorded, overlapped>>
vars == <<network, row, chain, late, ledger, submit, worker, submits, faults, notes>>

NoRow == [status |-> "none", tx |-> 0, since |-> 0, attempts |-> 0, due |-> TRUE]
NoSubmit == [pc |-> "idle", seen |-> NoRow, tx |-> 0]
NoWork == [seen |-> NoRow, plan |-> <<>>]

Init ==
  /\ network \in Networks
  /\ row = NoRow /\ chain = <<>> /\ late = {} /\ ledger = {}
  /\ submit = [s \in Submitters |-> NoSubmit]
  /\ worker = [w \in Workers |-> NoWork]
  /\ submits = 0 /\ faults = 0 /\ unrecorded = FALSE /\ overlapped = FALSE

Fault(kind) == kind \in FaultKinds /\ faults < MaxFaults /\ faults' = faults + 1
-----------------------------------------------------------------------------
(* The tokens of a plan, and the events.                                   *)

Check == [do |-> "check"]
Stamp == [do |-> "stamp"]
Retry == [do |-> "retry"]
Upgrade == [do |-> "upgrade"]
MarkFailed == [do |-> "fail"]
MarkConfirmed == [do |-> "confirm"]
Refuse == [do |-> "refuse"]
Store(tx) == [do |-> "store", tx |-> tx]
Emit(kind, tx) == [do |-> "emit", event |-> [kind |-> kind, tx |-> tx]]

Recorded(kind) == \E e \in ledger : e.kind = kind

\* Mutant: every kind is accepted.
MutAcceptsAnyKind(e) == ledger' = IF Recorded(e.kind) THEN ledger ELSE ledger \cup {e}

\* appendEvent and its RPC: one event of a kind for a witness, a network and
\* the stage (always 'initial'), and no kind with an underscore.
AppendEvent(e) ==
  ledger' = IF e.kind = "anchor.final_failed" \/ Recorded(e.kind) THEN ledger
            ELSE ledger \cup {e}

\* Best effort: a failed append is logged.
TryAppend(e) ==
  \/ AppendEvent(e) /\ UNCHANGED <<faults, unrecorded>>
  \/ /\ Fault("append")
     /\ unrecorded' = (unrecorded \/ e.kind = "anchor.failed")
     /\ UNCHANGED ledger
-----------------------------------------------------------------------------
(* submit-anchor-N and anchor-N.                                           *)

\* Mutant: only a row that is under way is used as it is.
MutSubmitsConfirmed(s) ==
  /\ submit[s] = NoSubmit /\ submits < MaxSubmits
  /\ submits' = submits + 1
  /\ submit' = [submit EXCEPT ![s] =
       IF row.status \in {"queued", "pending", "processing"}
         THEN [NoSubmit EXCEPT !.pc = "reported", !.tx = row.tx]
         ELSE [NoSubmit EXCEPT !.pc = IF network = "polygon" THEN "send" ELSE "store",
                               !.seen = row]]
  /\ overlapped' = (overlapped \/ \E t \in Submitters : submit[t] # NoSubmit)
  /\ UNCHANGED <<network, row, chain, late, ledger, worker, faults, unrecorded>>

\* The row is looked up; one that has not failed is used as it is.
LookUp(s) ==
  /\ submit[s] = NoSubmit /\ submits < MaxSubmits
  /\ submits' = submits + 1
  /\ submit' = [submit EXCEPT ![s] =
       IF row.status \notin {"none", "failed"}
         THEN [NoSubmit EXCEPT !.pc = "reported", !.tx = row.tx]
         ELSE [NoSubmit EXCEPT !.pc = IF network = "polygon" THEN "send" ELSE "store",
                               !.seen = row]]
  /\ overlapped' = (overlapped \/ \E t \in Submitters : submit[t] # NoSubmit)
  /\ UNCHANGED <<network, row, chain, late, ledger, worker, faults, unrecorded>>

\* anchor-polygon sends its transaction before it knows that it can store it.
SendTransaction(s) ==
  /\ submit[s].pc = "send"
  /\ chain' = Append(chain, "waiting")
  /\ submit' = [submit EXCEPT ![s] = [@ EXCEPT !.pc = "store", !.tx = Len(chain')]]
  /\ UNCHANGED <<network, row, late, ledger, worker, submits, faults, notes>>

\* The row starts again; what it held of the metadata is kept.
StoreRow(s) ==
  LET tx == IF network = "polygon" THEN submit[s].tx ELSE 0 IN
  /\ submit[s].pc = "store"
  /\ row' = [status |-> IF network = "polygon" THEN "pending" ELSE "queued",
             tx |-> tx, attempts |-> 0, due |-> submit[s].seen.due,
             since |-> IF network = "polygon" THEN tx ELSE submit[s].seen.since]
  /\ submit' = [submit EXCEPT ![s] = [NoSubmit EXCEPT !.pc = "reported", !.tx = tx]]
  /\ UNCHANGED <<network, chain, late, ledger, worker, submits, faults, notes>>

SubmitFails(s) ==
  /\ submit[s].pc \in {"send", "store"}
  /\ Fault("provider")
  /\ submit' = [submit EXCEPT ![s].pc = "failed"]
  /\ UNCHANGED <<network, row, chain, late, ledger, worker, submits, notes>>

Report(s) ==
  /\ \/ /\ submit[s].pc = "reported"
        /\ TryAppend([kind |-> "anchor.submitted", tx |-> submit[s].tx])
     \/ /\ submit[s].pc = "failed"
        /\ TryAppend([kind |-> "anchor.failed", tx |-> submit[s].tx])
  /\ submit' = [submit EXCEPT ![s] = NoSubmit]
  /\ UNCHANGED <<network, row, chain, late, worker, submits, overlapped>>
-----------------------------------------------------------------------------
(* The cron worker claims the row: claim_anchor_batch.                     *)

Claim(w, token) ==
  /\ worker[w] = NoWork
  /\ row' = [row EXCEPT !.status = "processing"]
  /\ worker' = [worker EXCEPT ![w] = [seen |-> row', plan |-> <<token>>]]
  /\ overlapped' = (overlapped \/ \E v \in Workers : worker[v] # NoWork)
  /\ UNCHANGED <<network, chain, late, ledger, submit, submits, faults, unrecorded>>

\* Mutant: a row in processing is left to whoever claimed it.
MutClaimsPendingOnly(w) ==
  row.status = "pending" /\ row.due /\ row.tx # 0 /\ Claim(w, Check)

\* A Bitcoin row needs its proof.
ClaimPending(w) ==
  /\ row.status \in {"pending", "processing"}
  /\ row.due /\ row.tx # 0
  /\ Claim(w, Check)

\* Bitcoin rows without a proof.  One that stays in processing is taken again
\* after ten minutes, longer than an invocation lives.
ClaimQueued(w) ==
  /\ network = "bitcoin"
  /\ \/ row.status = "queued"
     \/ row.status = "processing" /\ row.tx = 0 /\ \A v \in Workers : worker[v] = NoWork
  /\ Claim(w, Stamp)
-----------------------------------------------------------------------------
(* What an invocation does next, with s the row as claimed.                *)

Failed(s) == Emit("anchor.failed", s.tx)

\* evaluateTimeout: too many attempts, or too long since it was submitted.
TimedOut(s) == s.attempts + 1 > MaxAttempts \/ s.since \in late

\* Mutant: the row first, the events when that has worked.
MutRowFirst(s, result) ==
  CASE result = "expired" -> <<MarkFailed, Emit("anchor.timeout", s.tx), Failed(s)>>
    [] result = "reverted" -> <<MarkFailed, Failed(s)>>
    [] result = "waiting" -> <<Retry>>
    [] OTHER -> <<IF s.attempts + 1 < MaxAttempts THEN Retry ELSE MarkFailed, Failed(s)>>

\* The constraint valid_bitcoin_tx refuses 'confirmed' to a row without
\* bitcoin_tx_id, so a mined Polygon transaction ends like an error.
PolygonPlan(s, result) ==
  CASE result = "expired" -> <<Emit("anchor.timeout", s.tx), Failed(s), MarkFailed>>
    [] result = "reverted" -> <<Failed(s), MarkFailed>>
    [] result = "waiting" -> <<Retry>>
    [] OTHER -> <<Failed(s), IF s.attempts + 1 < MaxAttempts THEN Retry ELSE MarkFailed>>

\* A confirmed proof may not give away its transaction id yet: the upgraded proof is
\* stored and asked for again.
BitcoinPlans(s, result) ==
  CASE result = "expired" -> {<<MarkFailed, Emit("anchor.timeout", s.tx),
                                Emit("anchor.final_failed", s.tx)>>}
    [] result = "mined" -> {<<MarkConfirmed, Emit("anchor.confirmed", s.tx)>>,
                            <<Upgrade, Emit("anchor.pending", s.tx)>>}
    [] OTHER -> {<<Retry>>}

Plans(s, result) ==
  IF network = "polygon" THEN {PolygonPlan(s, result)} ELSE BitcoinPlans(s, result)

\* The answer of the chain for the row as claimed, or an error of the call.
CheckAnchor(w) ==
  LET s == worker[w].seen IN
  /\ worker[w].plan = <<Check>>
  /\ \E result \in {"expired", "error", "waiting", "mined", "reverted"} :
       /\ IF TimedOut(s) THEN result = "expired" ELSE result \in {chain[s.tx], "error"}
       /\ IF result = "error" THEN Fault("provider") ELSE UNCHANGED faults
       /\ \E plan \in Plans(s, result) : worker' = [worker EXCEPT ![w].plan = plan]
  /\ UNCHANGED <<network, row, chain, late, ledger, submit, submits, notes>>

\* The calendar takes the hash, or the row fails.
StampQueued(w) ==
  /\ worker[w].plan = <<Stamp>>
  /\ \/ /\ chain' = Append(chain, "waiting")
        /\ worker' = [worker EXCEPT ![w].plan = <<Store(Len(chain'))>>]
        /\ UNCHANGED faults
     \/ /\ Fault("provider")
        /\ worker' = [worker EXCEPT ![w].plan = <<Refuse>>]
        /\ UNCHANGED chain
  /\ UNCHANGED <<network, row, late, ledger, submit, submits, notes>>

\* The rest of the plan; the invocation is done with the row after its last token.
Proceed(w) ==
  LET plan == worker[w].plan IN
  worker' = [worker EXCEPT ![w] = IF Len(plan) = 1 THEN NoWork
                                  ELSE [@ EXCEPT !.plan = Tail(plan)]]

\* The updates, with r the row as it is now: what an update does not name is kept.
\* projectRetry, from the metadata as claimed.
RetryRow(r, s) == [r EXCEPT !.status = "processing", !.attempts = s.attempts + 1,
                            !.since = s.since, !.due = FALSE]
UpgradeRow(r, s) == [RetryRow(r, s) EXCEPT !.tx = s.tx]
FailRow(r, s) == [r EXCEPT !.status = "failed", !.attempts = s.attempts + 1]
\* Mutant: the proof is not written with the status.
MutKeepsProof(r, s) == [r EXCEPT !.status = "confirmed", !.attempts = s.attempts + 1,
                                 !.since = s.since, !.due = TRUE]
ConfirmRow(r, s) == [r EXCEPT !.status = "confirmed", !.attempts = s.attempts + 1,
                              !.tx = s.tx, !.since = s.since, !.due = TRUE]

\* Mutant: the submission time of an earlier try is kept.
MutKeepsSince(s, tx) ==
  [status |-> "pending", tx |-> tx, attempts |-> 0, due |-> FALSE,
   since |-> IF s.since = 0 THEN tx ELSE s.since]

\* projectSubmitted: a fresh proof with a fresh submittedAt.
StampedRow(s, tx) ==
  [status |-> "pending", tx |-> tx, since |-> tx, attempts |-> 0, due |-> FALSE]

\* An update by id: whatever the row holds now.
WriteRow(w) ==
  LET s == worker[w].seen
      token == Head(worker[w].plan)
  IN
  /\ worker[w].plan # <<>>
  /\ \/ token = Retry /\ row' = RetryRow(row, s)
     \/ token = Upgrade /\ row' = UpgradeRow(row, s)
     \/ token = MarkFailed /\ row' = FailRow(row, s)
     \/ token = MarkConfirmed /\ row' = ConfirmRow(row, s)
     \/ token = Refuse /\ row' = [row EXCEPT !.status = "failed"]
     \/ token.do = "store" /\ row' = StampedRow(s, token.tx)
  /\ Proceed(w)
  /\ UNCHANGED <<network, chain, late, ledger, submit, submits, faults, notes>>

EmitEvent(w) ==
  LET token == Head(worker[w].plan) IN
  /\ worker[w].plan # <<>> /\ token.do = "emit"
  /\ TryAppend(token.event)
  /\ Proceed(w)
  /\ UNCHANGED <<network, row, chain, late, submit, submits, overlapped>>

Work(w) == CheckAnchor(w) \/ StampQueued(w) \/ WriteRow(w) \/ EmitEvent(w)
-----------------------------------------------------------------------------
(* Time, the chain, and invocations that are killed.                       *)

RetryDue ==
  /\ ~row.due
  /\ row' = [row EXCEPT !.due = TRUE]
  /\ UNCHANGED <<network, chain, late, ledger, submit, worker, submits, faults, notes>>

WindowPasses(tx) ==
  /\ late' = late \cup {tx}
  /\ UNCHANGED <<network, row, chain, ledger, submit, worker, submits, faults, notes>>

\* A calendar never refuses a hash that it took.
Settles(tx) ==
  /\ chain[tx] = "waiting"
  /\ \E fate \in IF network = "polygon" THEN {"mined", "reverted"} ELSE {"mined"} :
       chain' = [chain EXCEPT ![tx] = fate]
  /\ UNCHANGED <<network, row, late, ledger, submit, worker, submits, faults, notes>>

Crash ==
  /\ Fault("crash")
  /\ \/ \E w \in Workers : /\ worker[w] # NoWork
                           /\ worker' = [worker EXCEPT ![w] = NoWork]
                           /\ UNCHANGED submit
     \/ \E s \in Submitters : /\ submit[s] # NoSubmit
                              /\ submit' = [submit EXCEPT ![s] = NoSubmit]
                              /\ UNCHANGED worker
  /\ UNCHANGED <<network, row, chain, late, ledger, submits, notes>>
-----------------------------------------------------------------------------
Next ==
  \/ \E s \in Submitters : \/ LookUp(s) \/ SendTransaction(s) \/ StoreRow(s)
                           \/ SubmitFails(s) \/ Report(s)
  \/ \E w \in Workers : ClaimPending(w) \/ ClaimQueued(w) \/ Work(w)
  \/ RetryDue \/ Crash
  \/ \E tx \in DOMAIN chain : WindowPasses(tx) \/ Settles(tx)

Spec == Init /\ [][Next]_vars

(* Cron ticks keep claiming, invocations run to their end, retry times     *)
(* come.  Chains, windows, callers and faults have no fairness.            *)
Fairness ==
  /\ \A w \in Workers : WF_vars(Work(w))
  /\ SF_vars(\E w \in Workers : ClaimPending(w) \/ ClaimQueued(w))
  /\ WF_vars(RetryDue)

FairSpec == Spec /\ Fairness
-----------------------------------------------------------------------------
(* Properties.                                                             *)

Statuses == {"none", "queued", "pending", "processing", "confirmed", "failed"}
Rows == [status : Statuses, tx : Nat, since : Nat, attempts : Nat, due : BOOLEAN]
Events == [kind : {"anchor.submitted", "anchor.pending", "anchor.confirmed", "anchor.timeout",
                   "anchor.failed"},
           tx : Nat]

TypeOK ==
  /\ network \in Networks
  /\ row \in Rows
  /\ chain \in Seq({"waiting", "mined", "reverted"})
  /\ late \subseteq DOMAIN chain /\ ledger \subseteq Events
  /\ submit \in [Submitters -> [pc : {"idle", "send", "store", "reported", "failed"},
                                seen : Rows, tx : Nat]]
  /\ \A w \in Workers : worker[w].seen \in Rows
  /\ submits \in 0 .. MaxSubmits /\ faults \in 0 .. MaxFaults
  /\ unrecorded \in BOOLEAN /\ overlapped \in BOOLEAN

\* A row or an event says confirmed only of a transaction the chain has mined:
\* no invocation with an old view, no retry and no second submission puts
\* another transaction under a confirmation.
ConfirmationIsReal ==
  /\ row.status = "confirmed" => row.tx # 0 /\ chain[row.tx] = "mined"
  /\ \A e \in ledger : e.kind = "anchor.confirmed" => e.tx # 0 /\ chain[e.tx] = "mined"

\* "Force a fresh submittedAt" (process-bitcoin-anchors): while a row waits for
\* its proof, the window that counts is that of the proof it holds, also after
\* earlier proofs expired and calls and invocations were killed; up to the first
\* overlap, for a tick that claimed the row before another one stored its proof
\* puts the older submittedAt back.
WindowIsFresh ==
  ~overlapped /\ row.status \in {"pending", "processing"} /\ row.tx # 0 => row.since = row.tx

\* A kill, an overlap or a second submission never makes a Polygon anchor fail
\* silently: only an append of anchor.failed that was refused, whose result the
\* worker does not look at, leaves a failed row without its event.
FailureIsRecorded ==
  network = "polygon" /\ row.status = "failed" => Recorded("anchor.failed") \/ unrecorded

\* The anchoring contract: no attempt stays requested for ever, though two
\* invocations with old views of the row count its attempts down.
NeverPendingForever ==
  row.status \in {"queued", "pending", "processing"} ~> row.status \in {"confirmed", "failed"}

\* Up to the first overlap of two calls or two cron ticks the table implements the
\* abstract lifecycle, through kills, lost events and resubmissions: what is confirmed
\* stays confirmed, and only a failed anchor is submitted again.
State == CASE row.status \in {"none", "confirmed", "failed"} -> row.status
           [] OTHER -> "pending"
L == INSTANCE AnchorLifecycle WITH Anchors <- {"anchor"}, state <- [a \in {"anchor"} |-> State]
ImplementsLifecycle == L!Init /\ [][~overlapped' => [L!Next]_State]_State
=============================================================================
