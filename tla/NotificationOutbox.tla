------------------------- MODULE NotificationOutbox -------------------------
(***************************************************************************)
(* The notices of one signature workflow and the program that mails them.  *)
(* The workflow's functions put rows into workflow_notifications and call  *)
(* send-pending-emails, which a cron calls as well: its invocations        *)
(* overlap, share no lock and write what they made of the row they copied. *)
(*                                                                         *)
(* Signers and workflow are the environment here (see SigningWorkflow): a  *)
(* signer's turn comes and goes, may come back, and the workflow ends.      *)
(***************************************************************************)
EXTENDS Integers, FiniteSets

CONSTANTS
  Sequential,   \* signature_workflows.require_sequential
  Signers,      \* their signing_order
  Dispatchers,  \* invocations of send-pending-emails
  MaxRetries,   \* MAX_RETRIES
  MaxFaults     \* bound: reads and mails that fail, invocations killed, turns
                \* that come back

\* A signer's notice your_turn_to_sign has his number; Other is a row of a
\* type that is not mailed (signature_completed, change_requested, ...).
Other == 0
Notices == Signers \cup {Other}

ASSUME OutboxAssumption ==
  /\ Sequential \in BOOLEAN
  /\ Signers \in SUBSET (Nat \ {0}) /\ IsFiniteSet(Signers) /\ Signers # {}
  /\ MaxRetries \in Nat \ {0} /\ MaxFaults \in Nat

VARIABLES
  active,      \* signature_workflows.status = 'active'
  turn,        \* turn[s]: workflow_signers.status is before, at or past
               \* 'ready_to_sign'
  row,         \* row[n]: delivery_status, retry_count and, in error_message,
               \* a rate_limited_until that has not passed
  fresh,       \* rows sent whose sent_at is within the throttle window
  job,         \* job[d]: where an invocation is and what it has read
  mails,       \* mails[n]: how often a notice was mailed, 2 for more
               \* (history, as the next three)
  burst,       \* mails within the last 30 s, 2 for more
  shared,      \* notices two invocations had before them at a time, or that
               \* were mailed and not recorded so
  rough,       \* that or a failed read happened within the window
  faults

flowVars == <<active, turn>>
history == <<mails, burst, shared, rough>>
vars == <<active, turn, row, fresh, job, mails, burst, shared, rough, faults>>

Idle == [at |-> "idle", note |-> Other, retries |-> 0, scanned |-> {}]
Absent == [status |-> "none", retries |-> 0, cooling |-> FALSE]
Enqueued == [Absent EXCEPT !.status = "pending"]

FirstSigner == CHOOSE s \in Signers : \A r \in Signers : s <= r
InTurn(s) == ~Sequential \/ s = FirstSigner

\* start-signature-workflow: who is ready gets a notice.
Init ==
  /\ active = TRUE
  /\ turn = [s \in Signers |-> IF InTurn(s) THEN "ready" ELSE "waiting"]
  /\ row = [n \in Notices |-> IF n # Other /\ InTurn(n) THEN Enqueued ELSE Absent]
  /\ fresh = {} /\ job = [d \in Dispatchers |-> Idle]
  /\ mails = [n \in Notices |-> 0] /\ burst = 0 /\ shared = {} /\ rough = FALSE
  /\ faults = 0

Fault == faults < MaxFaults /\ faults' = faults + 1

-----------------------------------------------------------------------------
(* The workflow.                                                           *)

\* A signer signs, or his link ends; advance_workflow is best effort.
Leave(s) ==
  /\ active /\ turn[s] = "ready"
  /\ \/ turn' = [turn EXCEPT ![s] = "past"]
     \/ \E r \in Signers : /\ turn[r] = "waiting" /\ \A q \in Signers : turn[q] = "waiting" => r <= q
                           /\ turn' = [turn EXCEPT ![s] = "past", ![r] = "ready"]
  /\ UNCHANGED <<active, row, fresh, job, history, faults>>

\* The projection goes by the latest event: a late signer.accessed, or the
\* owner's refusal of a change, makes a signer who is past ready again.
SetBack(s) ==
  /\ Fault
  /\ turn[s] = "past" /\ turn' = [turn EXCEPT ![s] = "ready"]
  /\ UNCHANGED <<active, row, fresh, job, history>>

MutOverwritesRow(s) ==
  /\ Sequential /\ turn[s] # "waiting"
  /\ row[s].status # "pending" /\ row' = [row EXCEPT ![s] = Enqueued]
  /\ UNCHANGED <<flowVars, fresh, job, history, faults>>

\* The upsert for the next signer leaves a row alone that is there already.
Enqueue(s) ==
  /\ Sequential /\ turn[s] # "waiting"
  /\ row[s].status = "none" /\ row' = [row EXCEPT ![s] = Enqueued]
  /\ UNCHANGED <<flowVars, fresh, job, history, faults>>

EnqueueOther ==
  /\ row[Other].status = "none" /\ row' = [row EXCEPT ![Other] = Enqueued]
  /\ UNCHANGED <<flowVars, fresh, job, history, faults>>

End ==
  /\ active /\ active' = FALSE
  /\ UNCHANGED <<turn, row, fresh, job, history, faults>>

-----------------------------------------------------------------------------
(* One invocation of send-pending-emails.                                  *)

Go(d, step) == job' = [job EXCEPT ![d].at = step]
Stop(d) == job' = [job EXCEPT ![d] = Idle]

\* From here on the invocation touches the row it has chosen only.
GoFor(d, step) == job' = [job EXCEPT ![d].at = step, ![d].scanned = {job[d].note}]

\* A read that fails is a fault.
Read(ok) == IF ok THEN UNCHANGED faults ELSE Fault

Scanned == {n \in Notices : row[n].status = "pending" /\ row[n].retries < MaxRetries}

MutOldestFirst(P) ==
  LET turns == P \ {Other}
  IN IF turns = {} THEN P
     ELSE IF Sequential THEN {n \in turns : \A m \in turns : n <= m} ELSE turns

\* One row per workflow: your_turn_to_sign before all others, then the latest.
\* Notices of a parallel workflow are of one time, in no particular order.
Candidates(P) ==
  LET turns == P \ {Other}
  IN IF turns = {} THEN P
     ELSE IF Sequential THEN {n \in turns : \A m \in turns : n >= m} ELSE turns

\* Notices that are excused from now on are not counted any more.
Disturb(S) ==
  /\ shared' = shared \cup S
  /\ mails' = [n \in Notices |-> IF n \in S THEN 0 ELSE mails[n]]
  /\ rough' = (rough \/ S # {}) /\ burst' = IF S # {} THEN 0 ELSE burst

Before(d) == UNION {job[e].scanned : e \in Dispatchers \ {d}}

Select(d) ==
  /\ job[d].at = "idle"
  /\ \E n \in Candidates(Scanned) :
       /\ n = Other \/ ~row[n].cooling
       /\ job' = [job EXCEPT ![d] = [at |-> "judging", note |-> n,
                                     retries |-> row[n].retries, scanned |-> Scanned]]
  /\ Disturb(Scanned \cap Before(d))
  /\ UNCHANGED <<flowVars, row, fresh, faults>>

MutMailsEndedFlow(d, found) ==
  IF job[d].note # Other THEN Go(d, "throttling") ELSE GoFor(d, "cancelling")

\* The type, and the workflow as it was loaded; one that could not be loaded
\* counts as missing.
Decide(d, found) ==
  IF job[d].note # Other /\ found /\ active THEN Go(d, "throttling") ELSE GoFor(d, "cancelling")

Judge(d) ==
  /\ job[d].at = "judging"
  /\ \E found \in BOOLEAN : Read(found) /\ Decide(d, found)
  /\ UNCHANGED <<flowVars, row, fresh, history>>

MutMisspells(d) ==
  /\ job[d].at = "cancelling"
  /\ row' = [row EXCEPT ![job[d].note].status = "canceled", ![job[d].note].cooling = FALSE]
  /\ fresh' = fresh \ {job[d].note} /\ Stop(d)
  /\ UNCHANGED <<flowVars, history, faults>>

\* Whatever the row's status has become.
Cancel(d) ==
  /\ job[d].at = "cancelling"
  /\ row' = [row EXCEPT ![job[d].note].status = "cancelled", ![job[d].note].cooling = FALSE]
  /\ fresh' = fresh \ {job[d].note} /\ Stop(d)
  /\ UNCHANGED <<flowVars, history, faults>>

MutForgetsThrottle == FALSE

\* isWorkflowThrottled
Throttled == \E n \in fresh : row[n].status = "sent"

\* When that cannot be read, the mail goes out.
CheckThrottle(d) ==
  /\ job[d].at = "throttling"
  /\ \E known \in BOOLEAN :
       /\ Read(known)
       /\ rough' = (rough \/ ~known) /\ burst' = IF known THEN burst ELSE 0
       /\ IF known /\ Throttled THEN Stop(d) ELSE Go(d, "checking")
  /\ UNCHANGED <<flowVars, row, fresh, mails, shared>>

CheckSigner(d) ==
  /\ job[d].at = "checking"
  /\ \E known \in BOOLEAN :
       /\ Read(known)
       /\ IF known /\ turn[job[d].note] = "ready" THEN Go(d, "sending") ELSE Stop(d)
  /\ UNCHANGED <<flowVars, row, fresh, history>>

Count(k) == IF k = 0 THEN 1 ELSE 2

Mailed(d) ==
  /\ mails' = IF job[d].note \in shared THEN mails ELSE [mails EXCEPT ![job[d].note] = Count(@)]
  /\ burst' = IF rough THEN burst ELSE Count(burst)
  /\ UNCHANGED <<shared, rough>>

\* The answers of Resend.  An error may hide a mail that was accepted.
Send(d) ==
  /\ job[d].at = "sending"
  /\ \/ Mailed(d) /\ GoFor(d, "sent") /\ UNCHANGED faults
     \/ Fault /\ Disturb({job[d].note}) /\ GoFor(d, "failed")
     \/ Fault /\ UNCHANGED history /\ GoFor(d, "failed")
     \/ Fault /\ UNCHANGED history /\ Go(d, "limited")
  /\ UNCHANGED <<flowVars, row, fresh>>

RecordSent(d) ==
  /\ job[d].at = "sent"
  /\ row' = [row EXCEPT ![job[d].note].status = "sent", ![job[d].note].cooling = FALSE]
  /\ fresh' = fresh \cup {job[d].note} /\ Stop(d)
  /\ UNCHANGED <<flowVars, history, faults>>

\* The count of the copied row and one.
RecordFailure(d) ==
  LET retry == job[d].retries + 1
  IN /\ job[d].at = "failed"
     /\ row' = [row EXCEPT ![job[d].note] =
          [status |-> IF retry >= MaxRetries THEN "failed" ELSE "pending",
           retries |-> retry, cooling |-> FALSE]]
     /\ fresh' = fresh \ {job[d].note} /\ Stop(d)
     /\ UNCHANGED <<flowVars, history, faults>>

MutLimitsAll(d) ==
  /\ job[d].at = "limited"
  /\ row' = [n \in Notices |-> IF row[n].status # "none"
       THEN [row[n] EXCEPT !.status = "pending", !.cooling = TRUE] ELSE row[n]]
  /\ fresh' = {} /\ Stop(d)
  /\ UNCHANGED <<flowVars, history, faults>>

\* 429: all rows of the workflow that were scanned, whatever they are by now.
RecordLimit(d) ==
  /\ job[d].at = "limited"
  /\ row' = [n \in Notices |-> IF n \in job[d].scanned
       THEN [row[n] EXCEPT !.status = "pending", !.cooling = TRUE] ELSE row[n]]
  /\ fresh' = fresh \ job[d].scanned /\ Stop(d)
  /\ UNCHANGED <<flowVars, history, faults>>

\* The invocation is killed, or its last update fails, which is only logged.
Kill(d) ==
  /\ job[d].at # "idle" /\ Fault /\ Stop(d)
  /\ Disturb(IF job[d].at = "sent" THEN {job[d].note} ELSE {})
  /\ UNCHANGED <<flowVars, row, fresh>>

-----------------------------------------------------------------------------
(* Time.                                                                   *)

\* A mail counts as recent until its sent_at has passed the window, too.
WindowPasses ==
  /\ burst > 0 \/ rough \/ fresh # {}
  /\ burst' = 0 /\ rough' = (\E d \in Dispatchers : job[d].at # "idle")
  /\ fresh' = {}
  /\ UNCHANGED <<flowVars, row, job, mails, shared, faults>>

CooldownPasses ==
  /\ \E n \in Notices : row[n].cooling /\ row' = [row EXCEPT ![n].cooling = FALSE]
  /\ UNCHANGED <<flowVars, fresh, job, history, faults>>

Run(d) ==
  \/ Select(d) \/ Judge(d) \/ Cancel(d) \/ CheckThrottle(d) \/ CheckSigner(d)
  \/ Send(d) \/ RecordSent(d) \/ RecordFailure(d) \/ RecordLimit(d)

Next ==
  \/ \E s \in Signers : Leave(s) \/ SetBack(s) \/ Enqueue(s)
  \/ EnqueueOther \/ End
  \/ \E d \in Dispatchers : Run(d) \/ Kill(d)
  \/ WindowPasses \/ CooldownPasses

Spec == Init /\ [][Next]_vars

\* Of the invocations the cron makes some goes on, while others may hang: they
\* hold no lock.  Time passes.  The workflow need not do anything.
Fairness ==
  /\ WF_vars(\E d \in Dispatchers : Run(d))
  /\ WF_vars(WindowPasses) /\ WF_vars(CooldownPasses)

FairSpec == Spec /\ Fairness

-----------------------------------------------------------------------------
TypeOK ==
  /\ active \in BOOLEAN
  /\ turn \in [Signers -> {"waiting", "ready", "past"}]
  /\ row \in [Notices -> [status : {"none", "pending", "sent", "failed", "cancelled"},
                          retries : 0 .. MaxRetries, cooling : BOOLEAN]]
  /\ fresh \subseteq Notices
  /\ job \in [Dispatchers ->
       [at : {"idle", "judging", "cancelling", "throttling", "checking", "sending",
              "sent", "failed", "limited"},
        note : Notices, retries : 0 .. MaxRetries - 1, scanned : SUBSET Notices]]
  /\ mails \in [Notices -> 0 .. 2] /\ burst \in 0 .. 2
  /\ shared \subseteq Notices /\ rough \in BOOLEAN /\ faults \in 0 .. MaxFaults

\* A signer is asked once.  Nothing but two invocations with the row before
\* them, a kill behind the mail or an error that hides a mail makes it twice.
OneMailPerNotice == \A n \in Notices \ shared : mails[n] <= 1

\* The canon of send-pending-emails: one email of a workflow in a throttle
\* window, unless in that window invocations overlap, a mail goes unrecorded
\* or the last sent_at cannot be read.
OneMailPerWindow == burst <= 1 \/ rough

\* What is sent, failed or cancelled stays so.  A 429 sets all scanned rows
\* back, and no update looks at the status it overwrites.
SettledStays ==
  [][\A n \in Notices \ shared :
       row[n].status \in {"sent", "failed", "cancelled"} => row'[n].status = row[n].status]_vars

GivenUp(n) == row[n].retries >= MaxRetries

Waits(s) ==
  Sequential /\ active /\ turn[s] = "ready" /\ row[s].status = "pending" /\ ~GivenUp(s)

\* The newest row is tried, and skipped while its signer is past.
Hidden(s) == \E r \in Scanned \ {Other} : r > s /\ turn[r] = "past"

\* In a sequential workflow the notice of the signer in turn is settled, behind
\* whatever older rows there are that nobody will ever settle - unless he has
\* been set back behind a newer one.
TurnNoticeSettles ==
  (\E s \in Signers : Waits(s)) ~> (\A s \in Signers : Waits(s) => Hidden(s))

\* When the workflow has ended, no notice of it stays pending, except one that a
\* late 429 set back after its last retry: the dispatcher does not scan it again.
EndedFlowIsCleared ==
  ~active ~> \A n \in Notices : row[n].status = "pending" => GivenUp(n)
=============================================================================
