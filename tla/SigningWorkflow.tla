-------------------------- MODULE SigningWorkflow --------------------------
(***************************************************************************)
(* One signature workflow from its start to its end: the signers' browser  *)
(* tabs, the edge functions they call, the owner, and the rows they share. *)
(*                                                                         *)
(* The statuses of signers and workflow are projections of workflow_events *)
(* made by triggers in the transaction of the append, so they are never    *)
(* older than the log.  What is old is what a call has read: each call     *)
(* reads its gates in one step and appends in later ones.  A tab stands    *)
(* for the page and for the call it waits for; a killed call leaves its    *)
(* lock and its tab goes back to the page.                                 *)
(*                                                                         *)
(* A signature is the stamp of a signer on the PDF: pdf is the file at     *)
(* document_path, which every signer overwrites, and witness the immutable *)
(* copy that document_entities points to.                                  *)
(***************************************************************************)
EXTENDS Integers, FiniteSets

CONSTANTS
  Signers,    \* their signing_order, 1 .. n
  Tabs,       \* browser tabs
  TabOf,      \* whose link is open in a tab
  Owner,      \* what the owner may do: a subset of {"cancel", "answer"}
  Refusals,   \* what signers may do instead: {"reject", "change"}
  MaxFaults,  \* bound: calls that are killed, and reads and RPCs that fail
  MaxLapses   \* bound: access tokens that expire

ASSUME SigningAssumption ==
  /\ Signers \in SUBSET (Nat \ {0}) /\ IsFiniteSet(Signers) /\ Signers # {}
  /\ TabOf \in [Tabs -> Signers]
  /\ Owner \subseteq {"cancel", "answer"} /\ Refusals \subseteq {"reject", "change"}
  /\ MaxFaults \in Nat /\ MaxLapses \in Nat

VARIABLES
  sequential,  \* signature_workflows.require_sequential
  flow,        \* signature_workflows.status
  milestones,  \* the events that can end the workflow
  latest,      \* latest[s]: the latest event of a signer that has a status
  signed,      \* signers with a signer.signed event
  attested,    \* signers with a signature.completed in the document's ledger
  token,       \* token[s]: of the access link
  otp,         \* otp[s]: signer_otps.verified_at is set
  change,      \* change[s]: change_request_status
  lock,        \* lock[s]: signing_lock_id and _at of the signer
  pdf,         \* whose stamps the PDF at document_path has
  witness,     \* whose stamps the current witness has
  tab,         \* tab[t]: where it is and what its call has read
  owner,       \* progress of the owner's call
  miscounted,  \* history: a call took a failed count for nobody left
  faults, lapses

log == <<flow, milestones, latest, signed>>
files == <<pdf, witness>>
links == <<token, otp, change>>
rest == <<sequential, miscounted, faults, lapses>>
vars == <<sequential, flow, milestones, latest, signed, attested, token, otp,
          change, lock, pdf, witness, tab, owner, miscounted, faults, lapses>>

\* ORDER BY signing_order LIMIT 1
First(S) == CHOOSE s \in S : \A r \in S : s <= r

Free == [by |-> "nobody", fresh |-> FALSE]
Held(t) == [by |-> t, fresh |-> TRUE]
Terminal == {"signed", "cancelled", "rejected", "expired"}

\* The steps of apply-signer-signature, from its claim of the signer.
Applying == {"claiming", "repairing", "stamping", "uploading", "witnessing",
  "signing", "attesting", "clearing", "advancing", "counting", "completing",
  "releasing"}
PageSteps == {"preaccess", "code", "viewing"}
Places == Applying \cup PageSteps \cup
  {"closed", "opening", "expiring", "refreshing", "outdated", "reloading",
   "confirming", "asking", "rejecting", "requesting", "done"}

Init ==
  /\ sequential \in BOOLEAN
  /\ flow = "active" /\ milestones = {} /\ signed = {} /\ attested = {}
  /\ latest = [s \in Signers |->
       IF sequential /\ s = First(Signers) THEN "ready_to_sign" ELSE "none"]
  /\ token = [s \in Signers |-> "live"] /\ otp = [s \in Signers |-> FALSE]
  /\ change = [s \in Signers |-> "none"]
  /\ lock = [s \in Signers |-> Free]
  /\ pdf = {} /\ witness = {}
  /\ tab = [t \in Tabs |-> [at |-> "closed", was |-> "none", again |-> FALSE, copy |-> {}]]
  /\ owner = [at |-> "idle", of |-> First(Signers)]
  /\ miscounted = FALSE /\ faults = 0 /\ lapses = 0

-----------------------------------------------------------------------------
(* The projections.                                                        *)

\* project_workflow_signer_status, of the latest event alone.
Projected(event) ==
  CASE event = "none" -> IF sequential THEN "invited" ELSE "ready_to_sign"
    [] event \in {"accessed", "identity_confirmed", "ready_to_sign"} -> "ready_to_sign"
    [] OTHER -> event

Status(s) ==
  LET own == Projected(latest[s])
  IN IF "workflow.cancelled" \in milestones /\ own \notin Terminal THEN "cancelled" ELSE own

\* project_signature_workflow_status: an ended workflow stays as it ended.
FlowStatus(events) ==
  IF flow # "active" THEN flow
  ELSE IF "workflow.cancelled" \in events THEN "cancelled"
  ELSE IF "signer.rejected" \in events THEN "rejected"
  ELSE IF "workflow.completed" \in events THEN "completed" ELSE "active"

AppendOfSigner(s, event) ==
  /\ latest' = [latest EXCEPT ![s] = event]
  /\ signed' = IF event = "signed" THEN signed \cup {s} ELSE signed
  /\ milestones' = IF event = "rejected" THEN milestones \cup {"signer.rejected"} ELSE milestones
  /\ flow' = FlowStatus(milestones')

AppendOfFlow(event) ==
  /\ milestones' = milestones \cup {event}
  /\ flow' = FlowStatus(milestones')
  /\ UNCHANGED <<latest, signed>>

Go(t, step) == tab' = [tab EXCEPT ![t].at = step]

Fault ==
  /\ faults < MaxFaults /\ faults' = faults + 1
  /\ UNCHANGED <<sequential, lapses>>

-----------------------------------------------------------------------------
(* The page of a signer, and the calls before the signature.               *)

\* The gates of signer-access; an expired link is put on record.
AccessStep(s) ==
  CASE token[s] = "lapsed" /\ Status(s) \notin Terminal -> "expiring"
    [] token[s] = "live" /\ flow = "active" /\ Status(s) = "ready_to_sign" -> "opening"
    [] OTHER -> "refused"

Open(t) ==
  /\ tab[t].at = "closed" /\ AccessStep(TabOf[t]) # "refused"
  /\ Go(t, AccessStep(TabOf[t]))
  /\ UNCHANGED <<log, attested, links, lock, files, owner, rest>>

LogExpiry(t) ==
  /\ tab[t].at \in {"expiring", "outdated"}
  /\ AppendOfSigner(TabOf[t], "expired")
  /\ Go(t, IF tab[t].at = "outdated" THEN "viewing" ELSE "closed")
  /\ UNCHANGED <<attested, links, lock, files, owner, rest>>

LogAccess(t) ==
  /\ tab[t].at \in {"opening", "refreshing"}
  /\ AppendOfSigner(TabOf[t], "accessed")
  /\ Go(t, IF tab[t].at = "refreshing" \/ otp[TabOf[t]] THEN "viewing" ELSE "preaccess")
  /\ UNCHANGED <<attested, links, lock, files, owner, rest>>

\* confirm-signer-identity looks at the workflow, not at the signer's status.
Confirm(t) ==
  /\ tab[t].at = "preaccess" /\ token[TabOf[t]] = "live" /\ flow = "active"
  /\ Go(t, "confirming")
  /\ UNCHANGED <<log, attested, links, lock, files, owner, rest>>

LogIdentity(t) ==
  /\ tab[t].at = "confirming"
  /\ AppendOfSigner(TabOf[t], "identity_confirmed") /\ Go(t, "asking")
  /\ UNCHANGED <<attested, links, lock, files, owner, rest>>

\* At first and on demand.  A new code voids the verification; within the
\* cooldown none is sent.
SendCode(t) ==
  /\ tab[t].at \in {"asking", "code"} /\ token[TabOf[t]] = "live" /\ flow = "active"
  /\ \E sent \in BOOLEAN :
       otp' = IF sent THEN [otp EXCEPT ![TabOf[t]] = FALSE] ELSE otp
  /\ Go(t, "code")
  /\ UNCHANGED <<log, attested, token, change, lock, files, owner, rest>>

VerifyCode(t) ==
  /\ tab[t].at = "code" /\ token[TabOf[t]] = "live" /\ ~otp[TabOf[t]]
  /\ otp' = [otp EXCEPT ![TabOf[t]] = TRUE]
  /\ Go(t, IF flow = "active" THEN "reloading" ELSE "code")
  /\ UNCHANGED <<log, attested, token, change, lock, files, owner, rest>>

\* The page asks signer-access again; refused, it shows what it has.
Reload(t) ==
  /\ tab[t].at = "reloading"
  /\ Go(t, CASE AccessStep(TabOf[t]) = "opening" -> "refreshing"
             [] AccessStep(TabOf[t]) = "expiring" -> "outdated"
             [] OTHER -> "viewing")
  /\ UNCHANGED <<log, attested, links, lock, files, owner, rest>>

\* reject-signature checks the token, then waits for a timestamp.
Reject(t) ==
  /\ "reject" \in Refusals
  /\ tab[t].at \in PageSteps /\ token[TabOf[t]] = "live"
  /\ Go(t, "rejecting")
  /\ UNCHANGED <<log, attested, links, lock, files, owner, rest>>

LogRejection(t) ==
  /\ tab[t].at = "rejecting"
  /\ AppendOfSigner(TabOf[t], "rejected") /\ Go(t, "done")
  /\ UNCHANGED <<attested, links, lock, files, owner, rest>>

RequestChange(t) ==
  /\ "change" \in Refusals
  /\ tab[t].at = "viewing" /\ token[TabOf[t]] = "live" /\ Status(TabOf[t]) = "ready_to_sign"
  /\ change' = [change EXCEPT ![TabOf[t]] = "pending"] /\ Go(t, "requesting")
  /\ UNCHANGED <<log, attested, token, otp, lock, files, owner, rest>>

LogRequest(t) ==
  /\ tab[t].at = "requesting"
  /\ AppendOfSigner(TabOf[t], "accessed") /\ Go(t, "viewing")
  /\ UNCHANGED <<attested, links, lock, files, owner, rest>>

-----------------------------------------------------------------------------
(* apply-signer-signature.                                                 *)

\* A signer who has signed is let in again, to repair what was not finished.
Sign(t) ==
  LET s == TabOf[t]
      again == s \in signed
  IN /\ tab[t].at = "viewing" /\ token[s] = "live" /\ flow = "active"
     /\ again \/ (Status(s) = "ready_to_sign" /\ otp[s])
     /\ tab' = [tab EXCEPT ![t] =
          [at |-> IF Status(s) = "ready_to_sign" THEN "claiming" ELSE "repairing",
           was |-> Status(s), again |-> again, copy |-> {}]]
     /\ UNCHANGED <<log, attested, links, lock, files, owner, rest>>

\* claim_signer_for_signing
MyTurn(s) ==
  /\ Status(s) = "ready_to_sign"
  /\ sequential => s = First({r \in Signers : Status(r) = "ready_to_sign"})

MutIgnoresLock(s) == TRUE

Unlocked(s) == ~lock[s].fresh

\* In a parallel workflow the claim also takes the lock of the workflow, and
\* gives it back before it ends: RETURN NEXT does not return.  Nobody ever
\* finds that lock taken.
Claim(t) ==
  LET s == TabOf[t]
  IN /\ tab[t].at = "claiming"
     /\ \/ /\ MyTurn(s) /\ Unlocked(s)
           /\ lock' = [lock EXCEPT ![s] = Held(t)]
           /\ Go(t, IF tab[t].again THEN "repairing" ELSE "stamping")
        \/ /\ ~(MyTurn(s) /\ Unlocked(s))
           /\ Go(t, IF Status(s) = "signed" THEN "done" ELSE "viewing")
           /\ UNCHANGED lock
     /\ UNCHANGED <<log, attested, links, files, owner, rest>>

\* The repair of a signature that is on record: its ledger event and its lock.
Repair(t) ==
  LET s == TabOf[t]
  IN /\ tab[t].at = "repairing"
     /\ attested' = attested \cup {s}
     /\ lock' = IF tab[t].was = "signed" THEN lock ELSE [lock EXCEPT ![s] = Free]
     /\ Go(t, IF sequential /\ tab[t].was # "signed" THEN "advancing" ELSE "releasing")
     /\ UNCHANGED <<log, links, files, owner, rest>>

ReadPdf(t) ==
  /\ tab[t].at = "stamping"
  /\ tab' = [tab EXCEPT ![t].at = "uploading", ![t].copy = pdf \cup {TabOf[t]}]
  /\ UNCHANGED <<log, attested, links, lock, files, owner, rest>>

UploadPdf(t) ==
  /\ tab[t].at = "uploading"
  /\ pdf' = tab[t].copy /\ Go(t, "witnessing")
  /\ UNCHANGED <<log, attested, links, lock, witness, owner, rest>>

MutAttestsFirst(t) ==
  /\ tab[t].at = "witnessing"
  /\ witness' = tab[t].copy /\ Go(t, "attesting")
  /\ UNCHANGED <<log, attested, links, lock, pdf, owner, rest>>

UpdateWitness(t) ==
  /\ tab[t].at = "witnessing"
  /\ witness' = tab[t].copy /\ Go(t, "signing")
  /\ UNCHANGED <<log, attested, links, lock, pdf, owner, rest>>

\* One signer.signed per signer: the unique index refuses a second one.
InsertSigned(t) ==
  /\ tab[t].at = "signing"
  /\ IF TabOf[t] \in signed
     THEN Go(t, "releasing") /\ UNCHANGED log
     ELSE Go(t, "attesting") /\ AppendOfSigner(TabOf[t], "signed")
  /\ UNCHANGED <<attested, links, lock, files, owner, rest>>

MutForgetsToAttest(t) ==
  /\ tab[t].at = "attesting" /\ Go(t, "clearing")
  /\ UNCHANGED <<log, attested, links, lock, files, owner, rest>>

Attest(t) ==
  /\ tab[t].at = "attesting"
  /\ attested' = attested \cup {TabOf[t]} /\ Go(t, "clearing")
  /\ UNCHANGED <<log, links, lock, files, owner, rest>>

MutCountsInSequenceOnly(t) ==
  /\ tab[t].at = "clearing"
  /\ lock' = [lock EXCEPT ![TabOf[t]] = Free]
  /\ Go(t, IF sequential THEN "advancing" ELSE "releasing")
  /\ UNCHANGED <<log, attested, links, files, owner, rest>>

MutNeverAdvances(t) ==
  /\ tab[t].at = "clearing"
  /\ lock' = [lock EXCEPT ![TabOf[t]] = Free] /\ Go(t, "counting")
  /\ UNCHANGED <<log, attested, links, files, owner, rest>>

\* Whoever holds it by now.
ClearLock(t) ==
  /\ tab[t].at = "clearing"
  /\ lock' = [lock EXCEPT ![TabOf[t]] = Free]
  /\ Go(t, IF sequential THEN "advancing" ELSE "counting")
  /\ UNCHANGED <<log, attested, links, files, owner, rest>>

\* advance_workflow: the next invited signer is ready.  An error is only logged.
Invited == {s \in Signers : Status(s) = "invited"}

AdvanceWorkflow(t) ==
  /\ tab[t].at = "advancing"
  /\ Go(t, IF tab[t].again THEN "releasing" ELSE "counting")
  /\ \/ /\ IF Invited = {} THEN UNCHANGED log ELSE AppendOfSigner(First(Invited), "ready_to_sign")
        /\ UNCHANGED rest
     \/ Fault /\ UNCHANGED <<log, miscounted>>
  /\ UNCHANGED <<attested, links, lock, files, owner>>

MutCountsReadyAsDone(t) ==
  /\ tab[t].at = "counting"
  /\ Go(t, IF Invited = {} THEN "completing" ELSE "releasing")
  /\ UNCHANGED <<log, attested, links, lock, files, owner, rest>>

\* isLastSigner.  A read that fails returns null, and null counts as nobody left.
Count(t) ==
  /\ tab[t].at = "counting"
  /\ \/ /\ Go(t, IF \A s \in Signers : Status(s) \in Terminal THEN "completing" ELSE "releasing")
        /\ UNCHANGED rest
     \/ Fault /\ miscounted' = TRUE /\ Go(t, "completing")
  /\ UNCHANGED <<log, attested, links, lock, files, owner>>

Complete(t) ==
  /\ tab[t].at = "completing"
  /\ AppendOfFlow("workflow.completed") /\ Go(t, "releasing")
  /\ UNCHANGED <<attested, links, lock, files, owner, rest>>

\* The finally block releases what this call has claimed.
Release(t) ==
  LET claimed == tab[t].was = "ready_to_sign"
  IN /\ tab[t].at = "releasing"
     /\ lock' = IF claimed /\ lock[TabOf[t]].by = t THEN [lock EXCEPT ![TabOf[t]] = Free] ELSE lock
     /\ Go(t, "done")
     /\ UNCHANGED <<log, attested, links, files, owner, rest>>

-----------------------------------------------------------------------------
(* The owner.  Accepting a change has no action: create_workflow_version   *)
(* stores the signer's id in a column that references auth.users, so the   *)
(* call ends with an error before it has changed anything.                 *)

RefuseChange(s) ==
  /\ "answer" \in Owner
  /\ owner.at = "idle" /\ flow = "active" /\ change[s] = "pending"
  /\ change' = [change EXCEPT ![s] = "rejected"]
  /\ owner' = [at |-> "answering", of |-> s]
  /\ UNCHANGED <<log, attested, token, otp, lock, files, tab, rest>>

LogAnswer ==
  /\ owner.at = "answering"
  /\ AppendOfSigner(owner.of, "ready_to_sign")
  /\ owner' = [owner EXCEPT !.at = "idle"]
  /\ UNCHANGED <<attested, links, lock, files, tab, rest>>

\* Refused while a signer who is not done holds a fresh lock, if that can be read.
Cancel ==
  /\ "cancel" \in Owner
  /\ owner.at = "idle" /\ flow = "active"
  /\ \/ (\A s \in Signers : lock[s].fresh => Status(s) \in Terminal) /\ UNCHANGED rest
     \/ Fault /\ UNCHANGED miscounted
  /\ owner' = [owner EXCEPT !.at = "cancelling"]
  /\ UNCHANGED <<log, attested, links, lock, files, tab>>

LogCancellation ==
  /\ owner.at = "cancelling"
  /\ AppendOfFlow("workflow.cancelled")
  /\ owner' = [owner EXCEPT !.at = "revoking"]
  /\ UNCHANGED <<attested, links, lock, files, tab, rest>>

\* By now a pending signer is "cancelled" and is passed over.
RevokeTokens ==
  LET chosen == {s \in Signers : Status(s) \notin {"signed", "cancelled"}}
  IN /\ owner.at = "revoking"
     /\ token' = [s \in Signers |-> IF s \in chosen THEN "revoked" ELSE token[s]]
     /\ lock' = [s \in Signers |-> IF s \in chosen THEN Free ELSE lock[s]]
     /\ owner' = [owner EXCEPT !.at = "done"]
     /\ UNCHANGED <<log, attested, otp, change, files, tab, rest>>

-----------------------------------------------------------------------------
(* Time and faults.                                                        *)

TokenLapses(s) ==
  /\ lapses < MaxLapses /\ lapses' = lapses + 1
  /\ token[s] = "live" /\ token' = [token EXCEPT ![s] = "lapsed"]
  /\ UNCHANGED <<log, attested, otp, change, lock, files, tab, owner, sequential, miscounted, faults>>

\* The client sees an error and may call again.
Kill(t) ==
  /\ Fault
  /\ tab[t].at \in Applying /\ Go(t, "viewing")
  /\ UNCHANGED <<log, attested, links, lock, files, owner, miscounted>>

\* Five minutes after its claim; a call that is alive ends before that.
Abandoned(l) == l.fresh /\ tab[l.by].at \notin Applying

LockExpires ==
  /\ \E s \in Signers : Abandoned(lock[s]) /\ lock' = [lock EXCEPT ![s].fresh = FALSE]
  /\ UNCHANGED <<log, attested, links, files, tab, owner, rest>>

Page(t) ==
  \/ Open(t) \/ Confirm(t) \/ SendCode(t) \/ VerifyCode(t) \/ Reload(t)
  \/ Reject(t) \/ RequestChange(t) \/ Sign(t)

\* What a call does once it has passed its gates.
Call(t) ==
  \/ LogExpiry(t) \/ LogAccess(t) \/ LogIdentity(t) \/ LogRejection(t) \/ LogRequest(t)
  \/ Claim(t) \/ Repair(t) \/ ReadPdf(t) \/ UploadPdf(t) \/ UpdateWitness(t)
  \/ InsertSigned(t) \/ Attest(t) \/ ClearLock(t) \/ AdvanceWorkflow(t)
  \/ Count(t) \/ Complete(t) \/ Release(t)

OwnersCall == LogAnswer \/ LogCancellation \/ RevokeTokens

Next ==
  \/ \E t \in Tabs : Page(t) \/ Call(t) \/ Kill(t)
  \/ \E s \in Signers : RefuseChange(s) \/ TokenLapses(s)
  \/ Cancel \/ OwnersCall \/ LockExpires

Spec == Init /\ [][Next]_vars

\* Calls go on by themselves and locks grow old; people need not do anything.
Fairness ==
  /\ \A t \in Tabs : WF_vars(Call(t))
  /\ WF_vars(OwnersCall) /\ WF_vars(LockExpires)

FairSpec == Spec /\ Fairness

-----------------------------------------------------------------------------
TypeOK ==
  /\ sequential \in BOOLEAN /\ flow \in {"active", "completed", "rejected", "cancelled"}
  /\ milestones \subseteq {"workflow.cancelled", "signer.rejected", "workflow.completed"}
  /\ latest \in [Signers -> {"none", "ready_to_sign", "accessed", "identity_confirmed",
                            "signed", "rejected", "expired"}]
  /\ signed \subseteq Signers /\ attested \subseteq signed
  /\ token \in [Signers -> {"live", "lapsed", "revoked"}] /\ otp \in [Signers -> BOOLEAN]
  /\ change \in [Signers -> {"none", "pending", "rejected"}]
  /\ lock \in [Signers -> [by : Tabs \cup {"nobody"}, fresh : BOOLEAN]]
  /\ pdf \subseteq Signers /\ witness \subseteq Signers
  /\ tab \in [Tabs -> [at : Places, was : Terminal \cup {"none", "invited", "ready_to_sign"},
                       again : BOOLEAN, copy : SUBSET Signers]]
  /\ owner \in [at : {"idle", "answering", "cancelling", "revoking", "done"}, of : Signers]
  /\ miscounted \in BOOLEAN /\ faults \in 0 .. MaxFaults /\ lapses \in 0 .. MaxLapses

\* What the migration with the lock of the workflow says that lock is for: a
\* signature on record is on the stored PDF and on the witness, although every
\* signer reads, stamps and overwrites one file.
StampsAreKept == signed \subseteq pdf \cap witness

\* The migration that keeps signer.accessed observational: an event of a
\* signer's page does not take him out of the state "signed".
SignedStaysSigned == \A s \in signed : Status(s) = "signed"

\* In a sequential workflow turns and the locks of signers see to that, kills
\* between the steps and locks that grow old included, for as long as nobody
\* who has signed is set back to ready by his own page or the owner's answer.
TurnsKeepStamps == sequential /\ SignedStaysSigned => StampsAreKept

\* The workflow implements SignatureRound: one signature for each signer, in
\* turn, and completion only when everybody has signed whose link is alive -
\* whatever two tabs, kills, failed reads and the owner do in between, up to the
\* first count whose read fails.
Round == INSTANCE SignatureRound WITH
  outcome <- flow, excused <- {s \in Signers : token[s] # "live"}
ImplementsRound == Round!Spec

\* The comment of the code before the completion: "If this was the last signer".
\* Nobody completes the workflow over the head of a signer whose link is alive.
LastSignerCompletes ==
  "workflow.completed" \in milestones =>
    \A s \in Signers : s \in signed \/ token[s] # "live"

Disturbed == faults > 0 \/ ~SignedStaysSigned

\* When everybody has signed the workflow ends, by the call of whoever comes
\* last; calls that end together must not each leave it to the other.
AllSignedEnds == (signed = Signers) ~> (flow # "active" \/ Disturbed)

\* A signature gets its signature.completed in the ledger of the document.
SignaturesAreAttested == \A s \in Signers : (s \in signed) ~> (s \in attested \/ Disturbed)

\* In a sequential workflow a signer is asked once all before him have signed.
TurnComes == \A s \in Signers :
  (sequential /\ \A r \in Signers : r < s => r \in signed) ~> (Status(s) # "invited" \/ Disturbed)
=============================================================================
