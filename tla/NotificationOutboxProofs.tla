---------------------- MODULE NotificationOutboxProofs ----------------------
(***************************************************************************)
(* What send-pending-emails promises of its notices, for every number of   *)
(* signers, of overlapping invocations, of retries and of faults: a notice *)
(* that one invocation alone had before it is mailed once and stays        *)
(* settled, and in a throttle window without overlap goes one mail.        *)
(*                                                                         *)
(* None of the three is inductive.  They rest on what the invocations hold:*)
(* the row an invocation works on is one it scanned (Fit), no other has    *)
(* scanned it (Alone), so it is still pending (HeldPending), and a mail is *)
(* in the row or in the invocation about to record it (MailsRecorded).     *)
(***************************************************************************)
EXTENDS NotificationOutbox, TLAPS

Fit == \A d \in Dispatchers :
  IF job[d].at = "idle" THEN job[d].scanned = {} ELSE job[d].note \in job[d].scanned

Alone == \A n \in Notices \ shared : \A d, e \in Dispatchers :
  n \in job[d].scanned /\ n \in job[e].scanned => d = e

HeldPending == \A n \in Notices \ shared : \A d \in Dispatchers :
  n \in job[d].scanned => row[n].status = "pending"

MailsRecorded == \A n \in Notices \ shared :
  \/ mails[n] = 0
  \/ /\ mails[n] = 1
     /\ row[n].status = "sent" \/ \E d \in Dispatchers : job[d].at = "sent" /\ job[d].note = n

OnceInv == Fit /\ Alone /\ HeldPending /\ MailsRecorded

\* While nothing disturbs the window one invocation is at work, on rows that
\* are still pending, and the one mail is in a fresh row or about to be; past
\* the throttle there was none.
WindowInv == ~rough =>
  /\ \A d, e \in Dispatchers : job[d].at # "idle" /\ job[e].at # "idle" => d = e
  /\ \A d \in Dispatchers : \A n \in job[d].scanned : n \in Scanned
  /\ burst = 0 \/ (burst = 1 /\ (Throttled \/ \E d \in Dispatchers : job[d].at = "sent"))
  /\ \A d \in Dispatchers : job[d].at \in {"checking", "sending"} => burst = 0

Rows == [status : {"none", "pending", "sent", "failed", "cancelled"},
         retries : 0 .. MaxRetries, cooling : BOOLEAN]
Calls == [at : {"idle", "judging", "cancelling", "throttling", "checking", "sending",
                "sent", "failed", "limited"},
          note : Notices, retries : 0 .. MaxRetries - 1, scanned : SUBSET Notices]

-----------------------------------------------------------------------------
\* An idle invocation is a call.
LEMMA IdleCall == Idle \in Calls
<1>1. 0 \in 0 .. MaxRetries - 1
  BY OutboxAssumption
<1>. QED BY <1>1 DEF Idle, Calls, Notices

\* A row that is put into the outbox is a row.
LEMMA EnqueuedRow == Enqueued \in Rows
<1>1. 0 \in 0 .. MaxRetries
  BY OutboxAssumption
<1>2. Absent \in Rows
  BY <1>1 DEF Absent, Rows
<1>. QED BY <1>2 DEF Enqueued, Rows

\* Every step of the workflow, of an invocation and of time keeps the types.
LEMMA TypeStep ==
  ASSUME TypeOK, [Next]_vars
  PROVE  TypeOK'
<1> USE OutboxAssumption
<1>1. ASSUME NEW s \in Signers, Leave(s) PROVE TypeOK'
  BY <1>1 DEF TypeOK, Leave, history
<1>2a. ASSUME NEW s \in Signers, SetBack(s) PROVE TypeOK'
  BY <1>2a DEF TypeOK, SetBack, Fault, history
<1>2. ASSUME NEW s \in Signers, Enqueue(s) PROVE TypeOK'
  <2>1. s \in Notices
    BY DEF Notices
  <2>2. Enqueued \in Rows
    BY EnqueuedRow
  <2>. QED BY <2>1, <2>2, <1>2 DEF TypeOK, Rows, Enqueue, flowVars, history
<1>3. CASE EnqueueOther
  <2>1. Other \in Notices
    BY DEF Notices
  <2>2. Enqueued \in Rows
    BY EnqueuedRow
  <2>. QED BY <2>1, <2>2, <1>3 DEF TypeOK, Rows, EnqueueOther, flowVars, history
<1>4. CASE End
  BY <1>4 DEF TypeOK, End, history
<1>5. CASE WindowPasses
  BY <1>5 DEF TypeOK, WindowPasses, flowVars
<1>6. CASE CooldownPasses
  <2>1. PICK n \in Notices : row' = [row EXCEPT ![n].cooling = FALSE]
    BY <1>6 DEF CooldownPasses
  <2>2. [row[n] EXCEPT !.cooling = FALSE] \in Rows
    <3>1. row[n] \in Rows
      BY DEF TypeOK, Rows
    <3>2. \A r \in Rows : [r EXCEPT !.cooling = FALSE] \in Rows
      BY DEF Rows
    <3>. QED BY <3>1, <3>2
  <2>3. row' = [row EXCEPT ![n] = [row[n] EXCEPT !.cooling = FALSE]]
    BY <2>1 DEF TypeOK
  <2>4. row' \in [Notices -> Rows]
    BY <2>2, <2>3 DEF TypeOK, Rows
  <2>. QED BY <2>4, <1>6 DEF TypeOK, Rows, CooldownPasses, flowVars, history
<1>7. ASSUME NEW d \in Dispatchers, Select(d) PROVE TypeOK'
  <2>1. PICK n \in Candidates(Scanned) :
          job' = [job EXCEPT ![d] = [at |-> "judging", note |-> n,
                                     retries |-> row[n].retries, scanned |-> Scanned]]
    BY <1>7 DEF Select
  <2>2. n \in Scanned
    BY DEF Candidates
  <2>3. Scanned \subseteq Notices /\ n \in Notices /\ row[n].retries \in 0 .. MaxRetries - 1
    BY <2>2 DEF Scanned, TypeOK
  <2>4. job' \in [Dispatchers -> Calls]
    BY <2>1, <2>3 DEF TypeOK, Calls
  <2>. QED BY <2>3, <2>4, <1>7 DEF TypeOK, Calls, Select, Disturb, flowVars
<1>8. ASSUME NEW d \in Dispatchers, Judge(d) PROVE TypeOK'
  BY <1>8 DEF TypeOK, Judge, Read, Fault, Decide, Go, GoFor, flowVars, history
<1>9. ASSUME NEW d \in Dispatchers, Cancel(d) PROVE TypeOK'
  BY <1>9 DEF TypeOK, Notices, Cancel, Stop, Idle, flowVars, history
<1>10. ASSUME NEW d \in Dispatchers, CheckThrottle(d) PROVE TypeOK'
  BY <1>10 DEF TypeOK, Notices, Other, CheckThrottle, Read, Fault, Stop, Idle, Go, flowVars
<1>11. ASSUME NEW d \in Dispatchers, CheckSigner(d) PROVE TypeOK'
  <2>1. faults' \in 0 .. MaxFaults
    BY <1>11 DEF TypeOK, CheckSigner, Read, Fault
  <2>2. job' \in [Dispatchers -> Calls]
    BY <1>11 DEF TypeOK, Calls, CheckSigner, Go, Stop, Idle, Notices
  <2>. QED BY <2>1, <2>2, <1>11 DEF TypeOK, Calls, CheckSigner, flowVars, history
<1>12. ASSUME NEW d \in Dispatchers, Send(d) PROVE TypeOK'
  <2>1. faults' \in 0 .. MaxFaults
    BY <1>12 DEF TypeOK, Send, Fault
  <2>2. job' \in [Dispatchers -> Calls]
    BY <1>12 DEF TypeOK, Calls, Send, Go, GoFor
  <2>3. job[d].note \in Notices
    BY DEF TypeOK
  <2> DEFINE HistoryOK == /\ mails \in [Notices -> 0 .. 2] /\ burst \in 0 .. 2
                          /\ shared \subseteq Notices /\ rough \in BOOLEAN
  <2>4. ASSUME Mailed(d) PROVE HistoryOK'
    BY <2>3, <2>4 DEF TypeOK, Mailed, Count
  <2>5. ASSUME Disturb({job[d].note}) PROVE HistoryOK'
    BY <2>3, <2>5 DEF TypeOK, Disturb
  <2>6. ASSUME UNCHANGED history PROVE HistoryOK'
    BY <2>6 DEF TypeOK, history
  <2>7. HistoryOK'
    BY <2>4, <2>5, <2>6, <1>12 DEF Send
  <2>. QED BY <2>1, <2>2, <2>7, <1>12 DEF TypeOK, Calls, Send, flowVars
<1>13. ASSUME NEW d \in Dispatchers, RecordSent(d) PROVE TypeOK'
  BY <1>13 DEF TypeOK, Notices, RecordSent, Stop, Idle, flowVars, history
<1>14. ASSUME NEW d \in Dispatchers, RecordFailure(d) PROVE TypeOK'
  <2>1. row' \in [Notices -> Rows] /\ fresh' \subseteq Notices
    BY <1>14 DEF TypeOK, Rows, RecordFailure
  <2>2. job' \in [Dispatchers -> Calls]
    BY <1>14, IdleCall DEF TypeOK, Calls, RecordFailure, Stop
  <2>. QED BY <2>1, <2>2, <1>14 DEF TypeOK, Rows, Calls, RecordFailure, flowVars, history
<1>15. ASSUME NEW d \in Dispatchers, RecordLimit(d) PROVE TypeOK'
  <2>1. row' \in [Notices -> Rows]
    <3>1. \A n \in Notices : row[n] \in Rows
      BY DEF TypeOK, Rows
    <3>2. \A r \in Rows : [r EXCEPT !.status = "pending", !.cooling = TRUE] \in Rows
      BY DEF Rows
    <3>. QED BY <3>1, <3>2, <1>15 DEF RecordLimit
  <2>2. job' \in [Dispatchers -> Calls]
    <3>1. Idle \in Calls
      BY IdleCall
    <3>2. job' = [job EXCEPT ![d] = Idle]
      BY <1>15 DEF RecordLimit, Stop
    <3>. QED BY <3>1, <3>2 DEF TypeOK, Calls
  <2>. QED BY <2>1, <2>2, <1>15 DEF TypeOK, Rows, Calls, RecordLimit, flowVars, history
<1>16. ASSUME NEW d \in Dispatchers, Kill(d) PROVE TypeOK'
  <2>1. job' \in [Dispatchers -> Calls]
    BY <1>16 DEF TypeOK, Calls, Kill, Stop, Idle, Notices
  <2>2. job[d].note \in Notices
    BY DEF TypeOK
  <2>3. /\ mails' \in [Notices -> 0 .. 2] /\ burst' \in 0 .. 2
        /\ shared' \subseteq Notices /\ rough' \in BOOLEAN
    BY <2>2, <1>16 DEF TypeOK, Kill, Disturb
  <2>. QED BY <2>1, <2>3, <1>16 DEF TypeOK, Calls, Kill, Fault, flowVars
<1>17. CASE UNCHANGED vars
  BY <1>17 DEF TypeOK, vars
<1>18. QED
  BY <1>1, <1>2, <1>2a, <1>3, <1>4, <1>5, <1>6, <1>7, <1>8, <1>9, <1>10,
     <1>11, <1>12, <1>13, <1>14, <1>15, <1>16, <1>17
  DEF Next, Run

\* An invocation works on a row of its own scan, and an idle one on none.
LEMMA FitStep ==
  ASSUME TypeOK, Fit, [Next]_vars
  PROVE  Fit'
<1>1. ASSUME NEW s \in Signers, Leave(s) PROVE Fit'
  BY <1>1 DEF Fit, Leave
<1>2a. ASSUME NEW s \in Signers, SetBack(s) PROVE Fit'
  BY <1>2a DEF Fit, SetBack
<1>2. ASSUME NEW s \in Signers, Enqueue(s) PROVE Fit'
  BY <1>2 DEF Fit, Enqueue
<1>3. CASE EnqueueOther
  BY <1>3 DEF Fit, EnqueueOther
<1>4. CASE End
  BY <1>4 DEF Fit, End
<1>5. CASE WindowPasses
  BY <1>5 DEF Fit, WindowPasses
<1>6. CASE CooldownPasses
  BY <1>6 DEF Fit, CooldownPasses
<1>7. ASSUME NEW d \in Dispatchers, Select(d) PROVE Fit'
  <2>1. PICK n \in Candidates(Scanned) :
          job' = [job EXCEPT ![d] = [at |-> "judging", note |-> n,
                                     retries |-> row[n].retries, scanned |-> Scanned]]
    BY <1>7 DEF Select
  <2>2. /\ job'[d].at = "judging" /\ job'[d].scanned = Scanned
        /\ \A e \in Dispatchers \ {d} : job'[e] = job[e]
    BY <2>1 DEF TypeOK
  <2>3. job'[d].note \in Scanned
    BY <2>1 DEF TypeOK, Candidates
  <2>. QED BY <2>2, <2>3 DEF Fit
<1>8. ASSUME NEW d \in Dispatchers, Judge(d) PROVE Fit'
  BY <1>8 DEF TypeOK, Fit, Judge, Fault, Decide, Go, GoFor
<1>9. ASSUME NEW d \in Dispatchers, Cancel(d) PROVE Fit'
  BY <1>9 DEF Fit, Cancel, Stop, Idle
<1>10. ASSUME NEW d \in Dispatchers, CheckThrottle(d) PROVE Fit'
  BY <1>10 DEF TypeOK, Fit, CheckThrottle, Read, Stop, Idle, Go, Throttled
<1>11. ASSUME NEW d \in Dispatchers, CheckSigner(d) PROVE Fit'
  BY <1>11 DEF TypeOK, Fit, Notices, CheckSigner, Stop, Idle, Go
<1>12. ASSUME NEW d \in Dispatchers, Send(d) PROVE Fit'
  BY <1>12 DEF TypeOK, Fit, Send, Fault, Disturb, Go, GoFor, flowVars, history
<1>13. ASSUME NEW d \in Dispatchers, RecordSent(d) PROVE Fit'
  BY <1>13 DEF Fit, RecordSent, Stop, Idle
<1>14. ASSUME NEW d \in Dispatchers, RecordFailure(d) PROVE Fit'
  BY <1>14 DEF Fit, RecordFailure, Stop, Idle
<1>15. ASSUME NEW d \in Dispatchers, RecordLimit(d) PROVE Fit'
  BY <1>15 DEF TypeOK, Fit, RecordLimit, Stop, Idle
<1>16. ASSUME NEW d \in Dispatchers, Kill(d) PROVE Fit'
  BY <1>16 DEF Fit, Kill, Stop, Idle
<1>17. CASE UNCHANGED vars
  BY <1>17 DEF Fit, vars
<1>18. QED
  BY <1>1, <1>2, <1>2a, <1>3, <1>4, <1>5, <1>6, <1>7, <1>8, <1>9, <1>10,
     <1>11, <1>12, <1>13, <1>14, <1>15, <1>16, <1>17
  DEF Next, Run

\* An invocation that has its answer from Resend has no more rows than before.
LEMMA SendHolds ==
  ASSUME TypeOK, Fit, NEW d \in Dispatchers, Send(d)
  PROVE  \A e \in Dispatchers : job'[e].scanned \subseteq job[e].scanned
<1>1. job[d].note \in job[d].scanned
  BY DEF Fit, Send
<1>2. ASSUME NEW step, GoFor(d, step) PROVE \A e \in Dispatchers : job'[e].scanned \subseteq job[e].scanned
  BY <1>1, <1>2 DEF TypeOK, GoFor
<1>3. ASSUME NEW step, Go(d, step) PROVE \A e \in Dispatchers : job'[e].scanned \subseteq job[e].scanned
  BY <1>3 DEF TypeOK, Go
<1>. QED BY <1>2, <1>3 DEF Send

\* A row two invocations have scanned is counted among the shared ones.
LEMMA AloneStep ==
  ASSUME TypeOK, Fit, Alone, [Next]_vars
  PROVE  Alone'
<1>1. ASSUME NEW s \in Signers, Leave(s) PROVE Alone'
  BY <1>1 DEF Alone, Leave, history
<1>2a. ASSUME NEW s \in Signers, SetBack(s) PROVE Alone'
  BY <1>2a DEF Alone, SetBack, history
<1>2. ASSUME NEW s \in Signers, Enqueue(s) PROVE Alone'
  BY <1>2 DEF Alone, Enqueue, history
<1>3. CASE EnqueueOther
  BY <1>3 DEF Alone, EnqueueOther, history
<1>4. CASE End
  BY <1>4 DEF Alone, End, history
<1>5. CASE WindowPasses
  BY <1>5 DEF Alone, WindowPasses
<1>6. CASE CooldownPasses
  BY <1>6 DEF Alone, CooldownPasses, history
<1>7. ASSUME NEW d \in Dispatchers, Select(d) PROVE Alone'
  <2>1. PICK n \in Candidates(Scanned) :
          job' = [job EXCEPT ![d] = [at |-> "judging", note |-> n,
                                     retries |-> row[n].retries, scanned |-> Scanned]]
    BY <1>7 DEF Select
  <2>2. /\ job'[d].at = "judging" /\ job'[d].scanned = Scanned
        /\ \A e \in Dispatchers \ {d} : job'[e] = job[e]
    BY <2>1 DEF TypeOK
  <2>3. \A k \in Notices \ shared', e \in Dispatchers \ {d} : ~(k \in Scanned /\ k \in job[e].scanned)
    BY <1>7 DEF Select, Disturb, Before
  <2>4. shared \subseteq shared'
    BY <1>7 DEF Select, Disturb
  <2>. QED BY <2>2, <2>3, <2>4 DEF Alone
<1>8. ASSUME NEW d \in Dispatchers, Judge(d) PROVE Alone'
  <2>1. \A e \in Dispatchers : job'[e].scanned \subseteq job[e].scanned
    <3>1. job[d].note \in job[d].scanned
      BY <1>8 DEF Fit, Judge
    <3>2. CASE Go(d, "throttling")
      BY <3>2 DEF TypeOK, Go
    <3>3. CASE GoFor(d, "cancelling")
      BY <3>1, <3>3 DEF TypeOK, GoFor
    <3>. QED BY <3>2, <3>3, <1>8 DEF Judge, Decide
  <2>. QED BY <2>1, <1>8 DEF Alone, Judge, history
<1>9. ASSUME NEW d \in Dispatchers, Cancel(d) PROVE Alone'
  BY <1>9 DEF Alone, Cancel, Stop, Idle, history
<1>10. ASSUME NEW d \in Dispatchers, CheckThrottle(d) PROVE Alone'
  BY <1>10 DEF TypeOK, Fit, Alone, Notices, Other, CheckThrottle, Stop, Idle, Go
<1>11. ASSUME NEW d \in Dispatchers, CheckSigner(d) PROVE Alone'
  BY <1>11 DEF TypeOK, Alone, Notices, Other, CheckSigner, Stop, Idle, Go, flowVars, history
<1>12. ASSUME NEW d \in Dispatchers, Send(d) PROVE Alone'
  <2>1. \A e \in Dispatchers : job'[e].scanned \subseteq job[e].scanned
    BY <1>12, SendHolds
  <2>2. shared \subseteq shared'
    BY <1>12 DEF Send, Mailed, Disturb, history
  <2>. QED BY <2>1, <2>2 DEF Alone
<1>13. ASSUME NEW d \in Dispatchers, RecordSent(d) PROVE Alone'
  BY <1>13 DEF Alone, RecordSent, Stop, Idle, history
<1>14. ASSUME NEW d \in Dispatchers, RecordFailure(d) PROVE Alone'
  BY <1>14 DEF Alone, RecordFailure, Stop, Idle, history
<1>15. ASSUME NEW d \in Dispatchers, RecordLimit(d) PROVE Alone'
  BY <1>15 DEF TypeOK, Alone, RecordLimit, Stop, Idle, history
<1>16. ASSUME NEW d \in Dispatchers, Kill(d) PROVE Alone'
  BY <1>16 DEF Alone, Kill, Stop, Idle, Disturb
<1>17. CASE UNCHANGED vars
  BY <1>17 DEF Alone, vars
<1>18. QED
  BY <1>1, <1>2, <1>2a, <1>3, <1>4, <1>5, <1>6, <1>7, <1>8, <1>9, <1>10,
     <1>11, <1>12, <1>13, <1>14, <1>15, <1>16, <1>17
  DEF Next, Run

\* A row is pending as long as one invocation alone has it before it: only that
\* one writes it.
LEMMA PendingStep ==
  ASSUME TypeOK, Fit, Alone, HeldPending, [Next]_vars
  PROVE  HeldPending'
<1>1. ASSUME NEW s \in Signers, Leave(s) PROVE HeldPending'
  BY <1>1 DEF HeldPending, Leave, history
<1>2a. ASSUME NEW s \in Signers, SetBack(s) PROVE HeldPending'
  BY <1>2a DEF HeldPending, SetBack, history
<1>2. ASSUME NEW s \in Signers, Enqueue(s) PROVE HeldPending'
  BY <1>2 DEF HeldPending, Enqueue, history
<1>3. CASE EnqueueOther
  BY <1>3 DEF HeldPending, EnqueueOther, history
<1>4. CASE End
  BY <1>4 DEF HeldPending, End, history
<1>5. CASE WindowPasses
  BY <1>5 DEF HeldPending, WindowPasses
<1>6. CASE CooldownPasses
  BY <1>6 DEF HeldPending, CooldownPasses, history
<1>7. ASSUME NEW d \in Dispatchers, Select(d) PROVE HeldPending'
  <2>1. PICK n \in Candidates(Scanned) :
          job' = [job EXCEPT ![d] = [at |-> "judging", note |-> n,
                                     retries |-> row[n].retries, scanned |-> Scanned]]
    BY <1>7 DEF Select
  <2>2. /\ job'[d].at = "judging" /\ job'[d].scanned = Scanned
        /\ \A e \in Dispatchers \ {d} : job'[e] = job[e]
    BY <2>1 DEF TypeOK
  <2>3. UNCHANGED row /\ shared \subseteq shared'
    BY <1>7 DEF Select, Disturb
  <2>. QED BY <2>2, <2>3 DEF HeldPending, Scanned
<1>8. ASSUME NEW d \in Dispatchers, Judge(d) PROVE HeldPending'
  BY <1>8 DEF TypeOK, Alone, HeldPending, Judge, Fault, Decide, Go, GoFor, history
<1>9. ASSUME NEW d \in Dispatchers, Cancel(d) PROVE HeldPending'
  BY <1>9 DEF TypeOK, Fit, Alone, HeldPending, Cancel, Stop, Idle, history
<1>10. ASSUME NEW d \in Dispatchers, CheckThrottle(d) PROVE HeldPending'
  BY <1>10 DEF TypeOK, Fit, HeldPending, Notices, CheckThrottle, Stop, Idle, Go
<1>11. ASSUME NEW d \in Dispatchers, CheckSigner(d) PROVE HeldPending'
  BY <1>11 DEF TypeOK, HeldPending, Notices, Other, CheckSigner, Read, Stop, Idle, Go, flowVars, history
<1>12. ASSUME NEW d \in Dispatchers, Send(d) PROVE HeldPending'
  <2>1. \A e \in Dispatchers : job'[e].scanned \subseteq job[e].scanned
    BY <1>12, SendHolds
  <2>2. UNCHANGED row /\ shared \subseteq shared'
    BY <1>12 DEF Send, Mailed, Disturb, history
  <2>. QED BY <2>1, <2>2 DEF HeldPending
<1>13. ASSUME NEW d \in Dispatchers, RecordSent(d) PROVE HeldPending'
  BY <1>13 DEF TypeOK, Fit, Alone, HeldPending, RecordSent, Stop, Idle, history
<1>14. ASSUME NEW d \in Dispatchers, RecordFailure(d) PROVE HeldPending'
  <2>1. job[d].note \in job[d].scanned /\ UNCHANGED shared
    BY <1>14 DEF Fit, RecordFailure, history
  <2>2. job'[d].scanned = {} /\ \A e \in Dispatchers \ {d} : job'[e] = job[e]
    BY <1>14 DEF TypeOK, RecordFailure, Stop, Idle
  <2>3. \A n \in Notices : n # job[d].note => row'[n] = row[n]
    BY <1>14 DEF TypeOK, RecordFailure
  <2>. QED BY <2>1, <2>2, <2>3 DEF HeldPending, Alone
<1>15. ASSUME NEW d \in Dispatchers, RecordLimit(d) PROVE HeldPending'
  BY <1>15 DEF TypeOK, HeldPending, RecordLimit, Stop, Idle, history
<1>16. ASSUME NEW d \in Dispatchers, Kill(d) PROVE HeldPending'
  BY <1>16 DEF HeldPending, Kill, Stop, Idle, Disturb
<1>17. CASE UNCHANGED vars
  BY <1>17 DEF HeldPending, vars
<1>18. QED
  BY <1>1, <1>2, <1>2a, <1>3, <1>4, <1>5, <1>6, <1>7, <1>8, <1>9, <1>10,
     <1>11, <1>12, <1>13, <1>14, <1>15, <1>16, <1>17
  DEF Next, Run

\* A mail of a row not shared is recorded in it, or by the next step of its
\* invocation; the row is not pending then, or held, so no other mails it.
LEMMA MailsStep ==
  ASSUME TypeOK, OnceInv, [Next]_vars
  PROVE  MailsRecorded'
<1>1. ASSUME NEW s \in Signers, Leave(s) PROVE MailsRecorded'
  BY <1>1 DEF OnceInv, MailsRecorded, Leave, history
<1>2a. ASSUME NEW s \in Signers, SetBack(s) PROVE MailsRecorded'
  BY <1>2a DEF OnceInv, MailsRecorded, SetBack, history
<1>2. ASSUME NEW s \in Signers, Enqueue(s) PROVE MailsRecorded'
  BY <1>2 DEF OnceInv, MailsRecorded, Enqueue, history
<1>3. CASE EnqueueOther
  BY <1>3 DEF OnceInv, MailsRecorded, EnqueueOther, history
<1>4. CASE End
  BY <1>4 DEF OnceInv, MailsRecorded, End, history
<1>5. CASE WindowPasses
  BY <1>5 DEF OnceInv, MailsRecorded, WindowPasses
<1>6. CASE CooldownPasses
  BY <1>6 DEF OnceInv, MailsRecorded, CooldownPasses, history
<1>7. ASSUME NEW d \in Dispatchers, Select(d) PROVE MailsRecorded'
  <2>1. PICK n \in Candidates(Scanned) :
          job' = [job EXCEPT ![d] = [at |-> "judging", note |-> n,
                                     retries |-> row[n].retries, scanned |-> Scanned]]
    BY <1>7 DEF Select
  <2>2. /\ job'[d].at = "judging" /\ job'[d].scanned = Scanned
        /\ \A e \in Dispatchers \ {d} : job'[e] = job[e]
    BY <2>1 DEF TypeOK
  <2>3. \A k \in Notices \ shared' : k \notin shared /\ mails'[k] = mails[k]
    BY <1>7 DEF TypeOK, Select, Disturb
  <2>4. UNCHANGED row /\ job[d].at = "idle"
    BY <1>7 DEF Select
  <2>. QED BY <2>2, <2>3, <2>4 DEF OnceInv, MailsRecorded
<1>8. ASSUME NEW d \in Dispatchers, Judge(d) PROVE MailsRecorded'
  BY <1>8 DEF TypeOK, OnceInv, HeldPending, MailsRecorded, Judge, Decide, Go, GoFor, history
<1>9. ASSUME NEW d \in Dispatchers, Cancel(d) PROVE MailsRecorded'
  BY <1>9 DEF TypeOK, OnceInv, Fit, HeldPending, MailsRecorded, Cancel, Stop, history
<1>10. ASSUME NEW d \in Dispatchers, CheckThrottle(d) PROVE MailsRecorded'
  BY <1>10 DEF TypeOK, OnceInv, MailsRecorded, CheckThrottle, Stop, Idle, Go
<1>11. ASSUME NEW d \in Dispatchers, CheckSigner(d) PROVE MailsRecorded'
  BY <1>11 DEF TypeOK, OnceInv, Alone, MailsRecorded, CheckSigner, Stop, Go, history
<1>12. ASSUME NEW d \in Dispatchers, Send(d) PROVE MailsRecorded'
  <2>1. job[d].at = "sending" /\ job[d].note \in Notices /\ job[d].note \in job[d].scanned /\ UNCHANGED row
    BY <1>12 DEF TypeOK, OnceInv, Fit, Send
  <2>2. \A e \in Dispatchers : e # d => job'[e] = job[e]
    BY <1>12 DEF TypeOK, Send, Go, GoFor
  <2>3. \A n \in Notices \ shared : job[d].note = n => mails[n] = 0
    BY <2>1 DEF OnceInv, MailsRecorded, Fit, Alone, HeldPending
  <2>4. CASE Mailed(d) /\ GoFor(d, "sent")
    <3>1. job'[d].at = "sent" /\ job'[d].note = job[d].note
      BY <2>4 DEF TypeOK, GoFor
    <3>2. UNCHANGED shared
      BY <2>4 DEF Mailed
    <3>3. ASSUME NEW n \in Notices \ shared, n = job[d].note PROVE mails'[n] = 1
      BY <2>3, <2>4, <3>3 DEF TypeOK, Mailed, Count
    <3>4. ASSUME NEW n \in Notices \ shared, n # job[d].note PROVE mails'[n] = mails[n]
      BY <2>4, <3>4 DEF TypeOK, Mailed
    <3>. QED BY <2>1, <2>2, <3>1, <3>2, <3>3, <3>4 DEF OnceInv, MailsRecorded
  <2>5. CASE Disturb({job[d].note})
    <3>1. \A n \in Notices \ shared' : n \notin shared /\ n # job[d].note /\ mails'[n] = mails[n]
      BY <2>5 DEF TypeOK, Disturb
    <3>. QED BY <2>1, <2>2, <3>1 DEF OnceInv, MailsRecorded
  <2>6. CASE UNCHANGED history
    BY <2>1, <2>2, <2>6 DEF OnceInv, MailsRecorded, history
  <2>. QED BY <2>4, <2>5, <2>6, <1>12 DEF Send
<1>13. ASSUME NEW d \in Dispatchers, RecordSent(d) PROVE MailsRecorded'
  BY <1>13 DEF TypeOK, OnceInv, MailsRecorded, RecordSent, Stop, history
<1>14. ASSUME NEW d \in Dispatchers, RecordFailure(d) PROVE MailsRecorded'
  BY <1>14 DEF OnceInv, Fit, HeldPending, MailsRecorded, RecordFailure, Stop, history
<1>15. ASSUME NEW d \in Dispatchers, RecordLimit(d) PROVE MailsRecorded'
  BY <1>15 DEF TypeOK, OnceInv, HeldPending, MailsRecorded, RecordLimit, Stop, history
<1>16. ASSUME NEW d \in Dispatchers, Kill(d) PROVE MailsRecorded'
  BY <1>16 DEF OnceInv, MailsRecorded, Kill, Stop, Disturb
<1>17. CASE UNCHANGED vars
  BY <1>17 DEF OnceInv, MailsRecorded, vars
<1>18. QED
  BY <1>1, <1>2, <1>2a, <1>3, <1>4, <1>5, <1>6, <1>7, <1>8, <1>9, <1>10,
     <1>11, <1>12, <1>13, <1>14, <1>15, <1>16, <1>17
  DEF Next, Run

\* In a window without overlap the throttle sees the mail before the next one.
LEMMA WindowStep ==
  ASSUME TypeOK, Fit, WindowInv, [Next]_vars
  PROVE  WindowInv'
<1>1. ASSUME NEW s \in Signers, Leave(s) PROVE WindowInv'
  BY <1>1 DEF WindowInv, Scanned, Throttled, Leave, history
<1>2a. ASSUME NEW s \in Signers, SetBack(s) PROVE WindowInv'
  BY <1>2a DEF WindowInv, Scanned, Throttled, SetBack, history
<1>2. ASSUME NEW s \in Signers, Enqueue(s) PROVE WindowInv'
  BY <1>2 DEF WindowInv, Scanned, Throttled, Enqueue, history
<1>3. CASE EnqueueOther
  BY <1>3 DEF WindowInv, Scanned, Throttled, EnqueueOther, history
<1>4. CASE End
  BY <1>4 DEF WindowInv, Scanned, Throttled, End, history
<1>5. CASE WindowPasses
  BY <1>5 DEF Fit, WindowInv, WindowPasses
<1>6. CASE CooldownPasses
  BY <1>6 DEF WindowInv, Scanned, Throttled, CooldownPasses, history
<1>7. ASSUME NEW d \in Dispatchers, Select(d) PROVE WindowInv'
  <2>1. PICK n \in Candidates(Scanned) :
          job' = [job EXCEPT ![d] = [at |-> "judging", note |-> n,
                                     retries |-> row[n].retries, scanned |-> Scanned]]
    BY <1>7 DEF Select
  <2>2. /\ job'[d].at = "judging" /\ job'[d].scanned = Scanned
        /\ \A e \in Dispatchers \ {d} : job'[e] = job[e]
    BY <2>1 DEF TypeOK
  <2>3. UNCHANGED <<row, fresh>> /\ job[d].at = "idle"
    BY <1>7 DEF Select
  <2>4. ASSUME ~rough' PROVE ~rough /\ Scanned \cap Before(d) = {} /\ UNCHANGED burst
    BY <2>4, <1>7 DEF TypeOK, Select, Disturb
  <2>5. ASSUME ~rough', NEW e \in Dispatchers PROVE job[e].at = "idle"
    <3>1. SUFFICES ASSUME job[e].at # "idle" PROVE FALSE
      OBVIOUS
    <3>2. e # d /\ job[e].note \in job[e].scanned
      BY <2>3, <3>1 DEF Fit
    <3>3. job[e].note \in Scanned
      BY <2>4, <2>5, <3>2 DEF WindowInv
    <3>. QED BY <2>4, <2>5, <3>2, <3>3 DEF Before
  <2>. QED BY <2>2, <2>3, <2>4, <2>5 DEF WindowInv, Throttled, Scanned
<1>8. ASSUME NEW d \in Dispatchers, Judge(d) PROVE WindowInv'
  BY <1>8 DEF TypeOK, Fit, WindowInv, Scanned, Throttled, Notices, Judge, Fault, Decide, Go, GoFor, history
<1>9. ASSUME NEW d \in Dispatchers, Cancel(d) PROVE WindowInv'
  BY <1>9 DEF TypeOK, Fit, WindowInv, Scanned, Throttled, Cancel, Stop, Idle, history
<1>10. ASSUME NEW d \in Dispatchers, CheckThrottle(d) PROVE WindowInv'
  <2>1. SUFFICES ASSUME ~rough' PROVE WindowInv'
    BY DEF WindowInv
  <2>2. ~rough /\ UNCHANGED <<burst, row, fresh>> /\ job[d].at = "throttling"
    BY <2>1, <1>10 DEF TypeOK, CheckThrottle
  <2>3. \A e \in Dispatchers : e # d => job'[e] = job[e]
    BY <1>10 DEF TypeOK, CheckThrottle, Stop, Go
  <2>4. \A e \in Dispatchers : e # d => job[e].at = "idle"
    BY <2>2 DEF WindowInv
  <2>5. CASE Throttled /\ Stop(d)
    <3>1. job'[d].at = "idle" /\ job'[d].scanned = {}
      BY <2>5 DEF TypeOK, Stop, Idle
    <3>2. \A e \in Dispatchers : job'[e].at = "idle" /\ job'[e].scanned = {}
      BY <2>3, <2>4, <3>1 DEF Fit
    <3>3. burst' = 0 \/ (burst' = 1 /\ Throttled')
      BY <2>2, <2>5, <2>4 DEF WindowInv, Throttled
    <3>. QED BY <3>2, <3>3 DEF WindowInv
  <2>6. CASE ~Throttled /\ Go(d, "checking")
    <3>1. job'[d].at = "checking" /\ job'[d].scanned = job[d].scanned
      BY <2>6 DEF TypeOK, Go
    <3>2. burst = 0
      BY <2>2, <2>4, <2>6 DEF WindowInv
    <3>. QED BY <2>2, <2>3, <2>4, <3>1, <3>2 DEF WindowInv, Scanned
  <2>. QED BY <2>1, <2>5, <2>6, <1>10 DEF CheckThrottle
<1>11. ASSUME NEW d \in Dispatchers, CheckSigner(d) PROVE WindowInv'
  BY <1>11 DEF TypeOK, WindowInv, Scanned, Notices, Other, CheckSigner, Stop, Idle, Go, history
<1>12. ASSUME NEW d \in Dispatchers, Send(d) PROVE WindowInv'
  <2>1. SUFFICES ASSUME ~rough' PROVE WindowInv'
    BY DEF WindowInv
  <2>2. UNCHANGED <<row, fresh>> /\ job[d].at = "sending" /\ job[d].note \in job[d].scanned
    BY <1>12 DEF Fit, Send
  <2>3. ~rough
    BY <2>1, <1>12 DEF TypeOK, Send, Mailed, Disturb, history
  <2>4. \A e \in Dispatchers : e # d => job'[e] = job[e] /\ job[e].at = "idle" /\ job[e].scanned = {}
    <3>1. \A e \in Dispatchers : e # d => job'[e] = job[e]
      BY <1>12 DEF TypeOK, Send, Go, GoFor
    <3>. QED BY <2>2, <2>3, <3>1 DEF WindowInv, Fit
  <2>5. burst = 0 /\ \A n \in job[d].scanned : n \in Scanned
    BY <2>2, <2>3 DEF WindowInv
  <2>6. CASE Mailed(d) /\ GoFor(d, "sent")
    <3>1. burst' = 1
      BY <2>3, <2>5, <2>6 DEF Mailed, Count
    <3>2. job'[d].at = "sent" /\ job'[d].scanned \subseteq job[d].scanned
      BY <2>2, <2>6 DEF TypeOK, GoFor
    <3>. QED BY <2>2, <2>4, <2>5, <3>1, <3>2 DEF WindowInv, Scanned
  <2>7. CASE Disturb({job[d].note})
    BY <2>1, <2>7 DEF Disturb
  <2>8. CASE UNCHANGED history /\ GoFor(d, "failed")
    <3>1. job'[d].at = "failed" /\ job'[d].scanned \subseteq job[d].scanned
      BY <2>2, <2>8 DEF TypeOK, GoFor
    <3>. QED BY <2>2, <2>4, <2>5, <2>8, <3>1 DEF WindowInv, Scanned, history
  <2>9. CASE UNCHANGED history /\ Go(d, "limited")
    <3>1. job'[d].at = "limited" /\ job'[d].scanned = job[d].scanned
      BY <2>9 DEF TypeOK, Go
    <3>. QED BY <2>2, <2>4, <2>5, <2>9, <3>1 DEF WindowInv, Scanned, history
  <2>. QED BY <2>6, <2>7, <2>8, <2>9, <1>12 DEF Send
<1>13. ASSUME NEW d \in Dispatchers, RecordSent(d) PROVE WindowInv'
  BY <1>13 DEF TypeOK, Fit, WindowInv, Throttled, RecordSent, Stop, Idle, history
<1>14. ASSUME NEW d \in Dispatchers, RecordFailure(d) PROVE WindowInv'
  BY <1>14 DEF TypeOK, Fit, WindowInv, Scanned, Throttled, RecordFailure, Stop, Idle, history
<1>15. ASSUME NEW d \in Dispatchers, RecordLimit(d) PROVE WindowInv'
  <2>1. SUFFICES ASSUME ~rough PROVE WindowInv'
    BY <1>15 DEF WindowInv, RecordLimit, history
  <2>2. job'[d].at = "idle" /\ job'[d].scanned = {}
    BY <1>15 DEF TypeOK, RecordLimit, Stop, Idle
  <2>3. \A e \in Dispatchers : e # d => job'[e] = job[e] /\ job[e].at = "idle" /\ job[e].scanned = {}
    <3>1. \A e \in Dispatchers : e # d => job'[e] = job[e]
      BY <1>15 DEF TypeOK, RecordLimit, Stop
    <3>2. job[d].at # "idle"
      BY <1>15 DEF RecordLimit
    <3>. QED BY <2>1, <3>1, <3>2 DEF WindowInv, Fit
  <2>4. \A n \in Notices : row[n].status = "sent" => row'[n] = row[n]
    BY <2>1, <1>15 DEF TypeOK, RecordLimit, WindowInv, Scanned
  <2>5. UNCHANGED <<burst, rough>> /\ job[d].at = "limited"
    BY <1>15 DEF RecordLimit, history
  <2>6. Throttled => Throttled'
    <3>1. \A n \in job[d].scanned : row[n].status = "pending"
      BY <2>1 DEF WindowInv, Scanned
    <3>. QED BY <2>4, <3>1, <1>15 DEF TypeOK, RecordLimit, Throttled
  <2>. QED BY <2>1, <2>2, <2>3, <2>5, <2>6 DEF WindowInv
<1>16. ASSUME NEW d \in Dispatchers, Kill(d) PROVE WindowInv'
  BY <1>16 DEF TypeOK, WindowInv, Scanned, Throttled, Kill, Stop, Idle, Disturb
<1>17. CASE UNCHANGED vars
  BY <1>17 DEF WindowInv, Scanned, Throttled, vars
<1>18. QED
  BY <1>1, <1>2, <1>2a, <1>3, <1>4, <1>5, <1>6, <1>7, <1>8, <1>9, <1>10,
     <1>11, <1>12, <1>13, <1>14, <1>15, <1>16, <1>17
  DEF Next, Run

\* No step but one of an invocation that has the row before it, pending, writes
\* a status: what is settled and not shared stays.
LEMMA SettledStep ==
  ASSUME TypeOK, Fit, HeldPending, [Next]_vars, NEW n \in Notices \ shared,
         row[n].status \in {"sent", "failed", "cancelled"}
  PROVE  row'[n].status = row[n].status
<1> DEFINE Stays == row'[n].status = row[n].status
<1>1. \A d \in Dispatchers : n \notin job[d].scanned
  BY DEF HeldPending
<1>2. \A d \in Dispatchers : job[d].at # "idle" => n # job[d].note
  BY <1>1 DEF Fit
<1>3. ASSUME NEW s \in Signers, Enqueue(s) PROVE Stays
  BY <1>3 DEF Enqueue
<1>4. CASE EnqueueOther
  BY <1>4 DEF EnqueueOther
<1>5. CASE CooldownPasses
  BY <1>5 DEF CooldownPasses
<1>6. ASSUME NEW d \in Dispatchers, Cancel(d) PROVE Stays
  BY <1>2, <1>6 DEF TypeOK, Cancel
<1>7. ASSUME NEW d \in Dispatchers, RecordSent(d) PROVE Stays
  BY <1>2, <1>7 DEF TypeOK, RecordSent
<1>8. ASSUME NEW d \in Dispatchers, RecordFailure(d) PROVE Stays
  BY <1>2, <1>8 DEF TypeOK, RecordFailure
<1>9. ASSUME NEW d \in Dispatchers, RecordLimit(d) PROVE Stays
  BY <1>1, <1>9 DEF TypeOK, RecordLimit
<1>10. CASE UNCHANGED row
  BY <1>10
<1>. QED
  BY <1>3, <1>4, <1>5, <1>6, <1>7, <1>8, <1>9, <1>10
  DEF Next, Run, Leave, SetBack, End, WindowPasses, Select, Judge, CheckThrottle, CheckSigner, Send,
      Kill, vars, flowVars

-----------------------------------------------------------------------------
\* What start-signature-workflow leaves satisfies the types and the invariants.
LEMMA Start ==
  ASSUME Init
  PROVE  TypeOK /\ OnceInv /\ WindowInv
<1>1. Absent \in Rows /\ Enqueued \in Rows /\ Idle \in Calls
  <2>1. 0 \in 0 .. MaxRetries
    BY OutboxAssumption
  <2>. QED BY <2>1, EnqueuedRow, IdleCall DEF Absent, Rows
<1>2. job = [d \in Dispatchers |-> Idle]
  BY DEF Init
<1>3. TypeOK
  <2>1. row \in [Notices -> Rows] /\ job \in [Dispatchers -> Calls]
    BY <1>1 DEF Init
  <2>2. turn \in [Signers -> {"waiting", "ready", "past"}]
    BY DEF Init
  <2>3. mails \in [Notices -> 0 .. 2] /\ burst \in 0 .. 2
    BY DEF Init
  <2>4. faults \in 0 .. MaxFaults
    BY OutboxAssumption DEF Init
  <2>5. active \in BOOLEAN /\ rough \in BOOLEAN /\ fresh \subseteq Notices /\ shared \subseteq Notices
    BY DEF Init
  <2>. QED BY <2>1, <2>2, <2>3, <2>4, <2>5 DEF TypeOK, Rows, Calls
<1>4. OnceInv
  BY <1>2 DEF OnceInv, Fit, Alone, HeldPending, MailsRecorded, Init, Idle
<1>5. WindowInv
  BY <1>2 DEF WindowInv, Init, Idle
<1>. QED BY <1>3, <1>4, <1>5

\* Statuses, retry counts within MAX_RETRIES and the steps of an invocation are
\* what the code names, in every reachable state.
THEOREM TypeCorrect == Spec => []TypeOK
<1>1. Init => TypeOK
  BY Start
<1>2. TypeOK /\ [Next]_vars => TypeOK'
  BY TypeStep
<1>. QED BY <1>1, <1>2, PTL DEF Spec

\* What the invocations hold, all together.
THEOREM HoldsInvariant == Spec => []OnceInv
<1>1. Init => OnceInv
  BY Start
<1>2. TypeOK /\ OnceInv /\ [Next]_vars => OnceInv'
  BY FitStep, AloneStep, PendingStep, MailsStep DEF OnceInv
<1>. QED BY <1>1, <1>2, TypeCorrect, PTL DEF Spec

\* A notice is mailed once, unless two invocations of send-pending-emails had it
\* before them, or its mail went unrecorded.
THEOREM NoticeIsMailedOnce == Spec => []OneMailPerNotice
<1>1. OnceInv => OneMailPerNotice
  BY DEF OnceInv, MailsRecorded, OneMailPerNotice
<1>. QED BY <1>1, HoldsInvariant, PTL

\* What is sent, failed or cancelled and not shared is never set back, a 429 of
\* the mail provider included.
THEOREM SettledForGood == Spec => SettledStays
<1> DEFINE Stays == \A n \in Notices \ shared :
      row[n].status \in {"sent", "failed", "cancelled"} => row'[n].status = row[n].status
<1>1. TypeOK /\ OnceInv /\ [Next]_vars => [Stays]_vars
  BY SettledStep DEF OnceInv
<1>. QED BY <1>1, TypeCorrect, HoldsInvariant, PTL DEF Spec, SettledStays

\* isWorkflowThrottled keeps the mails of a workflow apart, as long as no
\* invocations overlap, no mail goes unrecorded and sent_at can be read.
THEOREM OneMailInAWindow == Spec => []OneMailPerWindow
<1>1. Init => WindowInv
  BY Start
<1>2. TypeOK /\ OnceInv /\ WindowInv /\ [Next]_vars => WindowInv'
  BY WindowStep DEF OnceInv
<1>3. WindowInv => OneMailPerWindow
  BY DEF WindowInv, OneMailPerWindow
<1>. QED BY <1>1, <1>2, <1>3, TypeCorrect, HoldsInvariant, PTL DEF Spec
=============================================================================
