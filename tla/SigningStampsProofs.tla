------------------------ MODULE SigningStampsProofs ------------------------
(***************************************************************************)
(* In a sequential workflow no stamp is lost, for every number of signers, *)
(* tabs, faults and lapses and everything the owner may do, for as long as *)
(* nobody who has signed is set back to ready.                             *)
(*                                                                         *)
(* No lock spans two signers.  What keeps them apart is one baton: it is   *)
(* with the signer who is asked, or with the call that has put his         *)
(* signature on record and has still to ask the next one (OneAsked).  The  *)
(* lock keeps the tabs of that signer apart (OneWriter), a cancellation    *)
(* which takes it from him included: from then on nobody claims.           *)
(***************************************************************************)
EXTENDS SigningWorkflowProofs

Finishing == {"attesting", "clearing", "advancing"}
Opened(t) == tab[t].at \notin {"closed", "expiring"}
Cancelled == "workflow.cancelled" \in milestones
Calm == sequential /\ \A s \in Signers : s \in signed => latest[s] = "signed"

\* Something of a signer's is still to come, even if his link has expired.
Engaged(s) ==
  \/ \E t \in Tabs : TabOf[t] = s /\ Opened(t)
  \/ change[s] = "pending"
  \/ owner.at = "answering" /\ owner.of = s

Asked(s) == latest[s] \notin {"none", "signed"} /\ (latest[s] = "expired" => Engaged(s))

EngagedIfAsked == sequential => \A s \in Signers : Engaged(s) => latest[s] # "none"

RevokesCancelled == owner.at = "revoking" => Cancelled

OneAsked ==
  /\ \A r, s \in Signers : Asked(r) /\ Asked(s) => r = s
  /\ \A t, u \in Tabs : tab[t].at \in Finishing /\ tab[u].at \in Finishing => t = u
  /\ \A s \in Signers, t \in Tabs : ~(Asked(s) /\ tab[t].at \in Finishing)

OneWriter ==
  /\ \A t, u \in Tabs : tab[t].at \in Writing /\ tab[u].at \in Writing => t = u
  /\ \A t \in Tabs : tab[t].at \in Writing =>
       TabOf[t] \notin signed /\ (lock[TabOf[t]] = Held(t) \/ Cancelled)
  /\ \A t \in Tabs : tab[t].at = "repairing" => tab[t].was = "signed"

\* What a writer has, from the stamp on his copy to his signature.
CopiesHold == \A t \in Tabs :
  /\ tab[t].at \in {"uploading", "witnessing"} => signed \cup {TabOf[t]} \subseteq tab[t].copy
  /\ tab[t].at \in {"witnessing", "signing"} => TabOf[t] \in pdf
  /\ tab[t].at = "signing" => TabOf[t] \in witness

FilesHold == OneWriter /\ CopiesHold /\ StampsAreKept

StampInv ==
  /\ EngagedIfAsked /\ RevokesCancelled
  /\ Calm => OneAsked /\ FilesHold
-----------------------------------------------------------------------------
\* A step that asks nobody: events of those only who are asked already, and
\* no call that has something to finish but those there were.
TurnsStay ==
  /\ UNCHANGED <<sequential, signed>>
  /\ sequential => \A s \in Signers : Engaged(s)' => Engaged(s) \/ latest[s] \notin {"none", "expired"}
  /\ \A s \in Signers : latest'[s] # latest[s] =>
       latest'[s] \notin {"none", "signed"} /\ (Engaged(s) \/ latest'[s] = "expired")
  /\ Calm => \A t \in Tabs : tab'[t].at \in Finishing => tab[t].at \in Finishing

\* A step that leaves the files and those who write them alone.
FilesStay ==
  /\ UNCHANGED <<signed, files>>
  /\ Calm => \A t \in Tabs :
       /\ tab'[t].at \in Writing =>
            tab'[t] = tab[t] /\ (lock[TabOf[t]] = Held(t) => lock'[TabOf[t]] = Held(t) \/ Cancelled')
       /\ tab'[t].at = "repairing" => tab'[t].was = "signed"

\* The status of a signer who has signed is that of his latest event.
LEMMA CalmIs == ASSUME TypeOK PROVE Calm <=> sequential /\ SignedStaysSigned
  BY DEF TypeOK, Calm, SignedStaysSigned, Status, Projected, Terminal

\* Nobody is asked by a step of the first kind.
LEMMA TurnsStayOne ==
  ASSUME Inv, StampInv, TurnsStay
  PROVE  EngagedIfAsked' /\ (Calm' => Calm /\ OneAsked')
<1> USE DEF TurnsStay, StampInv
<1>1. EngagedIfAsked' BY DEF EngagedIfAsked
<1>2. Calm' => Calm BY DEF Calm
<1>3. ASSUME Calm', NEW s \in Signers, Asked(s)' PROVE Asked(s)
  <2>1. latest[s] # "signed"
    <3>1. latest[s] = "signed" => s \in signed' /\ latest'[s] = "signed"
      BY <1>3 DEF Inv, Logged, Calm
    <3>2. QED BY <1>3, <3>1 DEF Asked
  <2>2. CASE latest'[s] = latest[s] BY <1>3, <2>2 DEF Asked, Calm
  <2>3. CASE latest'[s] # latest[s] /\ Engaged(s)
    <3>1. latest[s] # "none" BY <1>3, <2>3 DEF EngagedIfAsked, Calm
    <3>2. QED BY <2>1, <2>3, <3>1 DEF Asked
  <2>4. CASE latest'[s] = "expired" /\ ~Engaged(s) BY <1>3, <2>1, <2>4 DEF Asked, Calm
  <2>5. QED BY <2>2, <2>3, <2>4
<1>4. Calm' => OneAsked' BY <1>2, <1>3 DEF OneAsked
<1>5. QED BY <1>1, <1>2, <1>4

\* No file is touched by a step of the second kind.
LEMMA FilesStayHeld ==
  ASSUME StampInv, Calm, FilesStay, Cancelled => Cancelled'
  PROVE  FilesHold'
<1> USE DEF StampInv, FilesStay, FilesHold, files
<1>1. OneWriter' BY DEF OneWriter
<1>2. CopiesHold' BY DEF CopiesHold, Writing
<1>3. StampsAreKept' BY DEF StampsAreKept
<1>4. QED BY <1>1, <1>2, <1>3

\* Both together.
LEMMA Aside ==
  ASSUME Inv, StampInv, TurnsStay, FilesStay, Cancelled => Cancelled', RevokesCancelled'
  PROVE  StampInv'
  BY TurnsStayOne, FilesStayHeld DEF StampInv
-----------------------------------------------------------------------------
\* What a step does around the move of a tab: it signs nothing, touches no
\* file, and has events of the tab's signer only.
Around(t) ==
  /\ UNCHANGED <<sequential, signed, files, owner>>
  /\ Cancelled => Cancelled'
  /\ \A s \in Signers : change'[s] = "pending" => change[s] = "pending" \/ Engaged(s)
  /\ \A s \in Signers : latest'[s] # latest[s] =>
       latest'[s] \notin {"none", "signed"} /\ (Engaged(s) \/ latest'[s] = "expired")
  /\ Calm => \A u \in Tabs : u # t /\ tab[u].at \in Writing /\ lock[TabOf[u]] = Held(u) =>
       lock'[TabOf[u]] = Held(u)

\* A tab that moves to a place where nothing is written or left to finish.
LEMMA MoveAside ==
  ASSUME Inv, StampInv, NEW t \in Tabs, NEW rec \in Records, tab' = [tab EXCEPT ![t] = rec], Around(t),
         sequential => \/ Opened(t) \/ latest[TabOf[t]] \notin {"none", "expired"}
                       \/ rec.at \in {"closed", "expiring"},
         Calm => /\ rec.at \notin Writing
                 /\ rec.at = "repairing" => rec.was = "signed"
                 /\ rec.at \in Finishing => tab[t].at \in Finishing
  PROVE  StampInv'
<1> USE SigningAssumption DEF Around
<1>1. tab \in [Tabs -> Records] /\ TypeOK BY DEF Inv, TypeOK, Records
<1>2. \A u \in Tabs : tab'[u] = IF u = t THEN rec ELSE tab[u] BY <1>1
<1>3. sequential => \A s \in Signers : Engaged(s)' => Engaged(s) \/ latest[s] \notin {"none", "expired"}
  <2> SUFFICES ASSUME sequential, NEW s \in Signers, Engaged(s)'
               PROVE  Engaged(s) \/ latest[s] \notin {"none", "expired"}
    OBVIOUS
  <2>1. CASE \E u \in Tabs : TabOf[u] = s /\ Opened(u)' BY <1>2, <2>1 DEF Engaged, Opened
  <2>2. CASE change'[s] = "pending" BY <2>2 DEF Engaged
  <2>3. CASE owner'.at = "answering" /\ owner'.of = s BY <2>3 DEF Engaged
  <2>4. QED BY <2>1, <2>2, <2>3 DEF Engaged
<1>4. TurnsStay BY <1>2, <1>3 DEF TurnsStay
<1>5. FilesStay BY <1>2 DEF FilesStay, StampInv, FilesHold, OneWriter
<1>6. RevokesCancelled' BY DEF StampInv, RevokesCancelled
<1>7. QED BY <1>4, <1>5, <1>6, Aside

\* The same for a tab that only moves on.
LEMMA GoAside ==
  ASSUME Inv, StampInv, NEW t \in Tabs, NEW step \in Places, Go(t, step), Around(t),
         sequential => \/ Opened(t) \/ latest[TabOf[t]] \notin {"none", "expired"}
                       \/ step \in {"closed", "expiring"},
         Calm => step \notin Writing \cup {"repairing"} /\ (step \in Finishing => tab[t].at \in Finishing)
  PROVE  StampInv'
<1> DEFINE rec == [tab[t] EXCEPT !.at = step]
<1>1. tab \in [Tabs -> Records] BY DEF Inv, TypeOK, Records
<1>2. rec \in Records /\ tab' = [tab EXCEPT ![t] = rec] /\ rec.at = step BY <1>1 DEF Records, Go
<1> HIDE DEF rec
<1>3. QED BY <1>2, MoveAside

\* A step of an open tab without an event.
LEMMA StillAround ==
  ASSUME TypeOK, NEW t \in Tabs, UNCHANGED <<sequential, log, files, owner, lock>>,
         \A s \in Signers : change'[s] = "pending" => change[s] = "pending" \/ Engaged(s)
  PROVE  Around(t)
  BY DEF Around, log, Cancelled

\* One with an event of its signer.
LEMMA EventAround ==
  ASSUME TypeOK, NEW t \in Tabs, NEW s \in Signers, NEW event \in Events \ {"none", "signed"},
         AppendOfSigner(s, event), Engaged(s) \/ event = "expired",
         UNCHANGED <<sequential, files, owner, lock, change>>
  PROVE  Around(t)
  BY DEF Around, AppendOfSigner, Cancelled, TypeOK

\* An open tab engages its signer.
LEMMA TabEngages ==
  ASSUME NEW t \in Tabs, Opened(t)
  PROVE  Engaged(TabOf[t])
  BY DEF Engaged

\* A signer whose page may be opened was asked and has not signed.
LEMMA OpensToAsked ==
  ASSUME Inv, NEW s \in Signers, sequential, AccessStep(s) \notin {"refused", "expiring"}
  PROVE  latest[s] \notin {"none", "expired"}
<1>1. Status(s) = "ready_to_sign" BY DEF AccessStep
<1>2. QED BY <1>1, Statuses DEF Inv
-----------------------------------------------------------------------------
\* What the page does leaves the files and the turns alone.
LEMMA PageAside ==
  ASSUME Inv, StampInv, NEW t \in Tabs, Page(t)
  PROVE  StampInv'
<1> USE SigningAssumption
<1> DEFINE s == TabOf[t]
<1>1. TypeOK /\ s \in Signers /\ tab[t] \in Records BY DEF Inv, TypeOK, Records
<1>2. CASE Open(t)
  <2>1. PICK step \in {"expiring", "opening"} : Go(t, step)
          /\ (step = "opening" /\ sequential => latest[s] \notin {"none", "expired"})
    BY <1>1, <1>2, Access, OpensToAsked DEF Open
  <2>2. Around(t) BY <1>1, <1>2, StillAround DEF Open, log, links, rest
  <2>3. QED BY <2>1, <2>2, GoAside DEF Places, Writing, Finishing
<1>3. CASE Confirm(t)
  <2>1. Go(t, "confirming") /\ Opened(t) BY <1>3 DEF Confirm, Opened
  <2>2. Around(t) BY <1>1, <1>3, StillAround DEF Confirm, log, links, rest
  <2>3. QED BY <2>1, <2>2, GoAside DEF Places, Writing, Finishing
<1>4. CASE SendCode(t)
  <2>1. Go(t, "code") /\ Opened(t) BY <1>4 DEF SendCode, Opened
  <2>2. Around(t) BY <1>1, <1>4, StillAround DEF SendCode, log, rest
  <2>3. QED BY <2>1, <2>2, GoAside DEF Places, PageSteps, Writing, Finishing
<1>5. CASE VerifyCode(t)
  <2>1. PICK step \in {"reloading", "code"} : Go(t, step) BY <1>5 DEF VerifyCode
  <2>2. Opened(t) BY <1>5 DEF VerifyCode, Opened
  <2>3. Around(t) BY <1>1, <1>5, StillAround DEF VerifyCode, log, rest
  <2>4. QED BY <2>1, <2>2, <2>3, GoAside DEF Places, PageSteps, Writing, Finishing
<1>6. CASE Reload(t)
  <2>1. PICK step \in {"refreshing", "outdated", "viewing"} : Go(t, step) BY <1>6 DEF Reload
  <2>2. Opened(t) BY <1>6 DEF Reload, Opened
  <2>3. Around(t) BY <1>1, <1>6, StillAround DEF Reload, log, links, rest
  <2>4. QED BY <2>1, <2>2, <2>3, GoAside DEF Places, PageSteps, Writing, Finishing
<1>7. CASE Reject(t)
  <2>1. Go(t, "rejecting") /\ Opened(t) BY <1>7 DEF Reject, Opened, PageSteps
  <2>2. Around(t) BY <1>1, <1>7, StillAround DEF Reject, log, links, rest
  <2>3. QED BY <2>1, <2>2, GoAside DEF Places, Writing, Finishing
<1>8. CASE RequestChange(t)
  <2>1. Go(t, "requesting") /\ Opened(t) BY <1>8 DEF RequestChange, Opened
  <2>2. \A r \in Signers : change'[r] = "pending" => change[r] = "pending" \/ r = s
    BY <1>1, <1>8 DEF RequestChange, TypeOK
  <2>3. \A r \in Signers : change'[r] = "pending" => change[r] = "pending" \/ Engaged(r)
    BY <2>1, <2>2, TabEngages
  <2>4. Around(t) BY <1>1, <1>8, <2>3, StillAround DEF RequestChange, log, rest
  <2>5. QED BY <2>1, <2>4, GoAside DEF Places, Writing, Finishing
<1>9. CASE Sign(t)
  <2> DEFINE rec == [at |-> IF Status(s) = "ready_to_sign" THEN "claiming" ELSE "repairing",
                     was |-> Status(s), again |-> s \in signed, copy |-> {}]
  <2>1. Status(s) \in Terminal \cup {"invited", "ready_to_sign"} BY <1>1, Statuses
  <2>2. {"claiming", "repairing"} \subseteq Places BY DEF Places, Applying
  <2>3. rec \in Records BY <2>1, <2>2 DEF Records
  <2>4. tab' = [tab EXCEPT ![t] = rec] /\ Opened(t) BY <1>9 DEF Sign, Opened
  <2>5. rec.at \in {"claiming", "repairing"} OBVIOUS
  <2>6. Calm /\ rec.at = "repairing" => rec.was = "signed"
    <3>1. Calm /\ s \in signed => Status(s) = "signed" BY <1>1, CalmIs DEF SignedStaysSigned
    <3>2. s \in signed \/ Status(s) = "ready_to_sign" BY <1>9 DEF Sign
    <3>3. QED BY <3>1, <3>2
  <2> HIDE DEF rec
  <2>7. Around(t) BY <1>1, <1>9, StillAround DEF Sign, log, links, rest
  <2>8. QED BY <2>3, <2>4, <2>5, <2>6, <2>7, MoveAside DEF Writing, Finishing
<1>10. QED BY <1>2, <1>3, <1>4, <1>5, <1>6, <1>7, <1>8, <1>9 DEF Page

\* Nor do the events of a signer other than his signature.
LEMMA EventsAside ==
  ASSUME Inv, StampInv, NEW t \in Tabs,
         LogExpiry(t) \/ LogAccess(t) \/ LogIdentity(t) \/ LogRejection(t) \/ LogRequest(t)
  PROVE  StampInv'
<1> USE SigningAssumption
<1> DEFINE s == TabOf[t]
<1>1. TypeOK /\ s \in Signers BY DEF Inv, TypeOK
<1>2. PICK event \in {"expired", "accessed", "identity_confirmed", "rejected"},
           step \in {"closed", "viewing", "preaccess", "asking", "done"} :
        /\ AppendOfSigner(s, event) /\ Go(t, step)
        /\ UNCHANGED <<attested, links, lock, files, owner, rest>>
        /\ Opened(t) \/ (event = "expired" /\ step = "closed")
  BY DEF LogExpiry, LogAccess, LogIdentity, LogRejection, LogRequest, Opened
<1>3. event \in Events \ {"none", "signed"} BY <1>2 DEF Events
<1>4. Engaged(s) \/ event = "expired" BY <1>2, TabEngages
<1>5. Around(t) BY <1>1, <1>2, <1>3, <1>4, EventAround DEF links, rest
<1>6. QED BY <1>2, <1>5, GoAside DEF Places, PageSteps, Writing, Finishing
-----------------------------------------------------------------------------
\* Who writes the file is the one who is asked.
LEMMA WriterIsAsked ==
  ASSUME Inv, StampInv, Calm, NEW t \in Tabs, tab[t].at \in Writing
  PROVE  Asked(TabOf[t])
<1>1. TabOf[t] \in Signers BY SigningAssumption
<1>2. Engaged(TabOf[t]) BY TabEngages DEF Opened, Writing
<1>3. latest[TabOf[t]] # "none" BY <1>1, <1>2 DEF StampInv, EngagedIfAsked, Calm
<1>4. TabOf[t] \notin signed BY DEF StampInv, FilesHold, OneWriter
<1>5. latest[TabOf[t]] # "signed" BY <1>1, <1>4 DEF Inv, Logged
<1>6. QED BY <1>2, <1>3, <1>5 DEF Asked

\* So nobody writes while the next signer has still to be asked.
LEMMA NobodyWrites ==
  ASSUME Inv, StampInv, Calm, NEW t \in Tabs, tab[t].at \in Finishing, NEW u \in Tabs
  PROVE  tab[u].at \notin Writing
<1>1. TabOf[u] \in Signers BY SigningAssumption
<1>2. QED BY <1>1, WriterIsAsked DEF StampInv, OneAsked

\* The claim goes to a signer who is asked and has not signed.
LEMMA ClaimsForAsked ==
  ASSUME Inv, StampInv, Calm, NEW t \in Tabs, tab[t].at = "claiming", MyTurn(TabOf[t])
  PROVE  Asked(TabOf[t]) /\ TabOf[t] \notin signed /\ ~Cancelled
<1> USE SigningAssumption
<1> DEFINE s == TabOf[t]
<1>1. TypeOK /\ s \in Signers /\ Status(s) = "ready_to_sign" BY DEF Inv, MyTurn
<1>2. sequential /\ (s \in signed => Status(s) = "signed") BY <1>1, CalmIs DEF SignedStaysSigned
<1>3. s \notin signed BY <1>1, <1>2
<1>4. latest[s] \notin {"none", "expired"} BY <1>1, <1>2, Statuses
<1>5. latest[s] # "signed" BY <1>1, <1>3 DEF Inv, Logged
<1>6. ~Cancelled BY <1>1 DEF Status, Cancelled, Terminal
<1>7. QED BY <1>3, <1>4, <1>5, <1>6 DEF Asked

\* A step of a call that has to do with locks only.
LEMMA LockAround ==
  ASSUME TypeOK, NEW t \in Tabs, UNCHANGED <<sequential, log, files, owner, change>>,
         Calm => \A u \in Tabs : u # t /\ tab[u].at \in Writing /\ lock[TabOf[u]] = Held(u) =>
           lock'[TabOf[u]] = Held(u)
  PROVE  Around(t)
  BY DEF Around, log, Cancelled

\* What apply-signer-signature does besides writing and asking.
LEMMA CallsAside ==
  ASSUME Inv, StampInv, NEW t \in Tabs,
         \/ Repair(t) \/ Attest(t) \/ ClearLock(t) \/ Count(t) \/ Complete(t) \/ Release(t) \/ Kill(t)
  PROVE  StampInv'
<1> USE SigningAssumption
<1> DEFINE s == TabOf[t]
<1>1. TypeOK /\ s \in Signers BY DEF Inv, TypeOK
<1>2. CASE Repair(t)
  <2>1. Calm => tab[t].was = "signed" BY <1>2 DEF Repair, StampInv, FilesHold, OneWriter
  <2>2. PICK step \in {"advancing", "releasing"} :
          Go(t, step) /\ Opened(t) /\ (Calm => step = "releasing" /\ lock' = lock)
    BY <1>2, <2>1 DEF Repair, Opened
  <2>3. Around(t) BY <1>1, <1>2, <2>2, LockAround DEF Repair, log, links, rest
  <2>4. QED BY <2>2, <2>3, GoAside DEF Places, Applying, Writing, Finishing
<1>3. CASE Attest(t)
  <2>1. Go(t, "clearing") /\ Opened(t) /\ tab[t].at \in Finishing BY <1>3 DEF Attest, Opened, Finishing
  <2>2. Around(t) BY <1>1, <1>3, StillAround DEF Attest, log, links, rest
  <2>3. QED BY <2>1, <2>2, GoAside DEF Places, Applying, Writing
<1>4. CASE ClearLock(t)
  <2>1. PICK step \in {"advancing", "counting"} : Go(t, step) BY <1>4 DEF ClearLock
  <2>2. Opened(t) /\ tab[t].at \in Finishing BY <1>4 DEF ClearLock, Opened, Finishing
  <2>3. Calm => \A u \in Tabs : tab[u].at \notin Writing BY <2>2, NobodyWrites
  <2>4. Around(t) BY <1>1, <1>4, <2>3, LockAround DEF ClearLock, log, links, rest
  <2>5. QED BY <2>1, <2>2, <2>4, GoAside DEF Places, Applying, Writing
<1>5. CASE Count(t)
  <2>1. PICK step \in {"completing", "releasing"} : Go(t, step) BY <1>5 DEF Count
  <2>2. Opened(t) BY <1>5 DEF Count, Opened
  <2>3. Around(t) BY <1>1, <1>5, StillAround DEF Count, Fault, log, links, rest
  <2>4. QED BY <2>1, <2>2, <2>3, GoAside DEF Places, Applying, Writing, Finishing
<1>6. CASE Complete(t)
  <2>1. Go(t, "releasing") /\ Opened(t) /\ AppendOfFlow("workflow.completed") BY <1>6 DEF Complete, Opened
  <2>2. Around(t) BY <1>6, <2>1 DEF Complete, Around, AppendOfFlow, Cancelled, links, rest
  <2>3. QED BY <2>1, <2>2, GoAside DEF Places, Applying, Writing, Finishing
<1>7. CASE Release(t)
  <2>1. Go(t, "done") /\ Opened(t) BY <1>7 DEF Release, Opened
  <2>2. \A u \in Tabs : u # t /\ lock[TabOf[u]] = Held(u) => lock'[TabOf[u]] = Held(u)
    <3> SUFFICES ASSUME NEW u \in Tabs, u # t, lock[TabOf[u]] = Held(u)
                 PROVE  lock'[TabOf[u]] = Held(u)
      OBVIOUS
    <3>1. lock[TabOf[u]].by # t BY DEF Held
    <3>2. lock' = lock \/ (lock' = [lock EXCEPT ![s] = Free] /\ lock[s].by = t) BY <1>7 DEF Release
    <3>3. QED BY <1>1, <3>1, <3>2 DEF TypeOK
  <2>3. Around(t) BY <1>1, <1>7, <2>2, LockAround DEF Release, log, links, rest
  <2>4. QED BY <2>1, <2>3, GoAside DEF Places, Writing, Finishing
<1>8. CASE Kill(t)
  <2>1. Go(t, "viewing") /\ Opened(t) BY <1>8 DEF Kill, Opened, Applying
  <2>2. Around(t) BY <1>1, <1>8, StillAround DEF Kill, Fault, log, links
  <2>3. QED BY <2>1, <2>2, GoAside DEF Places, PageSteps, Writing, Finishing
<1>9. QED BY <1>2, <1>3, <1>4, <1>5, <1>6, <1>7, <1>8
-----------------------------------------------------------------------------
\* A writer that goes on, or a claim that makes one, asks nobody.
LEMMA WriterTurns ==
  ASSUME Inv, StampInv, NEW t \in Tabs, NEW rec \in Records, tab' = [tab EXCEPT ![t] = rec],
         Opened(t), rec.at \notin Finishing, UNCHANGED <<sequential, log, change, owner>>
  PROVE  /\ \A u \in Tabs : tab'[u] = IF u = t THEN rec ELSE tab[u]
         /\ EngagedIfAsked' /\ RevokesCancelled' /\ (Calm' => Calm /\ OneAsked')
<1>1. tab \in [Tabs -> Records] BY DEF Inv, TypeOK, Records
<1>2. \A u \in Tabs : tab'[u] = IF u = t THEN rec ELSE tab[u] BY <1>1
<1>3. \A s \in Signers : Engaged(s)' => Engaged(s)
  <2>1. \A u \in Tabs : Opened(u)' => Opened(u) BY <1>2 DEF Opened
  <2>2. QED BY <2>1 DEF Engaged
<1>4. TurnsStay BY <1>2, <1>3 DEF TurnsStay, log
<1>5. RevokesCancelled' BY DEF StampInv, RevokesCancelled, Cancelled, log
<1>6. QED BY <1>2, <1>4, <1>5, TurnsStayOne

\* Nobody else writes when a claim is granted: he would be of the same signer,
\* and hold the lock.
LEMMA ClaimKeeps ==
  ASSUME Inv, StampInv, NEW t \in Tabs, Claim(t)
  PROVE  StampInv'
<1> USE SigningAssumption
<1> DEFINE s == TabOf[t]
<1>1. TypeOK /\ s \in Signers /\ tab[t] \in Records BY DEF Inv, TypeOK, Records
<1>2. tab[t].at = "claiming" /\ Opened(t) BY DEF Claim, Opened
<1>3. CASE MyTurn(s) /\ Unlocked(s)
  <2> DEFINE step == IF tab[t].again THEN "repairing" ELSE "stamping"
  <2> DEFINE rec == [tab[t] EXCEPT !.at = step]
  <2>1. /\ lock' = [lock EXCEPT ![s] = Held(t)] /\ Go(t, step)
        /\ UNCHANGED <<log, attested, links, files, owner, rest>>
    BY <1>3 DEF Claim
  <2>2. {"repairing", "stamping"} \subseteq Places BY DEF Places, Applying
  <2>3. rec \in Records /\ tab' = [tab EXCEPT ![t] = rec] /\ rec.at = step
    BY <1>1, <2>1, <2>2 DEF Records, Go
  <2>4. rec.at \notin Finishing BY <2>3 DEF Finishing
  <2>5. tab[t].again => s \in signed BY DEF Inv, Grounded
  <2> HIDE DEF rec
  <2>6. /\ \A u \in Tabs : tab'[u] = IF u = t THEN rec ELSE tab[u]
        /\ EngagedIfAsked' /\ RevokesCancelled' /\ (Calm' => Calm /\ OneAsked')
    BY <1>2, <2>1, <2>3, <2>4, WriterTurns DEF log, links, rest
  <2>7. ASSUME Calm PROVE FilesHold'
    <3>1. Asked(s) /\ s \notin signed /\ ~Cancelled BY <1>2, <1>3, <2>7, ClaimsForAsked
    <3>2. ASSUME NEW u \in Tabs, tab[u].at \in Writing PROVE FALSE
      <4>1. TabOf[u] = s BY <1>1, <2>7, <3>1, <3>2, WriterIsAsked DEF StampInv, OneAsked
      <4>2. lock[s] = Held(u) BY <2>7, <3>1, <3>2, <4>1 DEF StampInv, FilesHold, OneWriter
      <4>3. QED BY <1>3, <4>2 DEF Unlocked, Held
    <3>3. rec.at = "stamping" BY <2>3, <2>5, <3>1
    <3>4. lock'[s] = Held(t) BY <1>1, <2>1 DEF TypeOK
    <3>5. \A u \in Tabs : tab'[u].at \in Writing => u = t BY <2>6, <3>2
    <3>6. \A u \in Tabs : tab'[u].at = "repairing" => tab'[u].was = "signed"
      BY <2>6, <2>7, <3>3 DEF StampInv, FilesHold, OneWriter
    <3>7. OneWriter' BY <2>1, <3>1, <3>4, <3>5, <3>6 DEF OneWriter, log
    <3>8. CopiesHold' BY <2>6, <3>3, <3>5 DEF CopiesHold, Writing
    <3>9. StampsAreKept' BY <2>1, <2>7 DEF StampInv, FilesHold, StampsAreKept, log, files
    <3>10. QED BY <3>7, <3>8, <3>9 DEF FilesHold
  <2>8. QED BY <2>6, <2>7 DEF StampInv
<1>4. CASE ~(MyTurn(s) /\ Unlocked(s))
  <2>1. PICK step \in {"done", "viewing"} : Go(t, step) BY <1>4 DEF Claim
  <2>2. Around(t) BY <1>1, <1>4, StillAround DEF Claim, log, links, rest
  <2>3. QED BY <1>2, <2>1, <2>2, GoAside DEF Places, PageSteps, Writing, Finishing
<1>5. QED BY <1>3, <1>4

\* Stamp, upload, witness: the one writer's copy has all signatures and his.
LEMMA WritingKeeps ==
  ASSUME Inv, StampInv, NEW t \in Tabs, ReadPdf(t) \/ UploadPdf(t) \/ UpdateWitness(t)
  PROVE  StampInv'
<1> USE SigningAssumption
<1> DEFINE s == TabOf[t]
<1>1. TypeOK /\ s \in Signers /\ tab[t] \in Records BY DEF Inv, TypeOK, Records
<1>2. tab[t].at \in Writing /\ Opened(t) /\ UNCHANGED <<log, attested, links, lock, owner, rest>>
  BY DEF ReadPdf, UploadPdf, UpdateWitness, Opened, Writing
<1>3. PICK rec \in Records :
        /\ tab' = [tab EXCEPT ![t] = rec]
        /\ \/ /\ tab[t].at = "stamping" /\ rec.at = "uploading"
              /\ rec.copy = pdf \cup {s} /\ UNCHANGED files
           \/ /\ tab[t].at = "uploading" /\ rec.at = "witnessing" /\ rec.copy = tab[t].copy
              /\ pdf' = tab[t].copy /\ witness' = witness
           \/ /\ tab[t].at = "witnessing" /\ rec.at = "signing"
              /\ witness' = tab[t].copy /\ pdf' = pdf
  <2>1. {"uploading", "witnessing", "signing"} \subseteq Places BY DEF Places, Applying
  <2>2. CASE ReadPdf(t)
    <3> DEFINE new == [tab[t] EXCEPT !.at = "uploading", !.copy = pdf \cup {s}]
    <3>1. new \in Records /\ new.at = "uploading" /\ new.copy = pdf \cup {s}
      BY <1>1, <2>1 DEF Records, TypeOK
    <3>2. tab' = [tab EXCEPT ![t] = new] /\ tab[t].at = "stamping" /\ UNCHANGED files
      BY <2>2 DEF ReadPdf
    <3> HIDE DEF new
    <3>3. QED BY <3>1, <3>2
  <2>3. CASE UploadPdf(t)
    <3> DEFINE new == [tab[t] EXCEPT !.at = "witnessing"]
    <3>1. new \in Records /\ new.at = "witnessing" /\ new.copy = tab[t].copy BY <1>1, <2>1 DEF Records
    <3>2. tab' = [tab EXCEPT ![t] = new] /\ tab[t].at = "uploading"
          /\ pdf' = tab[t].copy /\ witness' = witness
      BY <2>3 DEF UploadPdf, Go
    <3> HIDE DEF new
    <3>3. QED BY <3>1, <3>2
  <2>4. CASE UpdateWitness(t)
    <3> DEFINE new == [tab[t] EXCEPT !.at = "signing"]
    <3>1. new \in Records /\ new.at = "signing" BY <1>1, <2>1 DEF Records
    <3>2. tab' = [tab EXCEPT ![t] = new] /\ tab[t].at = "witnessing"
          /\ witness' = tab[t].copy /\ pdf' = pdf
      BY <2>4 DEF UpdateWitness, Go
    <3> HIDE DEF new
    <3>3. QED BY <3>1, <3>2
  <2>5. QED BY <2>2, <2>3, <2>4
<1>4. rec.at \notin Finishing BY <1>3 DEF Finishing
<1>5. /\ \A u \in Tabs : tab'[u] = IF u = t THEN rec ELSE tab[u]
      /\ EngagedIfAsked' /\ RevokesCancelled' /\ (Calm' => Calm /\ OneAsked')
  BY <1>2, <1>3, <1>4, WriterTurns DEF log, links, rest
<1>6. ASSUME Calm PROVE FilesHold'
  <2>1. \A u \in Tabs : tab[u].at \in Writing => u = t
    BY <1>2, <1>6 DEF StampInv, FilesHold, OneWriter
  <2>2. rec.at \in Writing /\ rec.at # "repairing" BY <1>3 DEF Writing
  <2>3. OneWriter'
    BY <1>2, <1>5, <1>6, <2>1, <2>2 DEF StampInv, FilesHold, OneWriter, Cancelled, log
  <2>4. StampsAreKept' BY <1>2, <1>3, <1>6 DEF StampInv, FilesHold, CopiesHold, StampsAreKept, log, files
  <2>5. CopiesHold'
    <3>1. \A u \in Tabs : tab'[u].at \in Writing => u = t BY <1>5, <2>1
    <3>2. rec.at \in {"uploading", "witnessing"} => signed' \cup {s} \subseteq rec.copy
      BY <1>2, <1>3, <1>6 DEF StampInv, FilesHold, CopiesHold, StampsAreKept, log
    <3>3. rec.at \in {"witnessing", "signing"} => s \in pdf'
      BY <1>3, <1>6 DEF StampInv, FilesHold, CopiesHold
    <3>4. rec.at = "signing" => s \in witness' BY <1>3, <1>6 DEF StampInv, FilesHold, CopiesHold
    <3>5. QED BY <1>5, <3>1, <3>2, <3>3, <3>4 DEF CopiesHold, Writing
  <2>6. QED BY <2>3, <2>4, <2>5 DEF FilesHold
<1>7. QED BY <1>5, <1>6 DEF StampInv
-----------------------------------------------------------------------------
\* A signature moves the baton from the signer to his call.
LEMMA SignatureKeeps ==
  ASSUME Inv, StampInv, NEW t \in Tabs, InsertSigned(t)
  PROVE  StampInv'
<1> USE SigningAssumption
<1> DEFINE s == TabOf[t]
<1>1. TypeOK /\ s \in Signers /\ tab \in [Tabs -> Records] BY DEF Inv, TypeOK, Records
<1>2. tab[t].at = "signing" /\ Opened(t) BY DEF InsertSigned, Opened
<1>3. CASE s \in signed
  <2>1. Go(t, "releasing") BY <1>3 DEF InsertSigned
  <2>2. Around(t) BY <1>1, <1>3, StillAround DEF InsertSigned, log, links, rest
  <2>3. QED BY <1>2, <2>1, <2>2, GoAside DEF Places, Applying, Writing, Finishing
<1>4. CASE s \notin signed
  <2>1. /\ AppendOfSigner(s, "signed") /\ Go(t, "attesting")
        /\ UNCHANGED <<attested, links, lock, files, owner, rest>>
    BY <1>4 DEF InsertSigned
  <2>2. \A r \in Signers : latest'[r] = IF r = s THEN "signed" ELSE latest[r]
    BY <1>1, <2>1 DEF AppendOfSigner, TypeOK
  <2>3. signed' = signed \cup {s} /\ milestones' = milestones BY <2>1 DEF AppendOfSigner
  <2>4. /\ \A u \in Tabs : u # t => tab'[u] = tab[u]
        /\ tab'[t].at = "attesting"
    BY <1>1, <2>1 DEF Go, Records
  <2>5. \A r \in Signers : Engaged(r)' => Engaged(r)
    <3>1. \A u \in Tabs : Opened(u)' => Opened(u) BY <1>2, <2>4 DEF Opened
    <3>2. QED BY <2>1, <3>1 DEF Engaged, links
  <2>6. EngagedIfAsked' BY <2>1, <2>2, <2>5 DEF StampInv, EngagedIfAsked, rest
  <2>7. RevokesCancelled' BY <2>1, <2>3 DEF StampInv, RevokesCancelled, Cancelled
  <2>8. ASSUME Calm' PROVE Calm BY <1>4, <2>1, <2>2, <2>3, <2>8 DEF Calm, rest
  <2>9. ASSUME Calm PROVE OneAsked'
    <3>1. Asked(s) BY <1>2, <2>9, WriterIsAsked DEF Writing
    <3>2. \A r \in Signers : ~Asked(r)'
      BY <1>1, <2>2, <2>5, <2>9, <3>1 DEF StampInv, OneAsked, Asked
    <3>3. \A u \in Tabs : tab[u].at \notin Finishing BY <1>1, <2>9, <3>1 DEF StampInv, OneAsked
    <3>4. \A u \in Tabs : tab'[u].at \in Finishing => u = t BY <2>4, <3>3
    <3>5. QED BY <3>2, <3>4 DEF OneAsked
  <2>10. ASSUME Calm PROVE FilesHold'
    <3>1. \A u \in Tabs : tab[u].at \in Writing => u = t
      BY <1>2, <2>10 DEF StampInv, FilesHold, OneWriter, Writing
    <3>2. \A u \in Tabs : tab'[u].at \notin Writing BY <2>4, <3>1 DEF Writing
    <3>3. OneWriter' BY <2>4, <2>10, <3>2 DEF StampInv, FilesHold, OneWriter
    <3>4. CopiesHold' BY <3>2 DEF CopiesHold, Writing
    <3>5. StampsAreKept'
      BY <1>2, <2>1, <2>3, <2>10 DEF StampInv, FilesHold, CopiesHold, StampsAreKept, files
    <3>6. QED BY <3>3, <3>4, <3>5 DEF FilesHold
  <2>11. QED BY <2>6, <2>7, <2>8, <2>9, <2>10 DEF StampInv
<1>5. QED BY <1>3, <1>4

\* advance_workflow hands it to the next signer, or nobody is left to ask.
LEMMA AdvanceKeeps ==
  ASSUME Inv, StampInv, NEW t \in Tabs, AdvanceWorkflow(t)
  PROVE  StampInv'
<1> USE SigningAssumption
<1>1. TypeOK /\ tab \in [Tabs -> Records] BY DEF Inv, TypeOK, Records
<1>2. tab[t].at = "advancing" /\ tab[t].at \in Finishing /\ Opened(t)
  BY DEF AdvanceWorkflow, Opened, Finishing
<1>3. PICK step \in {"releasing", "counting"} : Go(t, step) BY DEF AdvanceWorkflow
<1>4. CASE UNCHANGED log
  <2>1. Around(t) BY <1>1, <1>4, StillAround DEF AdvanceWorkflow, Fault, log, links, rest
  <2>2. QED BY <1>2, <1>3, <2>1, GoAside DEF Places, Applying, Writing, Finishing
<1>5. CASE ~UNCHANGED log
  <2> DEFINE next == First(Invited)
  <2>1. /\ Invited # {} /\ AppendOfSigner(next, "ready_to_sign")
        /\ UNCHANGED <<attested, links, lock, files, owner, rest>>
    BY <1>5 DEF AdvanceWorkflow
  <2>2. next \in Signers /\ latest[next] = "none"
    <3>1. next \in Invited BY <2>1, FirstIsLeast DEF Invited
    <3>2. QED BY <1>1, <3>1, Statuses DEF Invited
  <2> HIDE DEF next
  <2>3. \A r \in Signers : latest'[r] = IF r = next THEN "ready_to_sign" ELSE latest[r]
    BY <1>1, <2>1, <2>2 DEF AppendOfSigner, TypeOK
  <2>4. signed' = signed /\ milestones' = milestones BY <2>1 DEF AppendOfSigner
  <2>5. /\ \A u \in Tabs : u # t => tab'[u] = tab[u]
        /\ tab'[t].at = step
    BY <1>1, <1>3 DEF Go, Records
  <2>6. \A r \in Signers : Engaged(r)' => Engaged(r)
    <3>1. \A u \in Tabs : Opened(u)' => Opened(u) BY <1>2, <2>5 DEF Opened
    <3>2. QED BY <2>1, <3>1 DEF Engaged, links
  <2>7. EngagedIfAsked' BY <2>1, <2>3, <2>6 DEF StampInv, EngagedIfAsked, rest
  <2>8. RevokesCancelled' BY <2>1, <2>4 DEF StampInv, RevokesCancelled, Cancelled
  <2>9. ASSUME Calm' PROVE Calm BY <2>1, <2>3, <2>4, <2>9 DEF Calm, rest
  <2>10. ASSUME Calm PROVE OneAsked'
    <3>1. \A r \in Signers : ~Asked(r) BY <1>2, <2>10 DEF StampInv, OneAsked
    <3>2. \A r \in Signers : Asked(r)' => r = next BY <2>3, <2>6, <3>1 DEF Asked
    <3>3. \A u \in Tabs : tab[u].at \in Finishing => u = t BY <1>2, <2>10 DEF StampInv, OneAsked
    <3>4. \A u \in Tabs : tab'[u].at \notin Finishing BY <2>5, <3>3 DEF Finishing
    <3>5. QED BY <3>2, <3>4 DEF OneAsked
  <2>11. ASSUME Calm PROVE FilesHold'
    <3>1. \A u \in Tabs : tab[u].at \notin Writing BY <1>2, <2>11, NobodyWrites
    <3>2. \A u \in Tabs : tab'[u].at \notin Writing BY <2>5, <3>1 DEF Writing
    <3>3. OneWriter' BY <2>5, <2>11, <3>2 DEF StampInv, FilesHold, OneWriter
    <3>4. CopiesHold' BY <3>2 DEF CopiesHold, Writing
    <3>5. StampsAreKept' BY <2>1, <2>4, <2>11 DEF StampInv, FilesHold, StampsAreKept, files
    <3>6. QED BY <3>3, <3>4, <3>5 DEF FilesHold
  <2>12. QED BY <2>7, <2>8, <2>9, <2>10, <2>11 DEF StampInv
<1>6. QED BY <1>4, <1>5
-----------------------------------------------------------------------------
\* A step that leaves every tab where it is.
LEMMA TabsAside ==
  ASSUME Inv, StampInv, UNCHANGED <<sequential, signed, files, tab>>,
         Cancelled => Cancelled', RevokesCancelled',
         \A s \in Signers : change'[s] = "pending" => Engaged(s),
         \A s \in Signers : owner'.at = "answering" /\ owner'.of = s => Engaged(s),
         \A s \in Signers : latest'[s] # latest[s] => latest'[s] \notin {"none", "signed"} /\ Engaged(s),
         \A u \in Tabs : tab[u].at \in Writing /\ lock[TabOf[u]] = Held(u) =>
           lock'[TabOf[u]] = Held(u) \/ Cancelled'
  PROVE  StampInv'
<1>1. \A s \in Signers : Engaged(s)' => Engaged(s) BY DEF Engaged, Opened
<1>2. TurnsStay BY <1>1 DEF TurnsStay
<1>3. FilesStay BY DEF FilesStay, StampInv, FilesHold, OneWriter
<1>4. QED BY <1>2, <1>3, Aside

\* The owner, links that expire and locks that grow old.
LEMMA OthersAside ==
  ASSUME Inv, StampInv, \/ \E s \in Signers : RefuseChange(s) \/ TokenLapses(s)
                        \/ Cancel \/ OwnersCall \/ LockExpires
  PROVE  StampInv'
<1> USE SigningAssumption
<1>1. TypeOK /\ owner.of \in Signers BY DEF Inv, TypeOK
<1>2. \A s \in Signers : change[s] = "pending" => Engaged(s) BY DEF Engaged
<1>3. \A s \in Signers : owner.at = "answering" /\ owner.of = s => Engaged(s) BY DEF Engaged
<1>4. ASSUME NEW s \in Signers, RefuseChange(s) PROVE StampInv'
  <2>1. /\ owner' = [at |-> "answering", of |-> s] /\ change[s] = "pending"
        /\ change' = [change EXCEPT ![s] = "rejected"] /\ UNCHANGED <<log, lock, files, tab, sequential>>
    BY <1>4 DEF RefuseChange, rest
  <2>2. \A r \in Signers : change'[r] = "pending" => change[r] = "pending" BY <1>1, <2>1 DEF TypeOK
  <2>3. RevokesCancelled' BY <2>1 DEF RevokesCancelled
  <2>4. QED BY <1>2, <2>1, <2>2, <2>3, TabsAside DEF log, Cancelled
<1>5. ASSUME NEW s \in Signers, TokenLapses(s) PROVE StampInv'
  <2>1. UNCHANGED <<log, change, lock, files, tab, owner, sequential>> BY <1>5 DEF TokenLapses
  <2>2. RevokesCancelled' BY <2>1 DEF StampInv, RevokesCancelled, Cancelled, log
  <2>3. QED BY <1>2, <1>3, <2>1, <2>2, TabsAside DEF log, Cancelled
<1>6. CASE Cancel
  <2>1. /\ UNCHANGED <<log, change, lock, files, tab, sequential>>
        /\ owner' = [owner EXCEPT !.at = "cancelling"]
    BY <1>6 DEF Cancel, Fault, links, rest
  <2>2. owner'.at = "cancelling" BY <1>1, <2>1 DEF TypeOK
  <2>3. RevokesCancelled' BY <2>2 DEF RevokesCancelled
  <2>4. QED BY <1>2, <2>1, <2>2, <2>3, TabsAside DEF log, Cancelled
<1>7. CASE LogAnswer
  <2>1. /\ AppendOfSigner(owner.of, "ready_to_sign") /\ owner.at = "answering"
        /\ owner' = [owner EXCEPT !.at = "idle"] /\ UNCHANGED <<change, lock, files, tab, sequential>>
    BY <1>7 DEF LogAnswer, links, rest
  <2>2. owner'.at = "idle" BY <1>1, <2>1 DEF TypeOK
  <2>3. signed' = signed /\ milestones' = milestones BY <2>1 DEF AppendOfSigner
  <2>4. \A r \in Signers : latest'[r] # latest[r] => r = owner.of /\ latest'[r] = "ready_to_sign"
    BY <1>1, <2>1 DEF AppendOfSigner, TypeOK
  <2>5. Engaged(owner.of) BY <1>1, <1>3, <2>1
  <2>6. RevokesCancelled' BY <2>2 DEF RevokesCancelled
  <2>7. QED BY <1>2, <2>1, <2>2, <2>3, <2>4, <2>5, <2>6, TabsAside DEF Cancelled
<1>8. CASE LogCancellation
  <2>1. /\ AppendOfFlow("workflow.cancelled") /\ owner' = [owner EXCEPT !.at = "revoking"]
        /\ UNCHANGED <<change, lock, files, tab, sequential>>
    BY <1>8 DEF LogCancellation, links, rest
  <2>2. owner'.at = "revoking" BY <1>1, <2>1 DEF TypeOK
  <2>3. UNCHANGED <<latest, signed>> /\ Cancelled' BY <2>1 DEF AppendOfFlow, Cancelled
  <2>4. RevokesCancelled' BY <2>3 DEF RevokesCancelled
  <2>5. QED BY <1>2, <2>1, <2>2, <2>3, <2>4, TabsAside
<1>9. CASE RevokeTokens
  <2>1. /\ owner.at = "revoking" /\ owner' = [owner EXCEPT !.at = "done"]
        /\ UNCHANGED <<log, change, files, tab, sequential>>
    BY <1>9 DEF RevokeTokens, rest
  <2>2. owner'.at = "done" BY <1>1, <2>1 DEF TypeOK
  <2>3. Cancelled' BY <2>1 DEF StampInv, RevokesCancelled, Cancelled, log
  <2>4. RevokesCancelled' BY <2>2 DEF RevokesCancelled
  <2>5. QED BY <1>2, <2>1, <2>2, <2>3, <2>4, TabsAside DEF log
<1>10. CASE LockExpires
  <2>1. UNCHANGED <<log, change, files, tab, owner, sequential>> BY <1>10 DEF LockExpires, links, rest
  <2>2. PICK s \in Signers : Abandoned(lock[s]) /\ lock' = [lock EXCEPT ![s].fresh = FALSE]
    BY <1>10 DEF LockExpires
  <2>3. ASSUME NEW u \in Tabs, tab[u].at \in Writing, lock[TabOf[u]] = Held(u)
        PROVE  lock'[TabOf[u]] = Held(u)
    <3>1. tab[u].at \in Applying BY <2>3 DEF Writing, Applying
    <3>2. ~Abandoned(lock[TabOf[u]]) BY <2>3, <3>1 DEF Abandoned, Held
    <3>3. TabOf[u] # s BY <2>2, <3>2
    <3>4. QED BY <1>1, <2>2, <2>3, <3>3 DEF TypeOK
  <2>4. RevokesCancelled' BY <2>1 DEF StampInv, RevokesCancelled, Cancelled, log
  <2>5. QED BY <1>2, <1>3, <2>1, <2>3, <2>4, TabsAside DEF log, Cancelled
<1>11. QED BY <1>4, <1>5, <1>6, <1>7, <1>8, <1>9, <1>10 DEF OwnersCall

\* At the start one signer is asked, the first, and nobody has signed.
LEMMA StampInit == Init => StampInv
<1> SUFFICES ASSUME Init PROVE StampInv OBVIOUS
<1> USE SigningAssumption DEF Init
<1>1. \A t \in Tabs : tab[t].at = "closed" OBVIOUS
<1>2. \A s \in Signers : ~Engaged(s) BY <1>1 DEF Engaged, Opened
<1>3. EngagedIfAsked BY <1>2 DEF EngagedIfAsked
<1>4. RevokesCancelled BY DEF RevokesCancelled
<1>5. \A s \in Signers : Asked(s) => s = First(Signers) BY DEF Asked
<1>6. OneAsked BY <1>1, <1>5 DEF OneAsked, Finishing
<1>7. OneWriter BY <1>1 DEF OneWriter, Writing
<1>8. CopiesHold BY <1>1 DEF CopiesHold
<1>9. StampsAreKept BY DEF StampsAreKept
<1>10. QED BY <1>3, <1>4, <1>6, <1>7, <1>8, <1>9 DEF StampInv, FilesHold

\* Every step keeps the invariant.
LEMMA StampStep == Inv /\ StampInv /\ [Next]_vars => StampInv'
<1> SUFFICES ASSUME Inv, StampInv, [Next]_vars PROVE StampInv' OBVIOUS
<1>1. CASE Next
  BY <1>1, PageAside, EventsAside, CallsAside, ClaimKeeps, WritingKeeps, SignatureKeeps,
     AdvanceKeeps, OthersAside DEF Next, Call
<1>2. CASE UNCHANGED vars
  <2>1. UNCHANGED <<log, change, lock, files, tab, owner, sequential>> BY <1>2 DEF vars, log, files
  <2>2. RevokesCancelled' BY <2>1 DEF StampInv, RevokesCancelled, Cancelled, log
  <2>3. \A s \in Signers : change[s] = "pending" \/ (owner.at = "answering" /\ owner.of = s) => Engaged(s)
    BY DEF Engaged
  <2>4. QED BY <2>1, <2>2, <2>3, TabsAside DEF log, Cancelled
<1>3. QED BY <1>1, <1>2

\* In a sequential workflow whose signers stay signed, every signature on
\* record is on the stored PDF and on the witness.
THEOREM StampsKept == Spec => []TurnsKeepStamps
<1>1. Init => Inv /\ StampInv BY InitInv, StampInit
<1>2. Inv /\ StampInv /\ [Next]_vars => Inv' /\ StampInv' BY Step, StampStep
<1>3. Inv /\ StampInv => TurnsKeepStamps
  BY CalmIs DEF Inv, StampInv, FilesHold, TurnsKeepStamps
<1>4. QED BY <1>1, <1>2, <1>3, PTL DEF Spec
=============================================================================
