----------------------- MODULE SigningWorkflowProofs -----------------------
(***************************************************************************)
(* Theorems about SigningWorkflow, for every number of signers and tabs,   *)
(* every bound on faults and lapses and everything the owner may do.        *)
(*                                                                         *)
(* The refinement needs what no single call checks: that a signer is asked *)
(* only after everybody before him has been asked (NoneSkipped), so that   *)
(* whoever finds himself first among the ready ones has only signers       *)
(* before him who are done, and stays so until his signature is on record, *)
(* whatever their second tabs do meanwhile (WritersInTurn).                *)
(***************************************************************************)
EXTENDS SigningWorkflow, TLAPS, WellFoundedInduction

Records == [at : Places, was : Terminal \cup {"none", "invited", "ready_to_sign"},
            again : BOOLEAN, copy : SUBSET Signers]
Events == {"none", "ready_to_sign", "accessed", "identity_confirmed", "signed",
           "rejected", "expired"}
Writing == {"stamping", "uploading", "witnessing", "signing"}

Done(s) == s \in signed \/ token[s] # "live"
InTurn(s) == \A r \in Signers : r < s => Done(r)
Reached(s) == \A r \in Signers : r < s => latest[r] # "none"

\* The events behind the end of the workflow and the states of signers.
Logged ==
  /\ flow = "active" => milestones = {}
  /\ \A s \in Signers :
       /\ latest[s] = "rejected" => "signer.rejected" \in milestones
       /\ latest[s] = "signed" => s \in signed
       /\ latest[s] = "expired" => token[s] # "live"

\* What a call has found out it can still rely on.
Grounded == \A t \in Tabs :
  /\ tab[t].at \in {"expiring", "outdated"} => token[TabOf[t]] # "live"
  /\ tab[t].again \/ tab[t].at \in {"repairing", "attesting"} => TabOf[t] \in signed

NoneSkipped ==
  sequential => \A s \in Signers :
    latest[s] \notin {"none", "expired"} \/ change[s] = "pending" => Reached(s)

ReachedByCalls ==
  sequential =>
    /\ \A t \in Tabs : tab[t].at \notin {"closed", "expiring"} => Reached(TabOf[t])
    /\ owner.at = "answering" => Reached(owner.of)

\* Up to its end and after a completion that was counted well.
Orderly == flow = "active" \/ (flow = "completed" /\ ~miscounted)

WritersInTurn ==
  sequential /\ Orderly =>
    \A t \in Tabs : tab[t].at \in Writing => InTurn(TabOf[t])

CompletedByAll ==
  /\ ~miscounted
  /\ flow = "completed" \/ (flow = "active" /\ \E t \in Tabs : tab[t].at = "completing")
  => \A s \in Signers : Done(s)

Inv ==
  /\ TypeOK /\ Logged /\ Grounded /\ NoneSkipped /\ ReachedByCalls
  /\ WritersInTurn /\ CompletedByAll
-----------------------------------------------------------------------------
\* What ORDER BY signing_order LIMIT 1 finds: the least of a set of signers.
LEMMA FirstIsLeast ==
  ASSUME NEW S \in SUBSET Nat, S # {}
  PROVE  First(S) \in S /\ \A r \in S : First(S) <= r
<1>1. IsWellFoundedOn(OpToRel(<, Nat), Nat) BY NatLessThanWellFounded
<1>2. PICK x \in S : \A y \in S : ~(<<y, x>> \in OpToRel(<, Nat)) BY <1>1, WFMin
<1>3. ASSUME NEW y \in S PROVE x <= y
  <2>1. y \in Nat /\ x \in Nat OBVIOUS
  <2>2. CASE y < x
    <3>1. <<y, x>> \in {p \in Nat \X Nat : p[1] < p[2]} BY <2>1, <2>2
    <3>2. <<y, x>> \in OpToRel(<, Nat) BY <3>1 DEF OpToRel
    <3>3. QED BY <1>2, <3>2
  <2>3. QED BY <2>1, <2>2
<1>4. QED BY <1>3 DEF First

\* What a status says about the log.
LEMMA Statuses ==
  ASSUME TypeOK, NEW s \in Signers
  PROVE  /\ Status(s) \in Terminal \cup {"invited", "ready_to_sign"}
         /\ Status(s) = "ready_to_sign" /\ sequential => latest[s] \notin {"none", "expired"}
         /\ Status(s) = "invited" <=> sequential /\ latest[s] = "none"
                                      /\ "workflow.cancelled" \notin milestones
  BY DEF TypeOK, Status, Projected, Terminal

\* While the workflow is active a terminal status means done.
LEMMA TerminalIsDone ==
  ASSUME Inv, flow = "active", NEW s \in Signers, Status(s) \in Terminal
  PROVE  Done(s)
  BY DEF Inv, TypeOK, Logged, Status, Projected, Terminal, Done

\* What a step may do to the facts that calls rely on.
Onward ==
  /\ sequential' = sequential /\ signed \subseteq signed' /\ (miscounted => miscounted')
  /\ flow # "active" => flow' = flow
  /\ flow' = "completed" /\ flow = "active" => miscounted \/ \A s \in Signers : Done(s)
  /\ \A s \in Signers : latest[s] # "none" => latest'[s] # "none"
  /\ \A s \in Signers : token[s] # "live" => token'[s] # "live"

\* A call that moves its tab keeps the facts that calls rely on, if the new
\* place asks for no more than is known.
LEMMA TabMoves ==
  ASSUME Inv, Onward, NEW t \in Tabs, NEW rec \in Records, tab' = [tab EXCEPT ![t] = rec],
         rec.at \in {"expiring", "outdated"} => token[TabOf[t]] # "live",
         rec.again \/ rec.at \in {"repairing", "attesting"} => TabOf[t] \in signed',
         sequential => rec.at \in {"closed", "expiring"} \/ Reached(TabOf[t]),
         sequential /\ rec.at \in Writing /\ Orderly => InTurn(TabOf[t]),
         rec.at = "completing" /\ flow = "active" => miscounted' \/ \A s \in Signers : Done(s),
         owner' = owner
  PROVE  tab' \in [Tabs -> Records] /\ Grounded' /\ ReachedByCalls' /\ WritersInTurn' /\ CompletedByAll'
<1> USE SigningAssumption DEF Inv, Onward, Records
<1>1. tab \in [Tabs -> Records] BY DEF TypeOK
<1>2. tab' \in [Tabs -> Records] BY <1>1
<1>3. Grounded' BY <1>1 DEF Grounded
<1>4. \A s \in Signers : Reached(s) => Reached(s)' BY DEF Reached
<1>5. ReachedByCalls' BY <1>1, <1>4 DEF ReachedByCalls, TypeOK
<1>6. \A s \in Signers : Done(s) => Done(s)' BY DEF Done
<1>7. \A s \in Signers : InTurn(s) => InTurn(s)' BY <1>6 DEF InTurn
<1>8. WritersInTurn' BY <1>1, <1>7 DEF WritersInTurn, Writing, TypeOK, Orderly
<1>9. CompletedByAll' BY <1>1, <1>6 DEF CompletedByAll, TypeOK
<1>10. QED BY <1>2, <1>3, <1>5, <1>8, <1>9

\* The same for a tab that only moves on: the calls past their gates.
LEMMA GoKeeps ==
  ASSUME Inv, Onward, NEW t \in Tabs, NEW step \in Places, Go(t, step),
         step \in {"expiring", "outdated"} => token[TabOf[t]] # "live",
         step \in {"repairing", "attesting"} => TabOf[t] \in signed',
         sequential => \/ tab[t].at \notin {"closed", "expiring"} \/ step \in {"closed", "expiring"}
                       \/ Reached(TabOf[t]),
         step \in Writing => tab[t].at \in Writing
           \/ (sequential /\ Orderly => InTurn(TabOf[t])),
         step = "completing" /\ flow = "active" => miscounted' \/ \A s \in Signers : Done(s),
         owner' = owner
  PROVE  Grounded' /\ ReachedByCalls' /\ WritersInTurn' /\ CompletedByAll'
<1> DEFINE rec == [tab[t] EXCEPT !.at = step]
<1> USE SigningAssumption DEF Inv
<1>1. tab \in [Tabs -> Records] BY DEF TypeOK, Records
<1>2. rec \in Records /\ tab' = [tab EXCEPT ![t] = rec] BY <1>1 DEF Records, Go
<1>3. rec.at = step /\ rec.again = tab[t].again BY <1>1 DEF Records
<1>4. rec.again => TabOf[t] \in signed' BY <1>3 DEF Grounded, Onward
<1>5. sequential => rec.at \in {"closed", "expiring"} \/ Reached(TabOf[t])
  BY <1>3 DEF ReachedByCalls
<1>6. sequential /\ rec.at \in Writing /\ Orderly => InTurn(TabOf[t])
  BY <1>3 DEF WritersInTurn
<1> HIDE DEF rec, Inv
<1>7. QED BY <1>2, <1>3, <1>4, <1>5, <1>6, TabMoves

\* A step that leaves the log as it is.
LEMMA StillLog ==
  ASSUME Inv, UNCHANGED <<sequential, log, token>>, miscounted => miscounted',
         \A s \in Signers : change'[s] = "pending" /\ sequential =>
           change[s] = "pending" \/ Reached(s)
  PROVE  Onward /\ Logged' /\ NoneSkipped'
<1>1. Onward BY DEF Onward, log, Inv, TypeOK
<1>2. Logged' BY DEF Logged, log, Inv
<1>3. NoneSkipped' BY DEF NoneSkipped, Reached, log, Inv
<1>4. QED BY <1>1, <1>2, <1>3

\* A status of the workflow is final; the other events decide in this order.
LEMMA EndsOnce ==
  ASSUME NEW events
  PROVE  /\ flow # "active" => FlowStatus(events) = flow
         /\ flow = "active" /\ "signer.rejected" \in events => FlowStatus(events) \in {"cancelled", "rejected"}
         /\ FlowStatus(events) = "completed" => flow = "completed" \/ "workflow.completed" \in events
         /\ flow = "active" /\ events \cap {"workflow.cancelled", "signer.rejected", "workflow.completed"} # {}
              => FlowStatus(events) # "active"
<1>1. ASSUME flow # "active" PROVE FlowStatus(events) = flow BY <1>1 DEF FlowStatus
<1>2. ASSUME flow = "active", "workflow.cancelled" \in events PROVE FlowStatus(events) = "cancelled"
  BY <1>2 DEF FlowStatus
<1>3. ASSUME flow = "active", "workflow.cancelled" \notin events, "signer.rejected" \in events
      PROVE  FlowStatus(events) = "rejected"
  BY <1>3 DEF FlowStatus
<1>4. ASSUME flow = "active", "workflow.cancelled" \notin events, "signer.rejected" \notin events,
             "workflow.completed" \in events
      PROVE  FlowStatus(events) = "completed"
  BY <1>4 DEF FlowStatus
<1>5. ASSUME flow = "active", "workflow.cancelled" \notin events, "signer.rejected" \notin events,
             "workflow.completed" \notin events
      PROVE  FlowStatus(events) = "active"
  BY <1>5 DEF FlowStatus
<1>6. QED BY <1>1, <1>2, <1>3, <1>4, <1>5

\* An event of a signer.
LEMMA AppendKeeps ==
  ASSUME Inv, NEW s \in Signers, NEW event \in Events \ {"none"}, AppendOfSigner(s, event),
         UNCHANGED <<sequential, miscounted, token, change>>,
         event = "expired" => token[s] # "live",
         sequential /\ event # "expired" => Reached(s)
  PROVE  Onward /\ Logged' /\ NoneSkipped'
<1> USE DEF Inv, Events
<1>1. latest' = [latest EXCEPT ![s] = event] /\ latest \in [Signers -> Events]
  BY DEF AppendOfSigner, TypeOK
<1>2. signed \subseteq signed' /\ flow' = FlowStatus(milestones') /\ milestones \subseteq milestones'
      /\ milestones' \subseteq milestones \cup {"signer.rejected"}
      /\ (milestones' = milestones \/ "signer.rejected" \in milestones')
      /\ (event = "signed" => s \in signed') /\ (event = "rejected" => "signer.rejected" \in milestones')
  BY DEF AppendOfSigner
<1>3. /\ flow # "active" => flow' = flow
      /\ flow' = "completed" /\ flow = "active" => FALSE
      /\ flow' = "active" => flow = "active" /\ milestones' = {}
  BY <1>2, EndsOnce DEF Logged
<1>4. Onward BY <1>1, <1>2, <1>3 DEF Onward
<1>5. Logged' BY <1>1, <1>2, <1>3 DEF Logged
<1>6. \A r \in Signers : Reached(r) => Reached(r)' BY <1>1 DEF Reached
<1>7. NoneSkipped' BY <1>1, <1>6 DEF NoneSkipped
<1>8. QED BY <1>4, <1>5, <1>7

\* An event of the workflow.
LEMMA EndKeeps ==
  ASSUME Inv, NEW event \in {"workflow.completed", "workflow.cancelled"}, AppendOfFlow(event),
         UNCHANGED <<sequential, miscounted, token, change>>,
         event = "workflow.completed" /\ flow = "active" => miscounted \/ \A s \in Signers : Done(s)
  PROVE  Onward /\ Logged' /\ NoneSkipped'
<1> USE DEF Inv
<1>1. UNCHANGED <<latest, signed>> /\ milestones' = milestones \cup {event}
      /\ flow' = FlowStatus(milestones') BY DEF AppendOfFlow
<1>2. /\ flow # "active" => flow' = flow
      /\ flow' = "completed" /\ flow = "active" => event = "workflow.completed"
      /\ flow' # "active"
  BY <1>1, EndsOnce DEF Logged
<1>3. Onward BY <1>1, <1>2 DEF Onward
<1>4. Logged' BY <1>1, <1>2 DEF Logged
<1>5. NoneSkipped' BY <1>1 DEF NoneSkipped, Reached
<1>6. QED BY <1>3, <1>4, <1>5
\* The types that a step of a tab and an append keep.
LEMMA GoTypes ==
  ASSUME TypeOK, NEW t \in Tabs, NEW step \in Places, Go(t, step)
  PROVE  tab' \in [Tabs -> Records]
  BY DEF TypeOK, Go, Records

\* The same for an event of a signer.
LEMMA AppendTypes ==
  ASSUME TypeOK, NEW s \in Signers, NEW event \in Events \ {"none"}, AppendOfSigner(s, event)
  PROVE  /\ latest' \in [Signers -> Events] /\ signed' \subseteq Signers /\ signed \subseteq signed'
         /\ flow' \in {"active", "completed", "rejected", "cancelled"}
         /\ milestones' \subseteq {"workflow.cancelled", "signer.rejected", "workflow.completed"}
  BY DEF TypeOK, AppendOfSigner, FlowStatus, Events

\* The same for an event of the workflow.
LEMMA FlowTypes ==
  ASSUME TypeOK, NEW event \in {"workflow.completed", "workflow.cancelled"}, AppendOfFlow(event)
  PROVE  /\ flow' \in {"active", "completed", "rejected", "cancelled"}
         /\ milestones' \subseteq {"workflow.cancelled", "signer.rejected", "workflow.completed"}
         /\ UNCHANGED <<latest, signed>>
  BY DEF TypeOK, AppendOfFlow, FlowStatus

\* Who finds himself first among the ready ones has only signers before him
\* who are done, or the workflow has ended otherwise.
LEMMA TurnIsMine ==
  ASSUME Inv, NEW s \in Signers, MyTurn(s), sequential, Reached(s),
         Orderly
  PROVE  InTurn(s)
<1> USE SigningAssumption DEF Inv
<1> DEFINE Ready == {r \in Signers : Status(r) = "ready_to_sign"}
<1>1. Ready \in SUBSET Nat /\ s \in Ready BY DEF MyTurn
<1>2. \A r \in Ready : s <= r
  <2> HIDE DEF Ready
  <2>1. \A r \in Ready : First(Ready) <= r BY <1>1, FirstIsLeast
  <2>2. s = First(Ready) BY DEF MyTurn, Ready
  <2>3. QED BY <2>1, <2>2
<1>3. ASSUME NEW r \in Signers, r < s PROVE Done(r)
  <2>1. CASE flow = "completed" BY <2>1 DEF CompletedByAll, Orderly
  <2>2. CASE flow = "active"
    <3>1. Status(r) # "ready_to_sign" BY <1>2, <1>3
    <3>2. latest[r] # "none" BY <1>3 DEF Reached
    <3>3. Status(r) # "invited" BY <3>2, Statuses
    <3>4. Status(r) \in Terminal BY <3>1, <3>3, Statuses
    <3> HIDE DEF Inv
    <3>5. QED BY <2>2, <3>4, TerminalIsDone
  <2>3. QED BY <2>1, <2>2 DEF Orderly
<1>4. QED BY <1>3 DEF InTurn

\* The next invited signer has nobody before him who was passed over.
LEMMA NextIsReached ==
  ASSUME Inv, Invited # {}
  PROVE  /\ First(Invited) \in Signers /\ Status(First(Invited)) = "invited"
         /\ Reached(First(Invited))
<1> USE SigningAssumption DEF Inv
<1> DEFINE next == First(Invited)
<1>1. Invited \in SUBSET Nat BY DEF Invited
<1>2. next \in Invited /\ \A r \in Invited : next <= r BY <1>1, FirstIsLeast
<1>3. next \in Signers /\ Status(next) = "invited" BY <1>2 DEF Invited
<1>4. sequential /\ "workflow.cancelled" \notin milestones BY <1>3, Statuses
<1> HIDE DEF next
<1>5. ASSUME NEW r \in Signers, r < next PROVE latest[r] # "none"
  <2>1. r \in Nat /\ next \in Nat BY <1>1, <1>2
  <2>2. r \notin Invited BY <2>1, <1>2, <1>5
  <2>3. Status(r) # "invited" BY <2>2 DEF Invited
  <2>4. QED BY <2>3, <1>4, Statuses
<1>6. Reached(next) BY <1>5 DEF Reached
<1>7. QED BY <1>3, <1>6 DEF next

\* A step of the workflow seen from SignatureRound.
RoundStep == Round!Next \/ UNCHANGED Round!vars

\* While signatures, links and the outcome stay, at most a count goes wrong.
LEMMA RoundStays ==
  ASSUME TypeOK, TypeOK', UNCHANGED <<sequential, signed, token, flow>>, miscounted => miscounted'
  PROVE  RoundStep
<1>1. UNCHANGED {s \in Signers : token[s] # "live"} OBVIOUS
<1>2. CASE miscounted' = miscounted BY <1>1, <1>2 DEF RoundStep, Round!vars
<1>3. CASE miscounted' # miscounted
  <2>1. miscounted' = TRUE BY <1>3 DEF TypeOK
  <2>2. Round!Miscount BY <1>1, <2>1 DEF Round!Miscount
  <2>3. QED BY <2>2 DEF RoundStep, Round!Next
<1>4. QED BY <1>2, <1>3

\* Without a signature or a dead link it can only end.
LEMMA RoundEnds ==
  ASSUME TypeOK, TypeOK', Onward, UNCHANGED <<sequential, signed, token, miscounted>>
  PROVE  RoundStep
<1>1. UNCHANGED {s \in Signers : token[s] # "live"} OBVIOUS
<1>2. CASE flow' = flow BY <1>1, <1>2 DEF RoundStep, Round!vars
<1>3. CASE flow' # flow
  <2>1. flow = "active" /\ flow' \in {"completed", "rejected", "cancelled"}
    BY <1>3 DEF Onward, TypeOK
  <2>2. flow' = "completed" => miscounted \/ signed \cup {s \in Signers : token[s] # "live"} = Signers
    BY <2>1 DEF Onward, Done, TypeOK
  <2>3. Round!End(flow') BY <1>1, <2>1, <2>2 DEF Round!End
  <2>4. QED BY <2>1, <2>3 DEF RoundStep, Round!Next
<1>4. QED BY <1>2, <1>3

\* A signature that is new and in turn is one of the round.
LEMMA RoundSigns ==
  ASSUME Inv, NEW s \in Signers \ signed, AppendOfSigner(s, "signed"),
         UNCHANGED <<sequential, miscounted, token>>,
         sequential /\ Orderly => InTurn(s)
  PROVE  RoundStep
<1>1. milestones' = milestones /\ flow' = FlowStatus(milestones) /\ signed' = signed \cup {s}
  BY DEF AppendOfSigner
<1>2. flow' = flow BY <1>1 DEF Inv, Logged, FlowStatus
<1>3. InTurn(s) => Round!InTurn(s) BY DEF InTurn, Round!InTurn, Done
<1>4. sequential => \/ Round!InTurn(s) \/ flow \in {"rejected", "cancelled"}
                    \/ flow = "completed" /\ miscounted
  BY <1>3 DEF Inv, TypeOK, Orderly
<1>5. Round!Sign(s) BY <1>1, <1>2, <1>4 DEF Round!Sign
<1>6. QED BY <1>5 DEF RoundStep, Round!Next

\* Dead links excuse their signers.
LEMMA RoundExcuses ==
  ASSUME Onward, UNCHANGED <<sequential, signed, flow, miscounted>>
  PROVE  RoundStep
<1>1. PICK S \in SUBSET Signers : S = {s \in Signers : token'[s] # "live"} OBVIOUS
<1>2. {s \in Signers : token'[s] # "live"} = {s \in Signers : token[s] # "live"} \cup S
  BY <1>1 DEF Onward
<1>3. Round!Excuse(S) BY <1>2 DEF Round!Excuse
<1>4. QED BY <1>3 DEF RoundStep, Round!Next

\* A step of a call that appends nothing.
LEMMA QuietStep ==
  ASSUME Inv, TypeOK', NEW t \in Tabs, NEW step \in Places, Go(t, step),
         UNCHANGED <<sequential, log, token, owner>>, miscounted => miscounted',
         \A s \in Signers : change'[s] = "pending" /\ sequential =>
           change[s] = "pending" \/ Reached(s),
         step \in {"expiring", "outdated"} => token[TabOf[t]] # "live",
         step \in {"repairing", "attesting"} => TabOf[t] \in signed,
         sequential => \/ tab[t].at \notin {"closed", "expiring"} \/ step \in {"closed", "expiring"}
                       \/ Reached(TabOf[t]),
         step \in Writing => tab[t].at \in Writing
           \/ (sequential /\ Orderly => InTurn(TabOf[t])),
         step = "completing" /\ flow = "active" => miscounted' \/ \A s \in Signers : Done(s)
  PROVE  Inv' /\ RoundStep
<1>1. Onward /\ Logged' /\ NoneSkipped' BY StillLog
<1>2. signed' = signed /\ flow' = flow BY DEF log
<1>3. Grounded' /\ ReachedByCalls' /\ WritersInTurn' /\ CompletedByAll' BY <1>1, <1>2, GoKeeps
<1>4. RoundStep BY <1>2, RoundStays DEF Inv
<1>5. QED BY <1>1, <1>3, <1>4 DEF Inv

\* A step of a call that appends an event of a signer and goes on to
\* something that asks for nothing.
LEMMA EventStep ==
  ASSUME Inv, TypeOK', NEW t \in Tabs, NEW step \in Places, Go(t, step),
         NEW s \in Signers, NEW event \in Events \ {"none"}, AppendOfSigner(s, event),
         UNCHANGED <<sequential, miscounted, token, change, owner>>,
         event = "expired" => token[s] # "live",
         sequential /\ event # "expired" => Reached(s),
         event = "signed" => s \notin signed
           /\ (sequential /\ Orderly => InTurn(s)),
         step \notin Writing \cup {"expiring", "outdated", "repairing", "completing"},
         step = "attesting" => event = "signed" /\ s = TabOf[t],
         tab[t].at \notin {"closed", "expiring"} \/ step = "closed"
  PROVE  Inv' /\ RoundStep
<1>1. Onward /\ Logged' /\ NoneSkipped' BY AppendKeeps
<1>2. step = "attesting" => TabOf[t] \in signed' BY DEF AppendOfSigner
<1>3. Grounded' /\ ReachedByCalls' /\ WritersInTurn' /\ CompletedByAll' BY <1>1, <1>2, GoKeeps
<1>4. RoundStep
  <2>1. CASE event = "signed" BY <2>1, RoundSigns
  <2>2. CASE event # "signed"
    <3>1. signed' = signed BY <2>2 DEF AppendOfSigner
    <3>2. QED BY <1>1, <3>1, RoundEnds DEF Inv
  <2>3. QED BY <2>1, <2>2
<1>5. QED BY <1>1, <1>3, <1>4 DEF Inv

\* What signer-access lets through: an expired link, or one asked to sign.
LEMMA Access ==
  ASSUME Inv, NEW s \in Signers, AccessStep(s) # "refused"
  PROVE  \/ AccessStep(s) = "expiring" /\ token[s] # "live"
         \/ AccessStep(s) = "opening" /\ (sequential => Reached(s))
<1>1. CASE token[s] = "lapsed" /\ Status(s) \notin Terminal BY <1>1 DEF AccessStep
<1>2. CASE token[s] = "live" /\ flow = "active" /\ Status(s) = "ready_to_sign"
  <2>1. AccessStep(s) = "opening" BY <1>2 DEF AccessStep
  <2>2. sequential => latest[s] \notin {"none", "expired"} BY <1>2, Statuses DEF Inv
  <2>3. QED BY <2>1, <2>2 DEF Inv, NoneSkipped
<1>3. CASE /\ ~(token[s] = "lapsed" /\ Status(s) \notin Terminal)
           /\ ~(token[s] = "live" /\ flow = "active" /\ Status(s) = "ready_to_sign")
  BY <1>3 DEF AccessStep
<1>4. QED BY <1>1, <1>2, <1>3

\* What the page does, up to the click on "sign".
LEMMA PageKeeps ==
  ASSUME Inv, NEW t \in Tabs, Page(t)
  PROVE  Inv' /\ RoundStep
<1> USE SigningAssumption
<1> DEFINE s == TabOf[t]
<1>1. TypeOK /\ s \in Signers BY DEF Inv
<1>2. CASE Open(t)
  <2>1. PICK step \in {"expiring", "opening"} : Go(t, step)
          /\ (step = "expiring" => token[s] # "live")
          /\ (step = "opening" /\ sequential => Reached(s))
    BY <1>1, <1>2, Access DEF Open
  <2>2. step \in Places BY DEF Places
  <2>3. tab' \in [Tabs -> Records] BY <1>1, <2>1, <2>2, GoTypes
  <2>4. TypeOK' BY <1>1, <1>2, <2>3 DEF Open, TypeOK, log, links, files, rest, Records
  <2>5. QED BY <1>2, <2>1, <2>2, <2>4, QuietStep DEF Open, log, links, rest, Writing
<1>3. CASE Confirm(t)
  <2>1. Go(t, "confirming") /\ "confirming" \in Places BY <1>3 DEF Confirm, Places
  <2>2. tab' \in [Tabs -> Records] BY <1>1, <2>1, GoTypes
  <2>3. TypeOK' BY <1>1, <1>3, <2>2 DEF Confirm, TypeOK, log, links, files, rest, Records
  <2>4. QED BY <1>3, <2>1, <2>3, QuietStep DEF Confirm, log, links, rest, Writing
<1>4. CASE SendCode(t)
  <2>1. Go(t, "code") /\ "code" \in Places BY <1>4 DEF SendCode, Places, PageSteps
  <2>2. tab' \in [Tabs -> Records] BY <1>1, <2>1, GoTypes
  <2>3. otp' \in [Signers -> BOOLEAN] BY <1>1, <1>4 DEF SendCode, TypeOK
  <2>4. TypeOK' BY <1>1, <1>4, <2>2, <2>3 DEF SendCode, TypeOK, log, files, rest, Records
  <2>5. QED BY <1>4, <2>1, <2>4, QuietStep DEF SendCode, log, rest, Writing
<1>5. CASE VerifyCode(t)
  <2>1. PICK step \in {"reloading", "code"} : Go(t, step) BY <1>5 DEF VerifyCode
  <2>2. step \in Places BY DEF Places, PageSteps
  <2>3. tab' \in [Tabs -> Records] BY <1>1, <2>1, <2>2, GoTypes
  <2>4. otp' \in [Signers -> BOOLEAN] BY <1>1, <1>5 DEF VerifyCode, TypeOK
  <2>5. TypeOK' BY <1>1, <1>5, <2>3, <2>4 DEF VerifyCode, TypeOK, log, files, rest, Records
  <2>6. QED BY <1>5, <2>1, <2>2, <2>5, QuietStep DEF VerifyCode, log, rest, Writing
<1>6. CASE Reload(t)
  <2>1. PICK step \in {"refreshing", "outdated", "viewing"} :
          Go(t, step) /\ (step = "outdated" => token[s] # "live")
    <3>1. CASE AccessStep(s) = "opening" BY <1>6, <3>1 DEF Reload
    <3>2. CASE AccessStep(s) = "expiring"
      <4>1. token[s] # "live" BY <1>1, <3>2, Access
      <4>2. QED BY <1>6, <3>2, <4>1 DEF Reload
    <3>3. CASE AccessStep(s) \notin {"opening", "expiring"} BY <1>6, <3>3 DEF Reload
    <3>4. QED BY <3>1, <3>2, <3>3
  <2>2. step \in Places BY DEF Places, PageSteps
  <2>3. tab' \in [Tabs -> Records] BY <1>1, <2>1, <2>2, GoTypes
  <2>4. TypeOK' BY <1>1, <1>6, <2>3 DEF Reload, TypeOK, log, links, files, rest, Records
  <2>5. QED BY <1>6, <2>1, <2>2, <2>4, QuietStep DEF Reload, log, links, rest, Writing
<1>7. CASE Reject(t)
  <2>1. Go(t, "rejecting") /\ "rejecting" \in Places BY <1>7 DEF Reject, Places
  <2>2. tab' \in [Tabs -> Records] BY <1>1, <2>1, GoTypes
  <2>3. TypeOK' BY <1>1, <1>7, <2>2 DEF Reject, TypeOK, log, links, files, rest, Records
  <2>4. QED BY <1>7, <2>1, <2>3, QuietStep DEF Reject, log, links, rest, Writing, PageSteps
<1>8. CASE RequestChange(t)
  <2>1. Go(t, "requesting") /\ "requesting" \in Places BY <1>8 DEF RequestChange, Places
  <2>2. tab' \in [Tabs -> Records] BY <1>1, <2>1, GoTypes
  <2>3. TypeOK' BY <1>1, <1>8, <2>2 DEF RequestChange, TypeOK, log, files, rest, Records
  <2>4. sequential => Reached(s) BY <1>8 DEF RequestChange, Inv, ReachedByCalls
  <2>5. \A r \in Signers : change'[r] = "pending" => change[r] = "pending" \/ r = s
    BY <1>1, <1>8 DEF RequestChange, TypeOK
  <2>6. QED BY <1>8, <2>1, <2>3, <2>4, <2>5, QuietStep DEF RequestChange, log, rest, Writing
<1>9. CASE Sign(t)
  <2>1. PICK rec \in Records :
          /\ tab' = [tab EXCEPT ![t] = rec]
          /\ rec.at \in {"claiming", "repairing"}
          /\ rec.again \/ rec.at = "repairing" => s \in signed
    <3>1. Status(s) \in Terminal \cup {"invited", "ready_to_sign"} BY <1>1, Statuses
    <3>2. {"claiming", "repairing"} \subseteq Places BY DEF Places, Applying
    <3> DEFINE rec == [at |-> IF Status(s) = "ready_to_sign" THEN "claiming" ELSE "repairing",
                       was |-> Status(s), again |-> s \in signed, copy |-> {}]
    <3>3. rec \in Records BY <3>1, <3>2 DEF Records
    <3>4. tab' = [tab EXCEPT ![t] = rec] BY <1>9 DEF Sign
    <3>5. s \in signed \/ Status(s) = "ready_to_sign" BY <1>9 DEF Sign
    <3>6. rec.at \in {"claiming", "repairing"} /\ (rec.again \/ rec.at = "repairing" => s \in signed)
      BY <3>5
    <3>7. QED BY <3>3, <3>4, <3>6
  <2>2. Onward /\ Logged' /\ NoneSkipped' BY <1>9, StillLog DEF Sign, log, links, rest
  <2>3. sequential => Reached(s) BY <1>9 DEF Sign, Inv, ReachedByCalls
  <2>4. /\ tab' \in [Tabs -> Records]
        /\ Grounded' /\ ReachedByCalls' /\ WritersInTurn' /\ CompletedByAll'
    BY <1>1, <1>9, <2>1, <2>2, <2>3, TabMoves DEF Sign, log, Writing
  <2>5. TypeOK' BY <1>1, <1>9, <2>4 DEF Sign, TypeOK, log, links, files, rest, Records
  <2>6. RoundStep BY <1>1, <1>9, <2>2, <2>5, RoundEnds DEF Sign, log, links, rest
  <2>7. QED BY <2>2, <2>4, <2>5, <2>6 DEF Inv
<1>10. QED BY <1>2, <1>3, <1>4, <1>5, <1>6, <1>7, <1>8, <1>9 DEF Page

\* What a call does past its gates, but for the calls that append.
LEMMA CallKeeps ==
  ASSUME Inv, NEW t \in Tabs,
         \/ Claim(t) \/ Repair(t) \/ ReadPdf(t) \/ UploadPdf(t) \/ UpdateWitness(t)
         \/ Attest(t) \/ ClearLock(t) \/ Count(t) \/ Release(t) \/ Kill(t)
  PROVE  Inv' /\ RoundStep
<1> USE SigningAssumption
<1> DEFINE s == TabOf[t]
<1>1. TypeOK /\ s \in Signers /\ tab[t] \in Records BY DEF Inv, TypeOK, Records
<1>2. tab[t].at \notin {"closed", "expiring"} /\ sequential => Reached(s)
  BY DEF Inv, ReachedByCalls
<1>3. CASE Claim(t)
  <2>1. PICK step \in {"repairing", "stamping", "done", "viewing"} :
          /\ Go(t, step)
          /\ step = "repairing" => tab[t].again
          /\ step = "stamping" => MyTurn(s)
    BY <1>3 DEF Claim
  <2>2. step \in Places BY DEF Places, Applying, PageSteps
  <2>3. tab' \in [Tabs -> Records] BY <1>1, <2>1, <2>2, GoTypes
  <2>4. lock' \in [Signers -> [by : Tabs \cup {"nobody"}, fresh : BOOLEAN]]
    <3>1. Held(t) \in [by : Tabs \cup {"nobody"}, fresh : BOOLEAN] BY DEF Held
    <3>2. lock' = lock \/ lock' = [lock EXCEPT ![s] = Held(t)] BY <1>3 DEF Claim
    <3>3. QED BY <1>1, <3>1, <3>2 DEF TypeOK
  <2>5. TypeOK' BY <1>1, <1>3, <2>3, <2>4 DEF Claim, TypeOK, log, links, files, rest, Records
  <2>6. step = "stamping" /\ sequential /\ Orderly => InTurn(s)
    BY <1>1, <1>2, <1>3, <2>1, TurnIsMine DEF Claim
  <2>7. step = "repairing" => s \in signed BY <2>1 DEF Inv, Grounded
  <2>8. QED BY <1>3, <2>1, <2>2, <2>5, <2>6, <2>7, QuietStep DEF Claim, log, links, rest, Writing
<1>4. CASE Repair(t)
  <2>1. PICK step \in {"advancing", "releasing"} : Go(t, step) BY <1>4 DEF Repair
  <2>2. step \in Places BY DEF Places, Applying
  <2>3. tab' \in [Tabs -> Records] BY <1>1, <2>1, <2>2, GoTypes
  <2>4. lock' \in [Signers -> [by : Tabs \cup {"nobody"}, fresh : BOOLEAN]]
    BY <1>1, <1>4 DEF Repair, TypeOK, Free
  <2>5. attested' \subseteq signed BY <1>1, <1>4 DEF Repair, TypeOK, Inv, Grounded
  <2>6. TypeOK' BY <1>1, <1>4, <2>3, <2>4, <2>5 DEF Repair, TypeOK, log, links, files, rest, Records
  <2>7. QED BY <1>4, <2>1, <2>2, <2>6, QuietStep DEF Repair, log, links, rest, Writing
<1>5. CASE ReadPdf(t)
  <2> DEFINE rec == [tab[t] EXCEPT !.at = "uploading", !.copy = pdf \cup {s}]
  <2>1. {"uploading"} \subseteq Places BY DEF Places, Applying
  <2>2. rec \in Records /\ tab' = [tab EXCEPT ![t] = rec]
    BY <1>1, <1>5, <2>1 DEF ReadPdf, Records, TypeOK
  <2>3. rec.at = "uploading" /\ rec.again = tab[t].again BY <1>1 DEF Records
  <2>4. tab[t].at = "stamping" /\ UNCHANGED <<log, attested, links, lock, files, owner, rest>>
    BY <1>5 DEF ReadPdf
  <2>5. Onward /\ Logged' /\ NoneSkipped' BY <2>4, StillLog DEF log, links, rest
  <2>6. /\ rec.again => s \in signed'
        /\ sequential /\ Orderly => InTurn(s)
    BY <2>3, <2>4 DEF Inv, Grounded, WritersInTurn, Writing, log
  <2> HIDE DEF rec
  <2>7. /\ tab' \in [Tabs -> Records]
        /\ Grounded' /\ ReachedByCalls' /\ WritersInTurn' /\ CompletedByAll'
    BY <1>2, <2>2, <2>3, <2>4, <2>5, <2>6, TabMoves
  <2>8. TypeOK' BY <1>1, <2>4, <2>7 DEF TypeOK, log, links, files, rest, Records
  <2>9. RoundStep BY <1>1, <2>4, <2>5, <2>8, RoundEnds DEF log, links, rest
  <2>10. QED BY <2>5, <2>7, <2>8, <2>9 DEF Inv
<1>6. CASE UploadPdf(t)
  <2>1. Go(t, "witnessing") /\ "witnessing" \in Places BY <1>6 DEF UploadPdf, Places, Applying
  <2>2. tab' \in [Tabs -> Records] BY <1>1, <2>1, GoTypes
  <2>3. pdf' \subseteq Signers BY <1>1, <1>6 DEF UploadPdf, Records
  <2>4. TypeOK' BY <1>1, <1>6, <2>2, <2>3 DEF UploadPdf, TypeOK, log, links, rest, Records
  <2>5. QED BY <1>6, <2>1, <2>4, QuietStep DEF UploadPdf, log, links, rest, Writing
<1>7. CASE UpdateWitness(t)
  <2>1. Go(t, "signing") /\ "signing" \in Places BY <1>7 DEF UpdateWitness, Places, Applying
  <2>2. tab' \in [Tabs -> Records] BY <1>1, <2>1, GoTypes
  <2>3. witness' \subseteq Signers BY <1>1, <1>7 DEF UpdateWitness, Records
  <2>4. TypeOK' BY <1>1, <1>7, <2>2, <2>3 DEF UpdateWitness, TypeOK, log, links, rest, Records
  <2>5. QED BY <1>7, <2>1, <2>4, QuietStep DEF UpdateWitness, log, links, rest, Writing
<1>8. CASE Attest(t)
  <2>1. Go(t, "clearing") /\ "clearing" \in Places BY <1>8 DEF Attest, Places, Applying
  <2>2. tab' \in [Tabs -> Records] BY <1>1, <2>1, GoTypes
  <2>3. attested' \subseteq signed BY <1>1, <1>8 DEF Attest, TypeOK, Inv, Grounded
  <2>4. TypeOK' BY <1>1, <1>8, <2>2, <2>3 DEF Attest, TypeOK, log, links, files, rest, Records
  <2>5. QED BY <1>8, <2>1, <2>4, QuietStep DEF Attest, log, links, rest, Writing
<1>9. CASE ClearLock(t)
  <2>1. PICK step \in {"advancing", "counting"} : Go(t, step) BY <1>9 DEF ClearLock
  <2>2. step \in Places BY DEF Places, Applying
  <2>3. tab' \in [Tabs -> Records] BY <1>1, <2>1, <2>2, GoTypes
  <2>4. lock' \in [Signers -> [by : Tabs \cup {"nobody"}, fresh : BOOLEAN]]
    BY <1>1, <1>9 DEF ClearLock, TypeOK, Free
  <2>5. TypeOK' BY <1>1, <1>9, <2>3, <2>4 DEF ClearLock, TypeOK, log, links, files, rest, Records
  <2>6. QED BY <1>9, <2>1, <2>2, <2>5, QuietStep DEF ClearLock, log, links, rest, Writing
<1>10. CASE Count(t)
  <2>1. PICK step \in {"completing", "releasing"} :
          /\ Go(t, step)
          /\ step = "completing" => miscounted' \/ \A r \in Signers : Status(r) \in Terminal
    BY <1>10 DEF Count
  <2>2. step \in Places BY DEF Places, Applying
  <2>3. tab' \in [Tabs -> Records] BY <1>1, <2>1, <2>2, GoTypes
  <2>4. TypeOK'
    <3>1. faults' \in 0 .. MaxFaults /\ lapses' = lapses /\ sequential' = sequential
      BY <1>1, <1>10 DEF Count, Fault, TypeOK, rest
    <3>2. miscounted' \in BOOLEAN BY <1>1, <1>10 DEF Count, TypeOK, rest
    <3>3. QED BY <1>1, <1>10, <2>3, <3>1, <3>2 DEF Count, TypeOK, log, links, files, Records
  <2>5. step = "completing" /\ flow = "active" => miscounted' \/ \A r \in Signers : Done(r)
    BY <2>1, TerminalIsDone
  <2>6. QED BY <1>10, <2>1, <2>2, <2>4, <2>5, QuietStep DEF Count, Fault, log, links, rest, Writing
<1>11. CASE Release(t)
  <2>1. Go(t, "done") /\ "done" \in Places BY <1>11 DEF Release, Places
  <2>2. tab' \in [Tabs -> Records] BY <1>1, <2>1, GoTypes
  <2>3. lock' \in [Signers -> [by : Tabs \cup {"nobody"}, fresh : BOOLEAN]]
    BY <1>1, <1>11 DEF Release, TypeOK, Free
  <2>4. TypeOK' BY <1>1, <1>11, <2>2, <2>3 DEF Release, TypeOK, log, links, files, rest, Records
  <2>5. QED BY <1>11, <2>1, <2>4, QuietStep DEF Release, log, links, rest, Writing
<1>12. CASE Kill(t)
  <2>1. Go(t, "viewing") /\ "viewing" \in Places BY <1>12 DEF Kill, Places, PageSteps
  <2>2. tab' \in [Tabs -> Records] BY <1>1, <2>1, GoTypes
  <2>3. TypeOK' BY <1>1, <1>12, <2>2 DEF Kill, Fault, TypeOK, log, links, files, rest, Records
  <2>4. QED BY <1>12, <2>1, <2>3, QuietStep DEF Kill, Fault, log, links, Writing, Applying
<1>13. QED BY <1>3, <1>4, <1>5, <1>6, <1>7, <1>8, <1>9, <1>10, <1>11, <1>12

\* The calls of a signer that append.
LEMMA AppendingCallKeeps ==
  ASSUME Inv, NEW t \in Tabs,
         \/ LogExpiry(t) \/ LogAccess(t) \/ LogIdentity(t) \/ LogRejection(t) \/ LogRequest(t)
         \/ InsertSigned(t) \/ AdvanceWorkflow(t) \/ Complete(t)
  PROVE  Inv' /\ RoundStep
<1> USE SigningAssumption
<1> DEFINE s == TabOf[t]
<1>1. TypeOK /\ s \in Signers /\ tab[t] \in Records BY DEF Inv, TypeOK, Records
<1>2. tab[t].at \notin {"closed", "expiring"} /\ sequential => Reached(s)
  BY DEF Inv, ReachedByCalls
<1>3. {"expired", "accessed", "identity_confirmed", "rejected", "signed", "ready_to_sign"}
        \subseteq Events \ {"none"} BY DEF Events
<1>4. CASE LogExpiry(t)
  <2>1. PICK step \in {"viewing", "closed"} : Go(t, step) /\ (tab[t].at = "expiring" => step = "closed")
    BY <1>4 DEF LogExpiry
  <2>2. step \in Places BY DEF Places, PageSteps
  <2>3. tab' \in [Tabs -> Records] BY <1>1, <2>1, <2>2, GoTypes
  <2>4. AppendOfSigner(s, "expired") /\ tab[t].at \in {"expiring", "outdated"} BY <1>4 DEF LogExpiry
  <2>5. TypeOK' BY <1>1, <1>3, <1>4, <2>3, <2>4, AppendTypes
          DEF LogExpiry, TypeOK, links, files, rest, Records, Events
  <2>6. token[s] # "live" BY <2>4 DEF Inv, Grounded
  <2>7. QED BY <1>1, <1>3, <1>4, <2>1, <2>2, <2>4, <2>5, <2>6, EventStep
          DEF LogExpiry, links, rest, Writing
<1>5. CASE LogAccess(t)
  <2>1. PICK step \in {"viewing", "preaccess"} : Go(t, step) BY <1>5 DEF LogAccess
  <2>2. step \in Places BY DEF Places, PageSteps
  <2>3. tab' \in [Tabs -> Records] BY <1>1, <2>1, <2>2, GoTypes
  <2>4. AppendOfSigner(s, "accessed") /\ tab[t].at \in {"opening", "refreshing"} BY <1>5 DEF LogAccess
  <2>5. TypeOK' BY <1>1, <1>3, <1>5, <2>3, <2>4, AppendTypes
          DEF LogAccess, TypeOK, links, files, rest, Records, Events
  <2>6. QED BY <1>1, <1>2, <1>3, <1>5, <2>1, <2>2, <2>4, <2>5, EventStep
          DEF LogAccess, links, rest, Writing
<1>6. CASE LogIdentity(t)
  <2>1. Go(t, "asking") /\ "asking" \in Places BY <1>6 DEF LogIdentity, Places
  <2>2. tab' \in [Tabs -> Records] BY <1>1, <2>1, GoTypes
  <2>3. AppendOfSigner(s, "identity_confirmed") /\ tab[t].at = "confirming" BY <1>6 DEF LogIdentity
  <2>4. TypeOK' BY <1>1, <1>3, <1>6, <2>2, <2>3, AppendTypes
          DEF LogIdentity, TypeOK, links, files, rest, Records, Events
  <2>5. QED BY <1>1, <1>2, <1>3, <1>6, <2>1, <2>3, <2>4, EventStep DEF LogIdentity, links, rest, Writing
<1>7. CASE LogRejection(t)
  <2>1. Go(t, "done") /\ "done" \in Places BY <1>7 DEF LogRejection, Places
  <2>2. tab' \in [Tabs -> Records] BY <1>1, <2>1, GoTypes
  <2>3. AppendOfSigner(s, "rejected") /\ tab[t].at = "rejecting" BY <1>7 DEF LogRejection
  <2>4. TypeOK' BY <1>1, <1>3, <1>7, <2>2, <2>3, AppendTypes
          DEF LogRejection, TypeOK, links, files, rest, Records, Events
  <2>5. QED BY <1>1, <1>2, <1>3, <1>7, <2>1, <2>3, <2>4, EventStep DEF LogRejection, links, rest, Writing
<1>8. CASE LogRequest(t)
  <2>1. Go(t, "viewing") /\ "viewing" \in Places BY <1>8 DEF LogRequest, Places, PageSteps
  <2>2. tab' \in [Tabs -> Records] BY <1>1, <2>1, GoTypes
  <2>3. AppendOfSigner(s, "accessed") /\ tab[t].at = "requesting" BY <1>8 DEF LogRequest
  <2>4. TypeOK' BY <1>1, <1>3, <1>8, <2>2, <2>3, AppendTypes
          DEF LogRequest, TypeOK, links, files, rest, Records, Events
  <2>5. QED BY <1>1, <1>2, <1>3, <1>8, <2>1, <2>3, <2>4, EventStep DEF LogRequest, links, rest, Writing
<1>9. CASE InsertSigned(t)
  <2>1. CASE s \in signed
    <3>1. Go(t, "releasing") /\ "releasing" \in Places BY <1>9, <2>1 DEF InsertSigned, Places, Applying
    <3>2. tab' \in [Tabs -> Records] BY <1>1, <3>1, GoTypes
    <3>3. TypeOK' BY <1>1, <1>9, <2>1, <3>2 DEF InsertSigned, TypeOK, log, links, files, rest, Records
    <3>4. QED BY <1>9, <2>1, <3>1, <3>3, QuietStep DEF InsertSigned, log, links, rest, Writing
  <2>2. CASE s \notin signed
    <3>1. Go(t, "attesting") /\ "attesting" \in Places BY <1>9, <2>2 DEF InsertSigned, Places, Applying
    <3>2. tab' \in [Tabs -> Records] BY <1>1, <3>1, GoTypes
    <3>3. AppendOfSigner(s, "signed") /\ tab[t].at = "signing" BY <1>9, <2>2 DEF InsertSigned
    <3>4. TypeOK' BY <1>1, <1>3, <1>9, <3>2, <3>3, AppendTypes
            DEF InsertSigned, TypeOK, links, files, rest, Records, Events
    <3>5. sequential /\ Orderly => InTurn(s)
      BY <1>1, <3>3 DEF Inv, WritersInTurn, Writing
    <3>6. QED BY <1>1, <1>2, <1>3, <1>9, <2>2, <3>1, <3>3, <3>4, <3>5, EventStep
            DEF InsertSigned, links, rest, Writing
  <2>3. QED BY <2>1, <2>2
<1>10. CASE AdvanceWorkflow(t)
  <2>1. PICK step \in {"releasing", "counting"} : Go(t, step) BY <1>10 DEF AdvanceWorkflow
  <2>2. step \in Places BY DEF Places, Applying
  <2>3. tab' \in [Tabs -> Records] BY <1>1, <2>1, <2>2, GoTypes
  <2>4. tab[t].at = "advancing" /\ UNCHANGED <<sequential, miscounted, links, owner>>
    BY <1>10 DEF AdvanceWorkflow, Fault, rest
  <2>5. CASE UNCHANGED log
    <3>1. TypeOK' BY <1>1, <1>10, <2>3, <2>5 DEF AdvanceWorkflow, Fault, TypeOK, log, links, files, rest, Records
    <3>2. QED BY <2>1, <2>2, <2>4, <2>5, <3>1, QuietStep DEF links, Writing
  <2>6. CASE ~UNCHANGED log
    <3> DEFINE next == First(Invited)
    <3>1. Invited # {} /\ AppendOfSigner(next, "ready_to_sign") /\ UNCHANGED rest
      BY <1>10, <2>6 DEF AdvanceWorkflow
    <3>2. next \in Signers /\ Reached(next) BY <3>1, NextIsReached
    <3> HIDE DEF next
    <3>3. TypeOK' BY <1>1, <1>3, <1>10, <2>3, <3>1, <3>2, AppendTypes
            DEF AdvanceWorkflow, TypeOK, links, files, rest, Records, Events
    <3>4. QED BY <1>3, <2>1, <2>2, <2>4, <3>1, <3>2, <3>3, EventStep DEF links, Writing
  <2>7. QED BY <2>5, <2>6
<1>11. CASE Complete(t)
  <2>1. Go(t, "releasing") /\ "releasing" \in Places BY <1>11 DEF Complete, Places, Applying
  <2>2. tab' \in [Tabs -> Records] BY <1>1, <2>1, GoTypes
  <2>3. AppendOfFlow("workflow.completed") /\ tab[t].at = "completing" BY <1>11 DEF Complete
  <2>4. TypeOK' BY <1>1, <1>11, <2>2, <2>3, FlowTypes DEF Complete, TypeOK, links, files, rest, Records
  <2>5. flow = "active" => miscounted \/ \A r \in Signers : Done(r) BY <2>3 DEF Inv, CompletedByAll
  <2>6. Onward /\ Logged' /\ NoneSkipped'
    BY <1>11, <2>3, <2>5, EndKeeps DEF Complete, links, rest
  <2>7. Grounded' /\ ReachedByCalls' /\ WritersInTurn' /\ CompletedByAll'
    BY <1>11, <2>1, <2>3, <2>6, GoKeeps DEF Complete, Writing
  <2>8. RoundStep BY <1>1, <1>11, <2>3, <2>4, <2>6, FlowTypes, RoundEnds DEF Complete, links, rest
  <2>9. QED BY <2>4, <2>6, <2>7, <2>8 DEF Inv
<1>12. QED BY <1>4, <1>5, <1>6, <1>7, <1>8, <1>9, <1>10, <1>11

\* The owner's calls and time: the tabs stay where they are.
LEMMA TabsStay ==
  ASSUME Inv, Onward, UNCHANGED tab,
         sequential /\ owner'.at = "answering" =>
           (owner.at = "answering" /\ owner'.of = owner.of) \/ Reached(owner'.of),
         owner'.of \in Signers
  PROVE  Grounded' /\ ReachedByCalls' /\ WritersInTurn' /\ CompletedByAll'
<1> USE SigningAssumption DEF Inv, Onward
<1>1. Grounded' BY DEF Grounded, TypeOK
<1>2. \A s \in Signers : Reached(s) => Reached(s)' BY DEF Reached
<1>3. ReachedByCalls' BY <1>2 DEF ReachedByCalls, TypeOK
<1>4. \A s \in Signers : Done(s) => Done(s)' BY DEF Done
<1>5. \A s \in Signers : InTurn(s) => InTurn(s)' BY <1>4 DEF InTurn
<1>6. WritersInTurn' BY <1>5 DEF WritersInTurn, TypeOK, Orderly
<1>7. CompletedByAll' BY <1>4 DEF CompletedByAll, TypeOK
<1>8. QED BY <1>1, <1>3, <1>6, <1>7

\* The owner's calls, links that expire and locks that grow old.
LEMMA OthersKeep ==
  ASSUME Inv, \/ \E s \in Signers : RefuseChange(s) \/ TokenLapses(s)
              \/ Cancel \/ OwnersCall \/ LockExpires
  PROVE  Inv' /\ RoundStep
<1> USE SigningAssumption
<1>1. TypeOK /\ owner.of \in Signers BY DEF Inv, TypeOK
<1>2. ASSUME NEW s \in Signers, RefuseChange(s) PROVE Inv' /\ RoundStep
  <2>1. owner' = [at |-> "answering", of |-> s] /\ UNCHANGED <<log, sequential, miscounted, token, tab>>
    BY <1>2 DEF RefuseChange, rest
  <2>2. change' = [change EXCEPT ![s] = "rejected"] /\ change[s] = "pending" BY <1>2 DEF RefuseChange
  <2>3. TypeOK' BY <1>1, <1>2, <2>1, <2>2 DEF RefuseChange, TypeOK, log, files, rest
  <2>4. Onward /\ Logged' /\ NoneSkipped' BY <1>1, <2>1, <2>2, StillLog DEF TypeOK
  <2>5. sequential => Reached(s) BY <2>2 DEF Inv, NoneSkipped
  <2>6. Grounded' /\ ReachedByCalls' /\ WritersInTurn' /\ CompletedByAll'
    BY <2>1, <2>4, <2>5, TabsStay
  <2>7. RoundStep BY <1>1, <2>1, <2>3, <2>4, RoundEnds DEF log
  <2>8. QED BY <2>3, <2>4, <2>6, <2>7 DEF Inv
<1>3. ASSUME NEW s \in Signers, TokenLapses(s) PROVE Inv' /\ RoundStep
  <2>1. token' = [token EXCEPT ![s] = "lapsed"] /\ UNCHANGED <<log, sequential, miscounted, change, tab, owner>>
    BY <1>3 DEF TokenLapses
  <2>2. TypeOK' BY <1>1, <1>3, <2>1 DEF TokenLapses, TypeOK, log, files
  <2>3. Onward BY <1>1, <2>1 DEF Onward, TypeOK, log
  <2>4. Logged' BY <1>1, <2>1 DEF Inv, Logged, TypeOK, log
  <2>5. NoneSkipped' BY <2>1 DEF Inv, NoneSkipped, Reached, log
  <2>6. Grounded' /\ ReachedByCalls' /\ WritersInTurn' /\ CompletedByAll'
    BY <1>1, <2>1, <2>3, TabsStay
  <2>7. RoundStep BY <2>1, <2>3, RoundExcuses DEF log
  <2>8. QED BY <2>2, <2>3, <2>4, <2>5, <2>6, <2>7 DEF Inv
<1>4. CASE Cancel
  <2>1. /\ owner' = [owner EXCEPT !.at = "cancelling"]
        /\ UNCHANGED <<log, sequential, miscounted, token, change, tab>>
    BY <1>4 DEF Cancel, Fault, links, rest
  <2>2. owner'.at = "cancelling" /\ owner'.of = owner.of BY <1>1, <2>1 DEF TypeOK
  <2>3. TypeOK' BY <1>1, <1>4, <2>1 DEF Cancel, Fault, TypeOK, log, links, files, rest
  <2>4. Onward /\ Logged' /\ NoneSkipped' BY <2>1, StillLog
  <2>5. Grounded' /\ ReachedByCalls' /\ WritersInTurn' /\ CompletedByAll'
    BY <1>1, <2>1, <2>2, <2>4, TabsStay
  <2>6. RoundStep BY <1>1, <2>1, <2>3, <2>4, RoundEnds DEF log
  <2>7. QED BY <2>3, <2>4, <2>5, <2>6 DEF Inv
<1>5. CASE LogAnswer
  <2>1. /\ AppendOfSigner(owner.of, "ready_to_sign") /\ owner.at = "answering"
        /\ owner' = [owner EXCEPT !.at = "idle"]
        /\ UNCHANGED <<sequential, miscounted, token, change, tab>>
    BY <1>5 DEF LogAnswer, links, rest
  <2>2. owner'.at = "idle" /\ owner'.of = owner.of BY <1>1, <2>1 DEF TypeOK
  <2>3. "ready_to_sign" \in Events \ {"none"} BY DEF Events
  <2>4. TypeOK' BY <1>1, <1>5, <2>1, <2>2, <2>3, AppendTypes
          DEF LogAnswer, TypeOK, links, files, rest, Events
  <2>5. sequential => Reached(owner.of) BY <2>1 DEF Inv, ReachedByCalls
  <2>6. Onward /\ Logged' /\ NoneSkipped' BY <1>1, <2>1, <2>3, <2>5, AppendKeeps
  <2>7. Grounded' /\ ReachedByCalls' /\ WritersInTurn' /\ CompletedByAll'
    BY <1>1, <2>1, <2>2, <2>6, TabsStay
  <2>8. signed' = signed BY <2>1 DEF AppendOfSigner
  <2>9. RoundStep BY <1>1, <2>1, <2>4, <2>6, <2>8, RoundEnds
  <2>10. QED BY <2>4, <2>6, <2>7, <2>9 DEF Inv
<1>6. CASE LogCancellation
  <2>1. /\ AppendOfFlow("workflow.cancelled") /\ owner' = [owner EXCEPT !.at = "revoking"]
        /\ UNCHANGED <<sequential, miscounted, token, change, tab>>
    BY <1>6 DEF LogCancellation, links, rest
  <2>2. owner'.at = "revoking" /\ owner'.of = owner.of BY <1>1, <2>1 DEF TypeOK
  <2>3. TypeOK' BY <1>1, <1>6, <2>1, FlowTypes DEF LogCancellation, TypeOK, links, files, rest
  <2>4. Onward /\ Logged' /\ NoneSkipped' BY <2>1, EndKeeps
  <2>5. Grounded' /\ ReachedByCalls' /\ WritersInTurn' /\ CompletedByAll'
    BY <1>1, <2>1, <2>2, <2>4, TabsStay
  <2>6. RoundStep BY <1>1, <2>1, <2>3, <2>4, FlowTypes, RoundEnds
  <2>7. QED BY <2>3, <2>4, <2>5, <2>6 DEF Inv
<1>7. CASE RevokeTokens
  <2> DEFINE chosen == {s \in Signers : Status(s) \notin {"signed", "cancelled"}}
  <2>1. /\ token' = [s \in Signers |-> IF s \in chosen THEN "revoked" ELSE token[s]]
        /\ lock' = [s \in Signers |-> IF s \in chosen THEN Free ELSE lock[s]]
        /\ owner' = [owner EXCEPT !.at = "done"]
        /\ UNCHANGED <<log, sequential, miscounted, change, tab>>
    BY <1>7 DEF RevokeTokens, rest
  <2> HIDE DEF chosen
  <2>2. owner'.at = "done" /\ owner'.of = owner.of BY <1>1, <2>1 DEF TypeOK
  <2>3. TypeOK'
    <3>1. token' \in [Signers -> {"live", "lapsed", "revoked"}] BY <1>1, <2>1 DEF TypeOK
    <3>2. lock' \in [Signers -> [by : Tabs \cup {"nobody"}, fresh : BOOLEAN]]
      BY <1>1, <2>1 DEF TypeOK, Free
    <3>3. QED BY <1>1, <1>7, <2>1, <3>1, <3>2 DEF RevokeTokens, TypeOK, log, files, rest
  <2>4. Onward BY <1>1, <2>1 DEF Onward, TypeOK, log
  <2>5. Logged' BY <2>1 DEF Inv, Logged, log
  <2>6. NoneSkipped' BY <2>1 DEF Inv, NoneSkipped, Reached, log
  <2>7. Grounded' /\ ReachedByCalls' /\ WritersInTurn' /\ CompletedByAll'
    BY <1>1, <2>1, <2>2, <2>4, TabsStay
  <2>8. RoundStep BY <2>1, <2>4, RoundExcuses DEF log
  <2>9. QED BY <2>3, <2>4, <2>5, <2>6, <2>7, <2>8 DEF Inv
<1>8. CASE LockExpires
  <2>1. UNCHANGED <<log, sequential, miscounted, token, change, tab, owner>>
    BY <1>8 DEF LockExpires, links, rest
  <2>2. PICK s \in Signers : lock' = [lock EXCEPT ![s].fresh = FALSE] BY <1>8 DEF LockExpires
  <2>3. lock' \in [Signers -> [by : Tabs \cup {"nobody"}, fresh : BOOLEAN]]
    <3> DEFINE Locks == [by : Tabs \cup {"nobody"}, fresh : BOOLEAN]
    <3>1. \A l \in Locks : [l EXCEPT !.fresh = FALSE] \in Locks OBVIOUS
    <3> HIDE DEF Locks
    <3>2. lock \in [Signers -> Locks] BY <1>1 DEF TypeOK, Locks
    <3>3. lock' = [lock EXCEPT ![s] = [lock[s] EXCEPT !.fresh = FALSE]] BY <2>2
    <3>4. QED BY <3>1, <3>2, <3>3 DEF Locks
  <2>4. TypeOK' BY <1>1, <1>8, <2>3 DEF LockExpires, TypeOK, log, links, files, rest
  <2>5. Onward /\ Logged' /\ NoneSkipped' BY <2>1, StillLog
  <2>6. Grounded' /\ ReachedByCalls' /\ WritersInTurn' /\ CompletedByAll'
    BY <1>1, <2>1, <2>5, TabsStay
  <2>7. RoundStep BY <1>1, <2>1, <2>4, <2>5, RoundEnds DEF log
  <2>8. QED BY <2>4, <2>5, <2>6, <2>7 DEF Inv
<1>9. QED BY <1>2, <1>3, <1>4, <1>5, <1>6, <1>7, <1>8 DEF OwnersCall

\* A workflow that has just been started.
LEMMA InitInv == Init => Inv /\ Round!Init
<1> SUFFICES ASSUME Init PROVE Inv /\ Round!Init OBVIOUS
<1> USE SigningAssumption DEF Init
<1>1. Signers \in SUBSET Nat /\ Signers # {} OBVIOUS
<1>2. First(Signers) \in Signers /\ \A r \in Signers : First(Signers) <= r BY <1>1, FirstIsLeast
<1> DEFINE first == First(Signers)
<1>3. \A s \in Signers : latest[s] # "none" => s = first BY DEF first
<1>4. Reached(first)
  <2> HIDE DEF first
  <2>1. \A r \in Signers : ~(r < first)
    <3>1. first \in Nat /\ \A r \in Signers : r \in Nat /\ first <= r BY <1>1, <1>2 DEF first
    <3>2. QED BY <3>1
  <2>2. QED BY <2>1 DEF Reached
<1>5. TypeOK
  <2>1. miscounted \in BOOLEAN /\ sequential \in BOOLEAN OBVIOUS
  <2>2. faults \in 0 .. MaxFaults /\ lapses \in 0 .. MaxLapses OBVIOUS
  <2>3. latest \in [Signers -> Events] BY DEF Events
  <2>4. lock \in [Signers -> [by : Tabs \cup {"nobody"}, fresh : BOOLEAN]] BY DEF Free
  <2>5. tab \in [Tabs -> Records] BY DEF Records, Places
  <2>6. QED BY <1>2, <2>1, <2>2, <2>3, <2>4, <2>5 DEF TypeOK, Events, Records
<1>6. NoneSkipped BY <1>3, <1>4 DEF NoneSkipped
<1>7. Logged /\ Grounded BY DEF Logged, Grounded
<1>8. ReachedByCalls /\ WritersInTurn /\ CompletedByAll
  BY DEF ReachedByCalls, WritersInTurn, Writing, CompletedByAll
<1>9. Round!Init BY DEF Round!Init
<1>10. QED BY <1>5, <1>6, <1>7, <1>8, <1>9 DEF Inv

\* Every step keeps the invariant and is one of the round.
LEMMA Step == Inv /\ [Next]_vars => Inv' /\ RoundStep
<1> SUFFICES ASSUME Inv, [Next]_vars PROVE Inv' /\ RoundStep OBVIOUS
<1>1. CASE Next BY <1>1, PageKeeps, CallKeeps, AppendingCallKeeps, OthersKeep DEF Next, Call
<1>2. CASE UNCHANGED vars
  <2>1. TypeOK' BY <1>2 DEF vars, Inv, TypeOK
  <2>2. UNCHANGED <<sequential, log, miscounted, token, change, tab, owner>> BY <1>2 DEF vars, log
  <2>3. Onward /\ Logged' /\ NoneSkipped' BY <2>2, StillLog
  <2>4. owner.of \in Signers BY DEF Inv, TypeOK
  <2>5. Grounded' /\ ReachedByCalls' /\ WritersInTurn' /\ CompletedByAll'
    BY <2>2, <2>3, <2>4, TabsStay
  <2>6. RoundStep BY <2>1, <2>2, <2>3, RoundEnds DEF Inv, log
  <2>7. QED BY <2>1, <2>3, <2>5, <2>6 DEF Inv
<1>3. QED BY <1>1, <1>2

\* Every reachable state satisfies the invariant, its types among it.
THEOREM TypeCorrect == Spec => []TypeOK
<1>1. Init => Inv BY InitInv
<1>2. Inv /\ [Next]_vars => Inv' BY Step
<1>3. Inv => TypeOK BY DEF Inv
<1>4. QED BY <1>1, <1>2, <1>3, PTL DEF Spec

\* Whatever tabs, kills, failed reads, expired links and the owner do: each
\* signer signs once, in a sequential workflow in turn, and the workflow is
\* completed only when everybody has signed whose link is alive, or a call has
\* taken a count that failed for nobody left.
THEOREM Refinement == Spec => ImplementsRound
<1>1. Init => Inv /\ Round!Init BY InitInv
<1>2. Inv /\ [Next]_vars => Inv' /\ [Round!Next]_(Round!vars) BY Step DEF RoundStep
<1>3. QED BY <1>1, <1>2, PTL DEF Spec, ImplementsRound, Round!Spec

\* The log and the order of signing never part: nobody is asked before all
\* before him have been asked, who stamps the PDF has his turn until his
\* signature is on record, and unless a count has failed nobody is left when
\* the workflow is completed.
THEOREM TurnsHold == Spec => [](NoneSkipped /\ WritersInTurn /\ CompletedByAll)
<1>1. Init => Inv BY InitInv
<1>2. Inv /\ [Next]_vars => Inv' BY Step
<1>3. Inv => NoneSkipped /\ WritersInTurn /\ CompletedByAll BY DEF Inv
<1>4. QED BY <1>1, <1>2, <1>3, PTL DEF Spec
=============================================================================
