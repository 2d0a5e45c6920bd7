------------------------- MODULE AnchorWorkerProofs -------------------------
(***************************************************************************)
(* Theorems about AnchorWorker, for every number of calls, invocations,    *)
(* attempts and faults, on either network.                                 *)
(*                                                                         *)
(* A worker's plan is a program it goes on with whatever happens to the    *)
(* row, so each invariant says of the tokens still to be done what they    *)
(* rely on.  ConfirmationIsReal needs that the chain takes nothing back    *)
(* (TokenIsReal) and holds whatever overlaps.  FailureIsRecorded needs     *)
(* that a plan appends its failure before it marks one (PlansRecordFirst). *)
(* WindowIsFresh and the lifecycle need that an update finds the row as it *)
(* was claimed (PlansHoldRow), which holds while nobody has overlapped:    *)
(* until then at most one call and one invocation have the row at a time.  *)
(***************************************************************************)
EXTENDS AnchorWorker, TLAPS

AnyEvent == [kind : {"anchor.submitted", "anchor.pending", "anchor.confirmed", "anchor.timeout",
                     "anchor.failed", "anchor.final_failed"},
             tx : Nat]
Tokens ==
       [do : {"check", "stamp", "retry", "upgrade", "fail", "confirm", "refuse"}]
  \cup [do : {"store"}, tx : Nat]
  \cup [do : {"emit"}, event : AnyEvent]

\* TypeOK and the type of the plans.
TypeInv == /\ TypeOK
           /\ worker \in [Workers -> [seen : Rows, plan : Seq(Tokens)]]

Mined(tx) == tx \in DOMAIN chain /\ chain[tx] = "mined"

\* What a token says of a transaction is so.
TokenIsReal(token, s) ==
  /\ token.do = "check" => s.tx \in DOMAIN chain
  /\ token.do = "store" => token.tx \in DOMAIN chain
  /\ token.do \in {"confirm", "upgrade"} => Mined(s.tx)
  /\ token.do = "emit" /\ token.event.kind = "anchor.confirmed" => Mined(token.event.tx)

PlansAreReal ==
  \A w \in Workers : \A i \in DOMAIN worker[w].plan :
    TokenIsReal(worker[w].plan[i], worker[w].seen)

\* The transactions that the row and the calls name were sent.
TxsAreSent ==
  /\ row.tx # 0 => row.tx \in DOMAIN chain
  /\ \A s \in Submitters : submit[s].tx # 0 => submit[s].tx \in DOMAIN chain

ConfirmedIsMined ==
  /\ row.status = "confirmed" => Mined(row.tx)
  /\ \A e \in ledger : e.kind = "anchor.confirmed" => Mined(e.tx)

ConfirmInv == TypeInv /\ TxsAreSent /\ PlansAreReal /\ ConfirmedIsMined

\* An invocation marks a failure that is on record, or whose append was refused, or that
\* it records first.
Known == Recorded("anchor.failed") \/ unrecorded
EmitsFailure(token) == token.do = "emit" /\ token.event.kind = "anchor.failed"

PlansRecordFirst ==
  \A w \in Workers : \A i \in DOMAIN worker[w].plan :
    LET token == worker[w].plan[i] IN
    /\ token.do \notin {"stamp", "refuse", "store"}
    /\ token.do = "fail" =>
         Known \/ \E k \in 1 .. i - 1 : EmitsFailure(worker[w].plan[k])

FailureInv == /\ TypeInv
              /\ network = "polygon" => PlansRecordFirst
              /\ FailureIsRecorded

\* The one update of a plan finds the row as the invocation claimed it.
PlansHoldRow ==
  \A w \in Workers : \A i \in DOMAIN worker[w].plan :
    worker[w].plan[i].do # "emit" =>
      /\ row.status = "processing"
      /\ row.tx = worker[w].seen.tx /\ row.since = worker[w].seen.since
      /\ \A k \in DOMAIN worker[w].plan : k > i => worker[w].plan[k].do = "emit"

\* A call that has sent its transaction finds no live row.
CallsHoldRow ==
  \A s \in Submitters :
    submit[s].pc \in {"send", "store"} => row.status \in {"none", "failed"}

RowIsFresh == /\ row.status \in {"pending", "processing"} /\ row.tx # 0 => row.since = row.tx
              /\ row.status = "queued" => row.tx = 0

OneAtATime ==
  /\ \A s, t \in Submitters : submit[s] # NoSubmit /\ submit[t] # NoSubmit => s = t
  /\ \A v, w \in Workers : worker[v] # NoWork /\ worker[w] # NoWork => v = w

AloneInv == TypeInv /\ OneAtATime /\ PlansHoldRow /\ CallsHoldRow /\ RowIsFresh

UntilOverlap == TypeInv /\ (~overlapped => AloneInv)
-----------------------------------------------------------------------------
(* Plans and their tokens.                                                 *)

LEMMA ProceedPlan ==
  ASSUME TypeInv, NEW w \in Workers, worker[w].plan # <<>>, Proceed(w)
  PROVE  /\ worker' \in [Workers -> [seen : Rows, plan : Seq(Tokens)]]
         /\ \A v \in Workers : v # w => worker'[v] = worker[v]
         /\ \A i \in DOMAIN worker'[w].plan :
              /\ worker'[w].seen = worker[w].seen
              /\ i + 1 \in DOMAIN worker[w].plan
              /\ worker'[w].plan[i] = worker[w].plan[i + 1]
<1> DEFINE plan == worker[w].plan
<1>1. /\ worker[w] \in [seen : Rows, plan : Seq(Tokens)]
      /\ plan \in Seq(Tokens) /\ worker[w].seen \in Rows
  BY DEF TypeInv
<1>2. /\ Tail(plan) \in Seq(Tokens)
      /\ \A i \in DOMAIN Tail(plan) : i + 1 \in DOMAIN plan /\ Tail(plan)[i] = plan[i + 1]
  BY <1>1
<1>3. NoWork \in [seen : Rows, plan : Seq(Tokens)] /\ DOMAIN NoWork.plan = {}
  BY DEF NoWork, NoRow, Rows, Statuses
<1>4. worker'[w] = IF Len(plan) = 1 THEN NoWork
                   ELSE [seen |-> worker[w].seen, plan |-> Tail(plan)]
  <2>1. worker'[w] = IF Len(plan) = 1 THEN NoWork ELSE [worker[w] EXCEPT !.plan = Tail(plan)]
    BY <1>1 DEF TypeInv, Proceed
  <2>2. [worker[w] EXCEPT !.plan = Tail(plan)] = [seen |-> worker[w].seen, plan |-> Tail(plan)]
    BY <1>1
  <2>3. QED BY <2>1, <2>2
<1>5. worker'[w] \in [seen : Rows, plan : Seq(Tokens)]
  BY <1>1, <1>2, <1>3, <1>4
<1>6. /\ worker' \in [Workers -> [seen : Rows, plan : Seq(Tokens)]]
      /\ \A v \in Workers : v # w => worker'[v] = worker[v]
  BY <1>5 DEF TypeInv, Proceed
<1>7. ASSUME NEW i \in DOMAIN worker'[w].plan
      PROVE  /\ worker'[w].seen = worker[w].seen
             /\ i + 1 \in DOMAIN plan /\ worker'[w].plan[i] = plan[i + 1]
  BY <1>2, <1>3, <1>4
<1>8. QED BY <1>6, <1>7

LEMMA NewPlan ==
  ASSUME TypeInv, NEW w \in Workers, NEW plan \in Seq(Tokens),
         worker' = [worker EXCEPT ![w].plan = plan]
  PROVE  /\ worker' \in [Workers -> [seen : Rows, plan : Seq(Tokens)]]
         /\ \A v \in Workers : v # w => worker'[v] = worker[v]
         /\ worker'[w].seen = worker[w].seen /\ worker'[w].plan = plan
  BY DEF TypeInv

LEMMA TokensTyped ==
  /\ {Check, Stamp, Retry, Upgrade, MarkFailed, MarkConfirmed, Refuse} \subseteq Tokens
  /\ \A tx \in Nat : Store(tx) \in Tokens
  /\ \A s \in Rows :
       /\ Failed(s) \in Tokens
       /\ \A kind \in {"anchor.pending", "anchor.confirmed", "anchor.timeout",
                       "anchor.final_failed"} : Emit(kind, s.tx) \in Tokens
  BY DEF Tokens, Check, Stamp, Retry, Upgrade, MarkFailed, MarkConfirmed, Refuse, Store,
     Failed, Emit, AnyEvent, Rows

LEMMA PlansTyped ==
  ASSUME NEW s \in Rows, NEW result, NEW plan \in Plans(s, result)
  PROVE  plan \in Seq(Tokens)
<1>1. /\ {Retry, Upgrade, MarkFailed, MarkConfirmed} \subseteq Tokens
      /\ Failed(s) \in Tokens
      /\ \A kind \in {"anchor.pending", "anchor.confirmed", "anchor.timeout",
                      "anchor.final_failed"} : Emit(kind, s.tx) \in Tokens
  BY TokensTyped
<1>2. PolygonPlan(s, result) \in Seq(Tokens)
  BY <1>1 DEF PolygonPlan
<1>3. BitcoinPlans(s, result) \subseteq Seq(Tokens)
  <2>1. ASSUME NEW p \in BitcoinPlans(s, result)
        PROVE  \/ p = <<MarkFailed, Emit("anchor.timeout", s.tx),
                        Emit("anchor.final_failed", s.tx)>>
               \/ p = <<MarkConfirmed, Emit("anchor.confirmed", s.tx)>>
               \/ p = <<Upgrade, Emit("anchor.pending", s.tx)>>
               \/ p = <<Retry>>
    BY DEF BitcoinPlans
  <2>2. QED
    <3>1. ASSUME NEW a \in Tokens, NEW b \in Tokens, NEW c \in Tokens
          PROVE  <<a>> \in Seq(Tokens) /\ <<a, b>> \in Seq(Tokens) /\ <<a, b, c>> \in Seq(Tokens)
      OBVIOUS
    <3>2. QED BY <1>1, <2>1, <3>1
<1>4. QED BY <1>2, <1>3 DEF Plans

LEMMA PlansInOrder ==
  ASSUME NEW s \in Rows, NEW result, NEW plan \in Plans(s, result)
  PROVE  /\ \A i \in DOMAIN plan : plan[i].do \in {"retry", "upgrade", "fail", "confirm", "emit"}
         /\ \A i, k \in DOMAIN plan : plan[i].do # "emit" /\ k > i => plan[k].do = "emit"
  BY DEF Plans, PolygonPlan, BitcoinPlans, Retry, Upgrade, MarkFailed, MarkConfirmed, Failed, Emit

LEMMA PlansConfirm ==
  ASSUME NEW s \in Rows, NEW result, NEW plan \in Plans(s, result), NEW i \in DOMAIN plan
  PROVE  /\ plan[i].do \in {"confirm", "upgrade"} => result = "mined"
         /\ plan[i].do = "emit" /\ plan[i].event.kind = "anchor.confirmed" =>
              result = "mined" /\ plan[i].event.tx = s.tx
  BY DEF Plans, PolygonPlan, BitcoinPlans, Retry, Upgrade, MarkFailed, MarkConfirmed, Failed, Emit

LEMMA PlansRecord ==
  ASSUME NEW s \in Rows, NEW result, NEW plan \in Plans(s, result), network = "polygon",
         NEW i \in DOMAIN plan, plan[i].do = "fail"
  PROVE  \E k \in 1 .. i - 1 : EmitsFailure(plan[k])
  BY DEF Plans, PolygonPlan, EmitsFailure, Retry, Upgrade, MarkFailed, MarkConfirmed, Failed, Emit
-----------------------------------------------------------------------------
(* Types, action by action.                                                *)

LEMMA AppendTypes ==
  ASSUME TypeInv, NEW e \in AnyEvent, TryAppend(e)
  PROVE  ledger' \subseteq Events /\ faults' \in 0 .. MaxFaults /\ unrecorded' \in BOOLEAN
<1>1. ledger' \subseteq Events
  BY DEF TypeInv, TypeOK, TryAppend, AppendEvent, AnyEvent, Events
<1>2. faults' \in 0 .. MaxFaults
  BY AnchorAssumption DEF TypeInv, TypeOK, TryAppend, Fault
<1>3. unrecorded' \in BOOLEAN
  <2>1. unrecorded' = unrecorded \/ unrecorded' = (unrecorded \/ e.kind = "anchor.failed")
    BY DEF TryAppend
  <2>2. unrecorded \in BOOLEAN
    BY DEF TypeInv, TypeOK
  <2>3. QED BY <2>1, <2>2
<1>4. QED BY <1>1, <1>2, <1>3

LEMMA InitTypes == Init => TypeInv
<1> SUFFICES ASSUME Init PROVE TypeInv
  OBVIOUS
<1>1. NoRow \in Rows
  BY DEF NoRow, Rows, Statuses
<1>2. TypeOK
  <2>1. unrecorded \in BOOLEAN /\ overlapped \in BOOLEAN
    BY DEF Init
  <2>2. QED BY <1>1, <2>1, AnchorAssumption DEF Init, TypeOK, NoSubmit, NoWork, Events
<1>3. NoWork \in [seen : Rows, plan : Seq(Tokens)]
  BY <1>1 DEF NoWork
<1>4. QED BY <1>2, <1>3 DEF TypeInv, Init

LEMMA LookUpTypes ==
  ASSUME TypeInv, NEW s \in Submitters, LookUp(s) PROVE TypeInv'
<1>1. /\ row.tx \in Nat /\ row \in Rows /\ submits' \in 0 .. MaxSubmits
  BY AnchorAssumption DEF TypeInv, TypeOK, LookUp, Rows
<1>2. submit' \in [Submitters -> [pc : {"idle", "send", "store", "reported", "failed"},
                                  seen : Rows, tx : Nat]]
  BY <1>1 DEF TypeInv, TypeOK, LookUp, NoSubmit
<1>3. QED BY <1>1, <1>2 DEF TypeInv, TypeOK, LookUp

LEMMA SendTypes ==
  ASSUME TypeInv, NEW s \in Submitters, SendTransaction(s) PROVE TypeInv'
<1>1. /\ chain' \in Seq({"waiting", "mined", "reverted"})
      /\ DOMAIN chain \subseteq DOMAIN chain' /\ Len(chain') \in Nat
  BY DEF TypeInv, TypeOK, SendTransaction
<1>2. submit' \in [Submitters -> [pc : {"idle", "send", "store", "reported", "failed"},
                                  seen : Rows, tx : Nat]]
  BY <1>1 DEF TypeInv, TypeOK, SendTransaction
<1>3. QED BY <1>1, <1>2 DEF notes, TypeInv, TypeOK, SendTransaction

LEMMA StoreTypes ==
  ASSUME TypeInv, NEW s \in Submitters, StoreRow(s) PROVE TypeInv'
<1>1. submit[s].tx \in Nat /\ submit[s].seen \in Rows
  BY DEF TypeInv, TypeOK
<1>2. row' \in Rows
  BY <1>1 DEF StoreRow, Rows, Statuses
<1>3. submit' \in [Submitters -> [pc : {"idle", "send", "store", "reported", "failed"},
                                  seen : Rows, tx : Nat]]
  BY <1>1 DEF TypeInv, TypeOK, StoreRow, NoSubmit, NoRow, Rows, Statuses
<1>4. QED BY <1>2, <1>3 DEF notes, TypeInv, TypeOK, StoreRow

LEMMA CallTypes ==
  ASSUME TypeInv, NEW s \in Submitters, SubmitFails(s) \/ Report(s) PROVE TypeInv'
<1>1. NoSubmit \in [pc : {"idle", "send", "store", "reported", "failed"}, seen : Rows, tx : Nat]
  BY DEF NoSubmit, NoRow, Rows, Statuses
<1>2. submit' \in [Submitters -> [pc : {"idle", "send", "store", "reported", "failed"},
                                  seen : Rows, tx : Nat]]
  <2>1. CASE SubmitFails(s)
    BY <2>1 DEF TypeInv, TypeOK, SubmitFails
  <2>2. CASE Report(s)
    BY <1>1, <2>2 DEF TypeInv, TypeOK, Report
  <2>3. QED BY <2>1, <2>2
<1>3. CASE SubmitFails(s)
  BY <1>2, <1>3, AnchorAssumption DEF notes, TypeInv, TypeOK, SubmitFails, Fault
<1>4. CASE Report(s)
  <2>1. \E e \in AnyEvent : TryAppend(e)
    BY <1>4 DEF Report, AnyEvent, TypeInv, TypeOK
  <2>2. ledger' \subseteq Events /\ faults' \in 0 .. MaxFaults /\ unrecorded' \in BOOLEAN
    BY <2>1, AppendTypes
  <2>3. QED BY <1>2, <1>4, <2>2 DEF TypeInv, TypeOK, Report
<1>5. QED BY <1>3, <1>4

LEMMA ClaimTypes ==
  ASSUME TypeInv, NEW w \in Workers, NEW token \in Tokens, Claim(w, token) PROVE TypeInv'
<1>1. row' \in Rows
  BY DEF TypeInv, TypeOK, Claim, Rows, Statuses
<1>2. <<token>> \in Seq(Tokens)
  OBVIOUS
<1>3. worker' \in [Workers -> [seen : Rows, plan : Seq(Tokens)]]
  BY <1>1, <1>2 DEF TypeInv, Claim
<1>4. QED BY <1>1, <1>3 DEF TypeInv, TypeOK, Claim

LEMMA CheckTypes ==
  ASSUME TypeInv, NEW w \in Workers, CheckAnchor(w)
  PROVE  /\ TypeInv'
         /\ \E result \in {"expired", "error", "waiting", "mined", "reverted"} :
              \E plan \in Plans(worker[w].seen, result) :
                /\ result = "mined" => chain[worker[w].seen.tx] = "mined"
                /\ worker'[w].plan = plan /\ worker'[w].seen = worker[w].seen
                /\ \A v \in Workers : v # w => worker'[v] = worker[v]
<1> DEFINE s == worker[w].seen
<1>1. PICK result \in {"expired", "error", "waiting", "mined", "reverted"} :
        /\ IF TimedOut(s) THEN result = "expired" ELSE result \in {chain[s.tx], "error"}
        /\ \E plan \in Plans(s, result) : worker' = [worker EXCEPT ![w].plan = plan]
  BY DEF CheckAnchor
<1>2. PICK plan \in Plans(s, result) : worker' = [worker EXCEPT ![w].plan = plan]
  BY <1>1
<1>3. s \in Rows
  BY DEF TypeInv, TypeOK
<1>4. plan \in Seq(Tokens)
  BY <1>3, PlansTyped
<1>5. /\ worker' \in [Workers -> [seen : Rows, plan : Seq(Tokens)]]
      /\ \A v \in Workers : v # w => worker'[v] = worker[v]
      /\ worker'[w].seen = s /\ worker'[w].plan = plan
  BY <1>2, <1>4, NewPlan
<1>6. TypeInv'
  BY <1>5, AnchorAssumption DEF notes, TypeInv, TypeOK, CheckAnchor, Fault
<1>7. result = "mined" => chain[s.tx] = "mined"
  BY <1>1
<1>8. QED BY <1>1, <1>5, <1>6, <1>7

LEMMA StampTypes ==
  ASSUME TypeInv, NEW w \in Workers, StampQueued(w)
  PROVE  /\ TypeInv'
         /\ worker'[w].plan = <<Refuse>> \/ worker'[w].plan = <<Store(Len(chain'))>>
         /\ worker'[w].seen = worker[w].seen
         /\ \A v \in Workers : v # w => worker'[v] = worker[v]
         /\ worker'[w].plan = <<Store(Len(chain'))>> => chain' = Append(chain, "waiting")
<1>1. /\ chain' \in Seq({"waiting", "mined", "reverted"})
      /\ DOMAIN chain \subseteq DOMAIN chain' /\ Len(chain') \in Nat
  <2>1. chain' = chain \/ chain' = Append(chain, "waiting")
    BY DEF StampQueued
  <2>2. CASE chain' = chain
    BY <2>2 DEF TypeInv, TypeOK
  <2>3. CASE chain' = Append(chain, "waiting")
    BY <2>3 DEF TypeInv, TypeOK
  <2>4. QED BY <2>1, <2>2, <2>3
<1>2. PICK plan \in {<<Refuse>>, <<Store(Len(chain'))>>} :
        /\ worker' = [worker EXCEPT ![w].plan = plan]
        /\ chain' = Append(chain, "waiting") \/ plan = <<Refuse>>
  BY DEF StampQueued
<1>3. /\ plan \in Seq(Tokens)
      /\ <<Refuse>> # <<Store(Len(chain'))>>
  <2>1. Refuse \in Tokens /\ Store(Len(chain')) \in Tokens
    BY <1>1, TokensTyped
  <2>2. Refuse # Store(Len(chain'))
    BY DEF Refuse, Store
  <2>3. plan \in Seq(Tokens)
    <3>1. <<Refuse>> \in Seq(Tokens) /\ <<Store(Len(chain'))>> \in Seq(Tokens)
      BY <2>1
    <3>2. QED BY <1>2, <3>1
  <2>4. QED BY <2>2, <2>3
<1>4. /\ worker' \in [Workers -> [seen : Rows, plan : Seq(Tokens)]]
      /\ \A v \in Workers : v # w => worker'[v] = worker[v]
      /\ worker'[w].seen = worker[w].seen /\ worker'[w].plan = plan
  BY <1>2, <1>3, NewPlan
<1>5. TypeInv'
  BY <1>1, <1>4, AnchorAssumption DEF notes, TypeInv, TypeOK, StampQueued, Fault
<1>6. QED BY <1>2, <1>3, <1>4, <1>5

\* What an update leaves of the row.
LEMMA Updates ==
  ASSUME TypeInv, NEW w \in Workers, WriteRow(w)
  PROVE  LET s == worker[w].seen
             token == worker[w].plan[1]
         IN
         /\ row' \in Rows
         /\ \/ /\ token.do \in {"retry", "upgrade"} /\ row'.status = "processing"
               /\ row'.tx = (IF token.do = "retry" THEN row.tx ELSE s.tx)
               /\ row'.since = s.since
            \/ token.do \in {"fail", "refuse"} /\ row'.status = "failed" /\ row'.tx = row.tx
            \/ token.do = "confirm" /\ row'.status = "confirmed" /\ row'.tx = s.tx
            \/ /\ token.do = "store" /\ row'.status = "pending"
               /\ row'.tx = token.tx /\ row'.since = token.tx
<1> DEFINE s == worker[w].seen
           token == worker[w].plan[1]
<1>1. /\ s \in Rows /\ row \in Rows /\ worker[w].plan \in Seq(Tokens)
      /\ token \in Tokens /\ Head(worker[w].plan) = token
  BY DEF TypeInv, TypeOK, WriteRow
<1>2. s.attempts + 1 \in Nat /\ s.since \in Nat /\ s.tx \in Nat
  BY <1>1 DEF Rows
<1>3. CASE token = Retry /\ row' = RetryRow(row, s)
  <2>1. token.do = "retry"
    BY <1>3 DEF Retry
  <2>2. QED BY <1>1, <1>2, <1>3, <2>1 DEF RetryRow, Rows, Statuses
<1>9. CASE token = Upgrade /\ row' = UpgradeRow(row, s)
  <2>1. token.do = "upgrade"
    BY <1>9 DEF Upgrade
  <2>2. QED BY <1>1, <1>2, <1>9, <2>1 DEF UpgradeRow, RetryRow, Rows, Statuses
<1>4. CASE token = MarkFailed /\ row' = FailRow(row, s)
  <2>1. token.do = "fail"
    BY <1>4 DEF MarkFailed
  <2>2. QED BY <1>1, <1>2, <1>4, <2>1 DEF FailRow, Rows, Statuses
<1>5. CASE token = MarkConfirmed /\ row' = ConfirmRow(row, s)
  <2>1. token.do = "confirm"
    BY <1>5 DEF MarkConfirmed
  <2>2. QED BY <1>1, <1>2, <1>5, <2>1 DEF ConfirmRow, Rows, Statuses
<1>6. CASE token = Refuse /\ row' = [row EXCEPT !.status = "failed"]
  BY <1>1, <1>6 DEF Refuse, Rows, Statuses
<1>7. CASE token.do = "store" /\ row' = StampedRow(s, token.tx)
  <2>1. token.tx \in Nat
    BY <1>1, <1>7 DEF Tokens
  <2>2. QED BY <1>7, <2>1 DEF StampedRow, Rows, Statuses
<1>8. QED BY <1>1, <1>3, <1>4, <1>5, <1>6, <1>7, <1>9 DEF WriteRow

LEMMA WriteTypes ==
  ASSUME TypeInv, NEW w \in Workers, WriteRow(w) PROVE TypeInv'
<1>1. row' \in Rows
  BY Updates
<1>2. worker' \in [Workers -> [seen : Rows, plan : Seq(Tokens)]]
  BY ProceedPlan DEF WriteRow
<1>3. QED BY <1>1, <1>2 DEF notes, TypeInv, TypeOK, WriteRow

LEMMA EmitTypes ==
  ASSUME TypeInv, NEW w \in Workers, EmitEvent(w)
  PROVE  /\ TypeInv'
         /\ worker[w].plan[1].do = "emit" /\ TryAppend(worker[w].plan[1].event)
<1> DEFINE token == worker[w].plan[1]
<1>1. /\ worker[w].plan \in Seq(Tokens) /\ worker[w].plan # <<>>
      /\ token \in Tokens /\ Head(worker[w].plan) = token
  BY DEF TypeInv, EmitEvent
<1>2. token.do = "emit" /\ TryAppend(token.event)
  BY <1>1 DEF EmitEvent
<1>3. token.event \in AnyEvent
  BY <1>1, <1>2 DEF Tokens
<1>4. ledger' \subseteq Events /\ faults' \in 0 .. MaxFaults /\ unrecorded' \in BOOLEAN
  BY <1>2, <1>3, AppendTypes
<1>5. worker' \in [Workers -> [seen : Rows, plan : Seq(Tokens)]]
  BY ProceedPlan DEF EmitEvent
<1>6. TypeInv'
  BY <1>4, <1>5 DEF TypeInv, TypeOK, EmitEvent
<1>7. QED BY <1>2, <1>6

LEMMA EnvironmentTypes ==
  ASSUME TypeInv,
         RetryDue \/ Crash \/ \E tx \in DOMAIN chain : WindowPasses(tx) \/ Settles(tx)
  PROVE  TypeInv'
<1>1. CASE RetryDue
  <2>1. row' \in Rows
    BY <1>1 DEF TypeInv, TypeOK, RetryDue, Rows
  <2>2. QED BY <1>1, <2>1 DEF notes, TypeInv, TypeOK, RetryDue
<1>2. CASE Crash
  <2>1. NoRow \in Rows
    BY DEF NoRow, Rows, Statuses
  <2>2. /\ NoSubmit \in [pc : {"idle", "send", "store", "reported", "failed"},
                         seen : Rows, tx : Nat]
        /\ NoWork \in [seen : Rows, plan : Seq(Tokens)]
    BY <2>1 DEF NoSubmit, NoWork
  <2>3. submit' \in [Submitters -> [pc : {"idle", "send", "store", "reported", "failed"},
                                    seen : Rows, tx : Nat]]
    BY <1>2, <2>2 DEF TypeInv, TypeOK, Crash
  <2>4. worker' \in [Workers -> [seen : Rows, plan : Seq(Tokens)]]
    BY <1>2, <2>2 DEF TypeInv, Crash
  <2>5. faults' \in 0 .. MaxFaults
    BY <1>2, AnchorAssumption DEF TypeInv, TypeOK, Crash, Fault
  <2>6. QED BY <1>2, <2>3, <2>4, <2>5 DEF notes, TypeInv, TypeOK, Crash
<1>3. ASSUME NEW tx \in DOMAIN chain, WindowPasses(tx) PROVE TypeInv'
  BY <1>3 DEF notes, TypeInv, TypeOK, WindowPasses
<1>4. ASSUME NEW tx \in DOMAIN chain, Settles(tx) PROVE TypeInv'
  <2>1. chain' \in Seq({"waiting", "mined", "reverted"}) /\ DOMAIN chain' = DOMAIN chain
    BY <1>4 DEF TypeInv, TypeOK, Settles
  <2>2. QED BY <1>4, <2>1 DEF notes, TypeInv, TypeOK, Settles
<1>5. QED BY <1>1, <1>2, <1>3, <1>4

LEMMA TypesKept == TypeInv /\ [Next]_vars => TypeInv'
<1> SUFFICES ASSUME TypeInv, [Next]_vars PROVE TypeInv'
  OBVIOUS
<1>1. ASSUME NEW s \in Submitters,
             LookUp(s) \/ SendTransaction(s) \/ StoreRow(s) \/ SubmitFails(s) \/ Report(s)
      PROVE  TypeInv'
  BY <1>1, LookUpTypes, SendTypes, StoreTypes, CallTypes
<1>2. ASSUME NEW w \in Workers, ClaimPending(w) \/ ClaimQueued(w) PROVE TypeInv'
  BY <1>2, ClaimTypes, TokensTyped DEF ClaimPending, ClaimQueued
<1>3. ASSUME NEW w \in Workers, Work(w) PROVE TypeInv'
  BY <1>3, CheckTypes, StampTypes, WriteTypes, EmitTypes DEF Work
<1>4. CASE UNCHANGED vars
  BY <1>4 DEF vars, notes, TypeInv, TypeOK
<1>5. QED BY <1>1, <1>2, <1>3, <1>4, EnvironmentTypes DEF Next

\* Every variable keeps its type, the plans of the workers included.
THEOREM TypeCorrect == Spec => []TypeOK
<1>1. TypeInv => TypeOK
  BY DEF TypeInv
<1>2. QED BY <1>1, InitTypes, TypesKept, PTL DEF Spec
-----------------------------------------------------------------------------
(* Confirmations.                                                          *)

\* A step of the chain: nothing is taken back.
ChainGrows == \A tx \in DOMAIN chain : tx \in DOMAIN chain' /\ (Mined(tx) => Mined(tx)')

LEMMA ChainKept == TypeInv /\ [Next]_vars => ChainGrows
<1> SUFFICES ASSUME TypeInv, [Next]_vars PROVE ChainGrows
  OBVIOUS
<1>1. \/ chain' = chain \/ chain' = Append(chain, "waiting")
      \/ \E tx \in DOMAIN chain : Settles(tx)
  BY DEF Next, vars, notes, LookUp, SendTransaction, StoreRow, SubmitFails, Report, Claim,
         ClaimPending, ClaimQueued, Work, CheckAnchor, StampQueued, WriteRow, EmitEvent,
         RetryDue, Crash, WindowPasses
<1>2. chain \in Seq({"waiting", "mined", "reverted"})
  BY DEF TypeInv, TypeOK
<1>3. CASE chain' = Append(chain, "waiting")
  BY <1>2, <1>3 DEF ChainGrows, Mined
<1>4. ASSUME NEW tx \in DOMAIN chain, Settles(tx) PROVE ChainGrows
  BY <1>2, <1>4 DEF ChainGrows, Mined, Settles
<1>5. CASE chain' = chain
  BY <1>5 DEF ChainGrows, Mined
<1>6. QED BY <1>1, <1>3, <1>4, <1>5

LEMMA TokensStayReal ==
  ASSUME ChainGrows
  PROVE  \A token, s : TokenIsReal(token, s) => TokenIsReal(token, s)'
<1> SUFFICES ASSUME NEW token, NEW s, TokenIsReal(token, s) PROVE TokenIsReal(token, s)'
  OBVIOUS
<1>1. \A tx : Mined(tx) => Mined(tx)'
  BY DEF ChainGrows, Mined
<1>2. \A tx \in DOMAIN chain : tx \in DOMAIN chain'
  BY DEF ChainGrows
<1>3. QED BY <1>1, <1>2 DEF TokenIsReal

LEMMA OthersStayReal ==
  ASSUME PlansAreReal, ChainGrows, NEW w \in Workers,
         \A v \in Workers : v # w => worker'[v] = worker[v],
         \A i \in DOMAIN worker'[w].plan : TokenIsReal(worker[w].plan[i], worker[w].seen)'
  PROVE  PlansAreReal'
  BY TokensStayReal DEF PlansAreReal

LEMMA ClaimReal ==
  ASSUME TypeInv, PlansAreReal, ChainGrows, NEW w \in Workers, NEW token \in {Check, Stamp},
         token = Check => row.tx \in DOMAIN chain, Claim(w, token)
  PROVE  PlansAreReal'
<1>1. /\ worker'[w].plan = <<token>> /\ worker'[w].seen = row' /\ row'.tx = row.tx
      /\ \A v \in Workers : v # w => worker'[v] = worker[v]
  BY DEF Claim, TypeInv, TypeOK, Rows
<1>2. chain' = chain
  BY DEF Claim
<1>3. \A i \in DOMAIN worker'[w].plan : TokenIsReal(worker[w].plan[i], worker[w].seen)'
  BY <1>1, <1>2 DEF TokenIsReal, Check, Stamp
<1>4. QED BY <1>1, <1>3, OthersStayReal

LEMMA WorkReal ==
  ASSUME TypeInv, PlansAreReal, ChainGrows, NEW w \in Workers, Work(w)
  PROVE  PlansAreReal'
<1> DEFINE s == worker[w].seen
<1>1. s \in Rows
  BY DEF TypeInv, TypeOK
<1>2. CASE CheckAnchor(w)
  <2>1. PICK result \in {"expired", "error", "waiting", "mined", "reverted"} :
          \E plan \in Plans(s, result) :
            /\ result = "mined" => chain[s.tx] = "mined"
            /\ worker'[w].plan = plan /\ worker'[w].seen = s
            /\ \A v \in Workers : v # w => worker'[v] = worker[v]
    BY <1>2, CheckTypes
  <2>2. PICK plan \in Plans(s, result) : worker'[w].plan = plan
    BY <2>1
  <2>3. worker[w].plan = <<Check>> /\ chain' = chain
    BY <1>2 DEF CheckAnchor
  <2>4. s.tx \in DOMAIN chain
    BY <2>3 DEF PlansAreReal, TokenIsReal, Check
  <2>5. ASSUME NEW i \in DOMAIN worker'[w].plan
        PROVE  TokenIsReal(worker[w].plan[i], worker[w].seen)'
    <3>1. plan[i].do \in {"retry", "upgrade", "fail", "confirm", "emit"}
      BY <1>1, <2>2, PlansInOrder
    <3>2. /\ plan[i].do \in {"confirm", "upgrade"} => result = "mined"
          /\ plan[i].do = "emit" /\ plan[i].event.kind = "anchor.confirmed" =>
               result = "mined" /\ plan[i].event.tx = s.tx
      BY <1>1, <2>2, PlansConfirm
    <3>3. QED BY <2>1, <2>2, <2>3, <2>4, <3>1, <3>2 DEF TokenIsReal, Mined
  <2>6. QED BY <2>1, <2>5, OthersStayReal
<1>3. CASE StampQueued(w)
  <2>1. /\ worker'[w].plan = <<Refuse>> \/ worker'[w].plan = <<Store(Len(chain'))>>
        /\ \A v \in Workers : v # w => worker'[v] = worker[v]
        /\ worker'[w].plan = <<Store(Len(chain'))>> => chain' = Append(chain, "waiting")
    BY <1>3, StampTypes
  <2>2. ASSUME worker'[w].plan = <<Refuse>>, NEW i \in DOMAIN worker'[w].plan
        PROVE  TokenIsReal(worker[w].plan[i], worker[w].seen)'
    BY <2>2 DEF TokenIsReal, Refuse
  <2>3. ASSUME worker'[w].plan = <<Store(Len(chain'))>>, NEW i \in DOMAIN worker'[w].plan
        PROVE  TokenIsReal(worker[w].plan[i], worker[w].seen)'
    <3>1. worker'[w].plan[i] = Store(Len(chain'))
      BY <2>3
    <3>2. Len(chain') \in DOMAIN chain'
      BY <2>1, <2>3 DEF TypeInv, TypeOK
    <3>3. QED BY <3>1, <3>2 DEF TokenIsReal, Store
  <2>4. QED BY <2>1, <2>2, <2>3, OthersStayReal
<1>4. CASE WriteRow(w) \/ EmitEvent(w)
  <2>1. worker[w].plan # <<>> /\ Proceed(w)
    BY <1>4 DEF WriteRow, EmitEvent
  <2>2. /\ \A v \in Workers : v # w => worker'[v] = worker[v]
        /\ \A i \in DOMAIN worker'[w].plan :
             /\ worker'[w].seen = s /\ i + 1 \in DOMAIN worker[w].plan
             /\ worker'[w].plan[i] = worker[w].plan[i + 1]
    BY <2>1, ProceedPlan
  <2>3. ASSUME NEW i \in DOMAIN worker'[w].plan
        PROVE  TokenIsReal(worker[w].plan[i], worker[w].seen)'
    BY <2>2, TokensStayReal DEF PlansAreReal
  <2>4. QED BY <2>2, <2>3, OthersStayReal
<1>5. QED BY <1>2, <1>3, <1>4 DEF Work

LEMMA PlansKeptReal ==
  ASSUME TypeInv, TxsAreSent, PlansAreReal, [Next]_vars PROVE PlansAreReal'
<1>1. ChainGrows
  BY ChainKept
<1>2. ASSUME NEW w \in Workers, ClaimPending(w) \/ ClaimQueued(w) PROVE PlansAreReal'
  <2>1. Stamp # Check
    BY DEF Stamp, Check
  <2>2. QED BY <1>1, <1>2, <2>1, ClaimReal DEF ClaimPending, ClaimQueued, TxsAreSent
<1>3. ASSUME NEW w \in Workers, Work(w) PROVE PlansAreReal'
  BY <1>1, <1>3, WorkReal
<1>4. CASE worker' = worker
  BY <1>1, <1>4, TokensStayReal DEF PlansAreReal
<1>5. CASE Crash
  <2>1. DOMAIN NoWork.plan = {}
    BY DEF NoWork
  <2>2. \A w \in Workers : worker'[w] = worker[w] \/ worker'[w] = NoWork
    BY <1>5 DEF Crash, TypeInv
  <2>3. QED BY <1>1, <2>1, <2>2, TokensStayReal DEF PlansAreReal
<1>6. QED BY <1>2, <1>3, <1>4, <1>5 DEF Next, vars, notes, LookUp, SendTransaction, StoreRow,
     SubmitFails, Report, RetryDue, WindowPasses, Settles

LEMMA RowTxKept ==
  ASSUME ConfirmInv, [Next]_vars
  PROVE  /\ row'.tx # 0 => row'.tx \in DOMAIN chain'
         /\ row'.status = "confirmed" => Mined(row.tx)'
<1>1. ChainGrows
  BY ChainKept DEF ConfirmInv
<1>2. row \in Rows /\ chain \in Seq({"waiting", "mined", "reverted"})
  BY DEF ConfirmInv, TypeInv, TypeOK
<1>3. ASSUME row'.tx = row.tx, row'.status # "confirmed" \/ row'.status = row.status
      PROVE  /\ row'.tx # 0 => row'.tx \in DOMAIN chain'
             /\ row'.status = "confirmed" => Mined(row.tx)'
  BY <1>1, <1>3 DEF ConfirmInv, TxsAreSent, ConfirmedIsMined, ChainGrows, Mined
<1>4. ASSUME NEW s \in Submitters, StoreRow(s)
      PROVE  /\ row'.tx # 0 => row'.tx \in DOMAIN chain'
             /\ row'.status = "confirmed" => Mined(row.tx)'
  BY <1>4 DEF ConfirmInv, TxsAreSent, StoreRow
<1>5. ASSUME NEW w \in Workers, WriteRow(w)
      PROVE  /\ row'.tx # 0 => row'.tx \in DOMAIN chain'
             /\ row'.status = "confirmed" => Mined(row.tx)'
  <2> DEFINE s == worker[w].seen
             token == worker[w].plan[1]
  <2>1. \/ token.do = "retry" /\ row'.status = "processing" /\ row'.tx = row.tx
        \/ token.do = "upgrade" /\ row'.status = "processing" /\ row'.tx = s.tx
        \/ token.do \in {"fail", "refuse"} /\ row'.status = "failed" /\ row'.tx = row.tx
        \/ token.do = "confirm" /\ row'.status = "confirmed" /\ row'.tx = s.tx
        \/ token.do = "store" /\ row'.status = "pending" /\ row'.tx = token.tx
    BY <1>5, Updates DEF ConfirmInv
  <2>2. TokenIsReal(token, s)
    <3>1. 1 \in DOMAIN worker[w].plan
      BY <1>5 DEF ConfirmInv, TypeInv, WriteRow
    <3>2. QED BY <3>1 DEF ConfirmInv, PlansAreReal
  <2>3. chain' = chain /\ 0 \notin DOMAIN chain
    BY <1>2, <1>5 DEF WriteRow
  <2>4. QED BY <1>3, <2>1, <2>2, <2>3 DEF TokenIsReal, Mined
<1>6. ASSUME NEW w \in Workers, NEW token, Claim(w, token)
      PROVE row'.tx = row.tx /\ row'.status # "confirmed"
  BY <1>2, <1>6 DEF Claim, Rows
<1>7. RetryDue => row'.tx = row.tx /\ row'.status = row.status
  BY <1>2 DEF RetryDue, Rows
<1>8. QED BY <1>3, <1>4, <1>5, <1>6, <1>7 DEF Next, vars, notes, LookUp, SendTransaction,
     SubmitFails, Report, ClaimPending, ClaimQueued, Work, CheckAnchor, StampQueued,
     EmitEvent, Crash, WindowPasses, Settles

LEMMA CallTxsKept ==
  ASSUME ConfirmInv, [Next]_vars, NEW s \in Submitters
  PROVE  submit'[s].tx # 0 => submit'[s].tx \in DOMAIN chain'
<1>1. ChainGrows
  BY ChainKept DEF ConfirmInv
<1>2. NoSubmit.tx = 0
  BY DEF NoSubmit
<1>3. /\ submit \in [Submitters -> [pc : {"idle", "send", "store", "reported", "failed"},
                                    seen : Rows, tx : Nat]]
      /\ chain \in Seq({"waiting", "mined", "reverted"})
  BY DEF ConfirmInv, TypeInv, TypeOK
<1>4. ASSUME submit'[s].tx \in {0, submit[s].tx, row.tx}
      PROVE  submit'[s].tx # 0 => submit'[s].tx \in DOMAIN chain'
  BY <1>1, <1>4 DEF ConfirmInv, TxsAreSent, ChainGrows
<1>5. ASSUME NEW t \in Submitters, SendTransaction(t)
      PROVE  submit'[s].tx # 0 => submit'[s].tx \in DOMAIN chain'
  <2>1. Len(chain') \in DOMAIN chain'
    BY <1>3, <1>5 DEF SendTransaction
  <2>2. submit'[s].tx = Len(chain') \/ submit'[s].tx = submit[s].tx
    BY <1>3, <1>5 DEF SendTransaction
  <2>3. QED BY <1>4, <2>1, <2>2
<1>6. ASSUME NEW t \in Submitters, LookUp(t) \/ StoreRow(t) \/ SubmitFails(t) \/ Report(t)
      PROVE  submit'[s].tx \in {0, submit[s].tx, row.tx}
  <2>1. CASE LookUp(t)
    BY <1>3, <2>1 DEF LookUp, NoSubmit
  <2>2. CASE StoreRow(t)
    BY <1>3, <2>2 DEF StoreRow
  <2>3. CASE SubmitFails(t) \/ Report(t)
    BY <1>2, <1>3, <2>3 DEF SubmitFails, Report
  <2>4. QED BY <1>6, <2>1, <2>2, <2>3
<1>7. Crash => submit'[s].tx \in {0, submit[s].tx, row.tx}
  BY <1>2, <1>3 DEF Crash
<1>8. QED BY <1>4, <1>5, <1>6, <1>7 DEF Next, vars, notes, ClaimPending, ClaimQueued, Claim, Work,
     CheckAnchor, StampQueued, WriteRow, EmitEvent, RetryDue, WindowPasses, Settles

LEMMA EventsKeptReal ==
  ASSUME ConfirmInv, [Next]_vars, NEW e \in ledger', e.kind = "anchor.confirmed"
  PROVE  Mined(e.tx)'
<1>1. ChainGrows
  BY ChainKept DEF ConfirmInv
<1>2. CASE e \in ledger
  BY <1>1, <1>2 DEF ConfirmInv, ConfirmedIsMined, ChainGrows, Mined
<1>3. ASSUME NEW f, TryAppend(f), f.kind # "anchor.confirmed" PROVE e \in ledger
  BY <1>3 DEF TryAppend, AppendEvent
<1>4. ASSUME NEW s \in Submitters, Report(s) PROVE e \in ledger
  BY <1>3, <1>4 DEF Report
<1>5. ASSUME NEW w \in Workers, EmitEvent(w) PROVE Mined(e.tx)'
  <2>1. /\ worker[w].plan[1].do = "emit" /\ TryAppend(worker[w].plan[1].event)
        /\ 1 \in DOMAIN worker[w].plan
    BY <1>5, EmitTypes DEF ConfirmInv, TypeInv, EmitEvent
  <2>2. e \in ledger \/ e = worker[w].plan[1].event
    BY <2>1 DEF TryAppend, AppendEvent
  <2>3. e = worker[w].plan[1].event => Mined(e.tx)
    BY <2>1 DEF ConfirmInv, PlansAreReal, TokenIsReal
  <2>4. QED BY <1>1, <1>2, <2>2, <2>3 DEF ChainGrows, Mined
<1>6. QED BY <1>2, <1>4, <1>5 DEF Next, vars, notes, LookUp, SendTransaction, StoreRow,
     SubmitFails, Claim, ClaimPending, ClaimQueued, Work, CheckAnchor, StampQueued, WriteRow,
     RetryDue, Crash, WindowPasses, Settles

\* Whatever calls and cron ticks overlap and wherever they are killed: the row and the
\* anchor.confirmed event name a transaction that the chain has mined.
THEOREM ConfirmationsAreReal == Spec => []ConfirmationIsReal
<1>1. Init => ConfirmInv
  <2> SUFFICES ASSUME Init PROVE ConfirmInv
    OBVIOUS
  <2>1. TxsAreSent /\ ConfirmedIsMined
    BY DEF Init, NoRow, NoSubmit, TxsAreSent, ConfirmedIsMined
  <2>2. PlansAreReal
    BY DEF Init, NoWork, PlansAreReal
  <2>3. QED BY <2>1, <2>2, InitTypes DEF ConfirmInv
<1>2. ConfirmInv /\ [Next]_vars => ConfirmInv'
  <2> SUFFICES ASSUME ConfirmInv, [Next]_vars PROVE ConfirmInv'
    OBVIOUS
  <2>1. TypeInv' /\ PlansAreReal'
    BY TypesKept, PlansKeptReal DEF ConfirmInv
  <2>2. TxsAreSent'
    BY RowTxKept, CallTxsKept DEF TxsAreSent
  <2>3. ConfirmedIsMined'
    BY RowTxKept, EventsKeptReal DEF ConfirmedIsMined
  <2>4. QED BY <2>1, <2>2, <2>3 DEF ConfirmInv
<1>3. ConfirmInv => ConfirmationIsReal
  <2> SUFFICES ASSUME ConfirmInv PROVE ConfirmationIsReal
    OBVIOUS
  <2>1. 0 \notin DOMAIN chain
    BY DEF ConfirmInv, TypeInv, TypeOK
  <2>2. QED BY <2>1 DEF ConfirmInv, ConfirmedIsMined, ConfirmationIsReal, Mined
<1>4. QED BY <1>1, <1>2, <1>3, PTL DEF Spec
-----------------------------------------------------------------------------
(* Failures.                                                               *)

LEMMA Appends ==
  ASSUME NEW e, TryAppend(e)
  PROVE  (Known => Known') /\ (e.kind = "anchor.failed" => Known')
<1>1. CASE AppendEvent(e) /\ unrecorded' = unrecorded
  BY <1>1 DEF AppendEvent, Recorded, Known
<1>2. CASE unrecorded' = (unrecorded \/ e.kind = "anchor.failed") /\ ledger' = ledger
  <2>1. Recorded("anchor.failed")' = Recorded("anchor.failed")
    BY <1>2 DEF Recorded
  <2>2. QED BY <1>2, <2>1, Zenon DEF Known
<1>3. QED BY <1>1, <1>2 DEF TryAppend

LEMMA RecordsKept ==
  ASSUME [Next]_vars, Known PROVE Known'
<1>1. ASSUME NEW s \in Submitters, Report(s) PROVE Known'
  BY <1>1, Appends DEF Report
<1>2. ASSUME NEW w \in Workers, EmitEvent(w) PROVE Known'
  BY <1>2, Appends DEF EmitEvent
<1>3. CASE ledger' = ledger /\ unrecorded' = unrecorded
  BY <1>3 DEF Recorded, Known
<1>4. QED BY <1>1, <1>2, <1>3 DEF Next, vars, notes, LookUp, SendTransaction, StoreRow,
     SubmitFails, Claim, ClaimPending, ClaimQueued, Work, CheckAnchor, StampQueued, WriteRow,
     RetryDue, Crash, WindowPasses, Settles

LEMMA PlansKeepRecording ==
  ASSUME FailureInv, network = "polygon", [Next]_vars PROVE PlansRecordFirst'
<1>1. TypeInv /\ PlansRecordFirst
  BY DEF FailureInv
<1>2. ASSUME NEW w \in Workers,
             \A v \in Workers : v # w => worker'[v] = worker[v],
             \A i \in DOMAIN worker'[w].plan :
               LET token == worker'[w].plan[i] IN
               /\ token.do \notin {"stamp", "refuse", "store"}
               /\ token.do = "fail" =>
                    Known' \/ \E k \in 1 .. i - 1 : EmitsFailure(worker'[w].plan[k])
      PROVE  PlansRecordFirst'
  BY <1>1, <1>2, RecordsKept DEF PlansRecordFirst, EmitsFailure
<1>3. ASSUME NEW w \in Workers, ClaimPending(w) \/ ClaimQueued(w) PROVE PlansRecordFirst'
  <2>1. /\ worker'[w].plan = <<Check>>
        /\ \A v \in Workers : v # w => worker'[v] = worker[v]
    BY <1>1, <1>3 DEF ClaimPending, ClaimQueued, Claim, TypeInv
  <2>2. Check.do = "check"
    BY DEF Check
  <2>3. QED BY <1>2, <2>1, <2>2
<1>4. ASSUME NEW w \in Workers, CheckAnchor(w) PROVE PlansRecordFirst'
  <2>1. PICK result \in {"expired", "error", "waiting", "mined", "reverted"} :
          \E plan \in Plans(worker[w].seen, result) :
            /\ worker'[w].plan = plan
            /\ \A v \in Workers : v # w => worker'[v] = worker[v]
    BY <1>1, <1>4, CheckTypes
  <2>2. PICK plan \in Plans(worker[w].seen, result) : worker'[w].plan = plan
    BY <2>1
  <2>3. worker[w].seen \in Rows
    BY <1>1 DEF TypeInv, TypeOK
  <2>4. \A i \in DOMAIN plan :
          /\ plan[i].do \in {"retry", "upgrade", "fail", "confirm", "emit"}
          /\ plan[i].do = "fail" => \E k \in 1 .. i - 1 : EmitsFailure(plan[k])
    BY <2>2, <2>3, PlansInOrder, PlansRecord
  <2>5. QED BY <1>2, <2>1, <2>2, <2>4
<1>5. ASSUME NEW w \in Workers, StampQueued(w) PROVE FALSE
  BY <1>1, <1>5 DEF PlansRecordFirst, StampQueued, Stamp
<1>6. ASSUME NEW w \in Workers, WriteRow(w) \/ EmitEvent(w) PROVE PlansRecordFirst'
  <2> DEFINE plan == worker[w].plan
  <2>1. plan # <<>> /\ Proceed(w) /\ plan \in Seq(Tokens) /\ Head(plan) = plan[1]
    BY <1>1, <1>6 DEF WriteRow, EmitEvent, TypeInv
  <2>2. /\ \A v \in Workers : v # w => worker'[v] = worker[v]
        /\ worker' \in [Workers -> [seen : Rows, plan : Seq(Tokens)]]
        /\ \A i \in DOMAIN worker'[w].plan :
             i + 1 \in DOMAIN plan /\ worker'[w].plan[i] = plan[i + 1]
    BY <1>1, <2>1, ProceedPlan
  <2>3. EmitsFailure(plan[1]) => Known'
    <3>1. EmitEvent(w) => TryAppend(plan[1].event)
      BY <1>1, EmitTypes
    <3>2. WriteRow(w) => plan[1].do # "emit"
      BY <2>1 DEF WriteRow, Retry, Upgrade, MarkFailed, MarkConfirmed, Refuse
    <3>3. QED BY <1>6, <3>1, <3>2, Appends DEF EmitsFailure
  <2>4. ASSUME NEW i \in DOMAIN worker'[w].plan, worker'[w].plan[i].do = "fail"
        PROVE  Known' \/ \E k \in 1 .. i - 1 : EmitsFailure(worker'[w].plan[k])
    <3>1. CASE Known
      BY <3>1, RecordsKept
    <3>2. ASSUME NEW k \in 1 .. i, EmitsFailure(plan[k])
          PROVE  Known' \/ \E l \in 1 .. i - 1 : EmitsFailure(worker'[w].plan[l])
      <4>1. CASE k = 1
        BY <2>3, <3>2, <4>1
      <4>2. CASE k # 1
        <5>1. i \in Nat /\ k - 1 \in 1 .. i - 1 /\ k - 1 \in DOMAIN worker'[w].plan
          BY <2>2, <4>2
        <5>2. worker'[w].plan[k - 1] = plan[k]
          BY <2>2, <5>1
        <5>3. QED BY <3>2, <5>1, <5>2
      <4>3. QED BY <4>1, <4>2
    <3>3. Known \/ \E k \in 1 .. i : EmitsFailure(plan[k])
      <4>1. i \in Nat /\ (i + 1) - 1 = i
        BY <2>2
      <4>2. QED BY <1>1, <2>2, <2>4, <4>1 DEF PlansRecordFirst
    <3>4. QED BY <3>1, <3>2, <3>3
  <2>5. \A i \in DOMAIN worker'[w].plan :
          worker'[w].plan[i].do \notin {"stamp", "refuse", "store"}
    BY <1>1, <2>2 DEF PlansRecordFirst
  <2>6. QED BY <1>2, <2>2, <2>4, <2>5
<1>7. CASE worker' = worker
  BY <1>1, <1>7, RecordsKept DEF PlansRecordFirst, EmitsFailure
<1>8. CASE Crash
  <2>1. DOMAIN NoWork.plan = {}
    BY DEF NoWork
  <2>2. \A w \in Workers : worker'[w] = worker[w] \/ worker'[w] = NoWork
    BY <1>1, <1>8 DEF Crash, TypeInv
  <2>3. QED BY <1>1, <2>1, <2>2, RecordsKept DEF PlansRecordFirst, EmitsFailure
<1>9. QED BY <1>3, <1>4, <1>5, <1>6, <1>7, <1>8 DEF Next, vars, notes, Work, LookUp,
     SendTransaction, StoreRow, SubmitFails, Report, RetryDue, WindowPasses, Settles

LEMMA FailuresKept ==
  ASSUME FailureInv, [Next]_vars PROVE FailureIsRecorded'
<1> SUFFICES ASSUME network' = "polygon", row'.status = "failed" PROVE Known'
  BY DEF FailureIsRecorded, Recorded, Known
<1>1. TypeInv /\ row \in Rows
  BY DEF FailureInv, TypeInv, TypeOK
<1>2. network' = network
  BY DEF Next, vars, notes, LookUp, SendTransaction, StoreRow, SubmitFails, Report, Claim,
     ClaimPending, ClaimQueued, Work, CheckAnchor, StampQueued, WriteRow, EmitEvent,
     RetryDue, Crash, WindowPasses, Settles
<1>3. CASE row.status = "failed"
  BY <1>2, <1>3, RecordsKept DEF FailureInv, FailureIsRecorded, Known
<1>4. ASSUME NEW w \in Workers, WriteRow(w), row.status # "failed"
      PROVE  Known
  <2>1. worker[w].plan[1].do \in {"fail", "refuse"} /\ 1 \in DOMAIN worker[w].plan
    BY <1>1, <1>4, Updates DEF WriteRow, TypeInv
  <2>2. PlansRecordFirst
    BY <1>2 DEF FailureInv
  <2>3. QED BY <2>1, <2>2 DEF PlansRecordFirst
<1>5. ASSUME row.status # "failed" PROVE \E w \in Workers : WriteRow(w)
  <2>1. ASSUME NEW s \in Submitters, StoreRow(s) PROVE FALSE
    BY <2>1 DEF StoreRow
  <2>2. ASSUME NEW w \in Workers, NEW token, Claim(w, token) PROVE FALSE
    BY <1>1, <2>2 DEF Claim, Rows
  <2>3. RetryDue => row'.status = row.status
    BY <1>1 DEF RetryDue, Rows
  <2>4. QED BY <1>5, <2>1, <2>2, <2>3 DEF Next, vars, notes, LookUp, SendTransaction,
       SubmitFails, Report, ClaimPending, ClaimQueued, Work, CheckAnchor, StampQueued,
       EmitEvent, Crash, WindowPasses, Settles
<1>6. QED BY <1>3, <1>4, <1>5, RecordsKept

\* Whatever calls and cron ticks overlap, wherever they are killed and whatever they submit
\* again: a Polygon row that says failed has its event, or the append of it was refused.
THEOREM FailuresAreRecorded == Spec => []FailureIsRecorded
<1>1. Init => FailureInv
  BY InitTypes DEF Init, FailureInv, FailureIsRecorded, PlansRecordFirst, NoRow, NoWork
<1>2. FailureInv /\ [Next]_vars => FailureInv'
  <2> SUFFICES ASSUME FailureInv, [Next]_vars PROVE FailureInv'
    OBVIOUS
  <2>1. network' = network
    BY DEF Next, vars, notes, LookUp, SendTransaction, StoreRow, SubmitFails, Report, Claim,
       ClaimPending, ClaimQueued, Work, CheckAnchor, StampQueued, WriteRow, EmitEvent,
       RetryDue, Crash, WindowPasses, Settles
  <2>2. QED BY <2>1, TypesKept, PlansKeepRecording, FailuresKept DEF FailureInv
<1>3. FailureInv => FailureIsRecorded
  BY DEF FailureInv
<1>4. QED BY <1>1, <1>2, <1>3, PTL DEF Spec
-----------------------------------------------------------------------------
(* Until a call or a cron tick overlaps another one.                       *)

\* What a step does to the row.
LEMMA RowSteps ==
  ASSUME TypeInv, [Next]_vars
  PROVE  \/ row' = row
         \/ \E s \in Submitters : StoreRow(s)
         \/ \E w \in Workers : WriteRow(w)
         \/ \E w \in Workers : ClaimPending(w) \/ ClaimQueued(w)
         \/ RetryDue
  BY DEF Next, vars, notes, LookUp, SendTransaction, SubmitFails, Report, Work, CheckAnchor,
     StampQueued, EmitEvent, Crash, WindowPasses, Settles

LEMMA OverlapStays ==
  ASSUME [Next]_vars, ~overlapped' PROVE ~overlapped
  BY DEF Next, vars, notes, LookUp, SendTransaction, StoreRow, SubmitFails, Report, Claim,
     ClaimPending, ClaimQueued, Work, CheckAnchor, StampQueued, WriteRow, EmitEvent,
     RetryDue, Crash, WindowPasses, Settles

LEMMA ClaimedRow ==
  ASSUME TypeInv, NEW w \in Workers, ClaimPending(w) \/ ClaimQueued(w)
  PROVE  /\ row'.status = "processing" /\ row'.tx = row.tx /\ row'.since = row.since
         /\ row.status \in {"queued", "pending", "processing"}
         /\ row.status = "queued" \/ row.tx # 0 \/ row.status = "processing"
         /\ worker'[w].seen = row'
         /\ \E token \in {Check, Stamp} : worker'[w].plan = <<token>>
  BY DEF TypeInv, TypeOK, Rows, ClaimPending, ClaimQueued, Claim

LEMMA DueRow ==
  ASSUME TypeInv, RetryDue
  PROVE  row'.status = row.status /\ row'.tx = row.tx /\ row'.since = row.since
  BY DEF TypeInv, TypeOK, Rows, RetryDue

\* A pending update is of a row in processing, and the last one of its plan.
LEMMA WriteAlone ==
  ASSUME AloneInv, NEW w \in Workers, WriteRow(w)
  PROVE  /\ row.status = "processing"
         /\ row.tx = worker[w].seen.tx /\ row.since = worker[w].seen.since
         /\ \A i \in DOMAIN worker'[w].plan : worker'[w].plan[i].do = "emit"
<1> DEFINE plan == worker[w].plan
<1>1. plan # <<>> /\ Proceed(w) /\ plan \in Seq(Tokens) /\ Head(plan) = plan[1]
  BY DEF WriteRow, AloneInv, TypeInv
<1>2. 1 \in DOMAIN plan /\ plan[1].do # "emit"
  BY <1>1 DEF WriteRow, Retry, Upgrade, MarkFailed, MarkConfirmed, Refuse
<1>3. \A i \in DOMAIN worker'[w].plan :
        i \in Nat \ {0} /\ i + 1 \in DOMAIN plan /\ worker'[w].plan[i] = plan[i + 1]
  BY <1>1, ProceedPlan DEF AloneInv
<1>4. QED BY <1>2, <1>3 DEF AloneInv, PlansHoldRow

LEMMA RowKeptFresh ==
  ASSUME AloneInv, [Next]_vars
  PROVE  RowIsFresh'
<1>1. TypeInv /\ RowIsFresh
  BY DEF AloneInv
<1>2. CASE row' = row
  BY <1>1, <1>2 DEF RowIsFresh
<1>3. ASSUME NEW s \in Submitters, StoreRow(s) PROVE RowIsFresh'
  BY <1>3 DEF StoreRow, RowIsFresh
<1>4. ASSUME NEW w \in Workers, WriteRow(w) PROVE RowIsFresh'
  BY <1>1, <1>4, Updates, WriteAlone DEF RowIsFresh
<1>5. ASSUME NEW w \in Workers, ClaimPending(w) \/ ClaimQueued(w) PROVE RowIsFresh'
  BY <1>1, <1>5, ClaimedRow DEF RowIsFresh
<1>6. CASE RetryDue
  BY <1>1, <1>6, DueRow DEF RowIsFresh
<1>7. QED BY <1>1, <1>2, <1>3, <1>4, <1>5, <1>6, RowSteps

\* A call or a claim that overlaps nobody starts alone.
LEMMA StartsAlone ==
  ASSUME AloneInv, [Next]_vars, ~overlapped'
  PROVE  OneAtATime'
<1>1. /\ OneAtATime
      /\ submit \in [Submitters -> [pc : {"idle", "send", "store", "reported", "failed"},
                                    seen : Rows, tx : Nat]]
      /\ worker \in [Workers -> [seen : Rows, plan : Seq(Tokens)]]
  BY DEF AloneInv, TypeInv, TypeOK
<1>2. ASSUME \A s \in Submitters : submit'[s] # NoSubmit => submit[s] # NoSubmit,
             \A w \in Workers : worker'[w] # NoWork => worker[w] # NoWork
      PROVE  OneAtATime'
  BY <1>1, <1>2 DEF OneAtATime
<1>3. ASSUME NEW s \in Submitters, LookUp(s) PROVE OneAtATime'
  <2>1. /\ \A t \in Submitters : submit[t] = NoSubmit
        /\ \A t \in Submitters : t # s => submit'[t] = submit[t]
        /\ worker' = worker
    BY <1>1, <1>3 DEF LookUp
  <2>2. QED BY <1>1, <2>1 DEF OneAtATime
<1>4. ASSUME NEW w \in Workers, ClaimPending(w) \/ ClaimQueued(w) PROVE OneAtATime'
  <2>1. /\ \A v \in Workers : worker[v] = NoWork
        /\ \A v \in Workers : v # w => worker'[v] = worker[v]
        /\ submit' = submit
    BY <1>1, <1>4 DEF ClaimPending, ClaimQueued, Claim
  <2>2. QED BY <1>1, <2>1 DEF OneAtATime
<1>5. ASSUME NEW s \in Submitters,
             SendTransaction(s) \/ StoreRow(s) \/ SubmitFails(s) \/ Report(s)
      PROVE  OneAtATime'
  <2>1. submit[s].pc # "idle" /\ NoSubmit.pc = "idle"
    BY <1>5 DEF SendTransaction, StoreRow, SubmitFails, Report, NoSubmit
  <2>2. \A t \in Submitters : t # s => submit'[t] = submit[t]
    BY <1>1, <1>5 DEF SendTransaction, StoreRow, SubmitFails, Report
  <2>3. worker' = worker
    BY <1>5 DEF SendTransaction, StoreRow, SubmitFails, Report
  <2>4. QED BY <1>2, <2>1, <2>2, <2>3
<1>6. ASSUME NEW w \in Workers, Work(w) PROVE OneAtATime'
  <2>1. worker[w].plan # <<>> /\ NoWork.plan = <<>>
    BY <1>6 DEF Work, CheckAnchor, StampQueued, WriteRow, EmitEvent, NoWork
  <2>2. \A v \in Workers : v # w => worker'[v] = worker[v]
    BY <1>1, <1>6 DEF Work, CheckAnchor, StampQueued, WriteRow, EmitEvent, Proceed
  <2>3. submit' = submit
    BY <1>6 DEF Work, CheckAnchor, StampQueued, WriteRow, EmitEvent
  <2>4. QED BY <1>2, <2>1, <2>2, <2>3
<1>7. CASE Crash
  BY <1>1, <1>2, <1>7 DEF Crash
<1>8. CASE submit' = submit /\ worker' = worker
  BY <1>2, <1>8
<1>9. QED BY <1>3, <1>4, <1>5, <1>6, <1>7, <1>8 DEF Next, vars, RetryDue, WindowPasses, Settles

LEMMA CallsKeepRow ==
  ASSUME AloneInv, [Next]_vars PROVE CallsHoldRow'
<1>1. TypeInv /\ CallsHoldRow
  BY DEF AloneInv
<1> SUFFICES ASSUME NEW s \in Submitters, submit'[s].pc \in {"send", "store"}
             PROVE  row'.status \in {"none", "failed"}
  BY DEF CallsHoldRow
<1>2. /\ submit \in [Submitters -> [pc : {"idle", "send", "store", "reported", "failed"},
                                    seen : Rows, tx : Nat]]
      /\ NoSubmit.pc = "idle"
  BY <1>1 DEF TypeInv, TypeOK, NoSubmit
<1>3. CASE LookUp(s)
  BY <1>2, <1>3 DEF LookUp, NoSubmit
<1>4. ASSUME NEW t \in Submitters, StoreRow(t) PROVE FALSE
  <2>1. CASE s = t
    <3>1. submit'[s].pc = "reported"
      BY <1>2, <1>4, <2>1 DEF StoreRow
    <3>2. QED BY <3>1
  <2>2. CASE s # t
    <3>1. submit'[s] = submit[s] /\ submit[t].pc = "store"
      BY <1>2, <1>4, <2>2 DEF StoreRow
    <3>2. submit[s] # NoSubmit /\ submit[t] # NoSubmit
      BY <1>2, <3>1
    <3>3. QED BY <2>2, <3>2 DEF AloneInv, OneAtATime
  <2>3. QED BY <2>1, <2>2
<1>5. CASE submit[s].pc \in {"send", "store"}
  <2>1. row.status \in {"none", "failed"}
    BY <1>1, <1>5 DEF CallsHoldRow
  <2>2. ASSUME NEW w \in Workers, WriteRow(w) PROVE FALSE
    BY <2>1, <2>2, WriteAlone
  <2>3. ASSUME NEW w \in Workers, ClaimPending(w) \/ ClaimQueued(w) PROVE FALSE
    BY <1>1, <2>1, <2>3, ClaimedRow
  <2>4. RetryDue => row'.status = row.status
    BY <1>1, DueRow
  <2>5. QED BY <1>1, <1>4, <2>1, <2>2, <2>3, <2>4, RowSteps
<1>6. ASSUME submit[s].pc \notin {"send", "store"} PROVE LookUp(s)
  <2>1. ASSUME NEW t \in Submitters,
               (LookUp(t) /\ t # s) \/ SendTransaction(t) \/ SubmitFails(t) \/ Report(t)
        PROVE  FALSE
    <3>1. CASE t = s
      <4>1. CASE SendTransaction(t)
        BY <1>6, <3>1, <4>1 DEF SendTransaction
      <4>2. CASE SubmitFails(t)
        BY <1>6, <3>1, <4>2 DEF SubmitFails
      <4>3. CASE Report(t)
        BY <1>2, <3>1, <4>3 DEF Report
      <4>4. QED BY <2>1, <3>1, <4>1, <4>2, <4>3
    <3>2. CASE t # s
      <4>1. submit'[s] = submit[s]
        BY <1>2, <2>1, <3>2 DEF LookUp, SendTransaction, SubmitFails, Report
      <4>2. QED BY <1>6, <4>1
    <3>3. QED BY <3>1, <3>2
  <2>2. ~Crash
    BY <1>2, <1>6 DEF Crash
  <2>3. submit' # submit
    BY <1>6
  <2>4. QED BY <1>4, <2>1, <2>2, <2>3 DEF Next, vars, notes, ClaimPending, ClaimQueued, Claim, Work,
       CheckAnchor, StampQueued, WriteRow, EmitEvent, RetryDue, WindowPasses, Settles
<1>7. QED BY <1>3, <1>5, <1>6

LEMMA PlansKeepRow ==
  ASSUME AloneInv, [Next]_vars, ~overlapped' PROVE PlansHoldRow'
<1>1. TypeInv /\ PlansHoldRow /\ CallsHoldRow
  BY DEF AloneInv
<1> DEFINE Holds(w) ==
      \A i \in DOMAIN worker'[w].plan :
        worker'[w].plan[i].do # "emit" =>
          /\ row'.status = "processing"
          /\ row'.tx = worker'[w].seen.tx /\ row'.since = worker'[w].seen.since
          /\ \A k \in DOMAIN worker'[w].plan : k > i => worker'[w].plan[k].do = "emit"
<1> SUFFICES ASSUME NEW w \in Workers PROVE Holds(w)
  BY DEF PlansHoldRow
<1>2. ASSUME NEW v \in Workers, v # w, ClaimPending(v) \/ ClaimQueued(v) \/ Work(v)
      PROVE  Holds(w)
  <2>1. worker'[w] = worker[w]
    BY <1>1, <1>2 DEF ClaimPending, ClaimQueued, Claim, Work, CheckAnchor, StampQueued,
       WriteRow, EmitEvent, Proceed, TypeInv
  <2>2. worker[w] = NoWork
    <3>1. CASE ClaimPending(v) \/ ClaimQueued(v)
      BY <3>1 DEF ClaimPending, ClaimQueued, Claim
    <3>2. CASE Work(v)
      <4>1. worker[v] # NoWork
        <5>1. worker[v].plan # <<>> /\ NoWork.plan = <<>>
          BY <3>2 DEF Work, CheckAnchor, StampQueued, WriteRow, EmitEvent, NoWork
        <5>2. QED BY <5>1
      <4>2. QED BY <1>2, <4>1 DEF AloneInv, OneAtATime
    <3>3. QED BY <1>2, <3>1, <3>2
  <2>3. DOMAIN NoWork.plan = {}
    BY DEF NoWork
  <2>4. QED BY <2>1, <2>2, <2>3
<1>3. CASE ClaimPending(w) \/ ClaimQueued(w)
  BY <1>1, <1>3, ClaimedRow
<1>4. CASE CheckAnchor(w)
  <2>2. PICK result \in {"expired", "error", "waiting", "mined", "reverted"} :
          \E plan \in Plans(worker[w].seen, result) :
            worker'[w].plan = plan /\ worker'[w].seen = worker[w].seen
    BY <1>1, <1>4, CheckTypes
  <2>3. PICK plan \in Plans(worker[w].seen, result) : worker'[w].plan = plan
    BY <2>2
  <2>4. \A i, k \in DOMAIN plan : plan[i].do # "emit" /\ k > i => plan[k].do = "emit"
    BY <1>1, <2>3, PlansInOrder DEF TypeInv, TypeOK
  <2>5. worker[w].plan = <<Check>> /\ row' = row
    BY <1>4 DEF CheckAnchor
  <2>6. /\ row.status = "processing"
        /\ row.tx = worker[w].seen.tx /\ row.since = worker[w].seen.since
    BY <1>1, <2>5 DEF PlansHoldRow, Check
  <2>7. QED BY <2>2, <2>3, <2>4, <2>5, <2>6
<1>5. CASE StampQueued(w)
  <2>2. /\ \E token : worker'[w].plan = <<token>>
        /\ worker'[w].seen = worker[w].seen
    BY <1>1, <1>5, StampTypes
  <2>3. worker[w].plan = <<Stamp>> /\ row' = row
    BY <1>5 DEF StampQueued
  <2>4. /\ row.status = "processing"
        /\ row.tx = worker[w].seen.tx /\ row.since = worker[w].seen.since
    BY <1>1, <2>3 DEF PlansHoldRow, Stamp
  <2>5. QED BY <2>2, <2>3, <2>4
<1>6. CASE WriteRow(w)
  BY <1>6, WriteAlone
<1>7. CASE EmitEvent(w)
  <2>2. /\ worker[w].plan # <<>> /\ Proceed(w) /\ row' = row
        /\ worker[w].plan \in Seq(Tokens)
    BY <1>1, <1>7 DEF EmitEvent, TypeInv
  <2>3. \A i \in DOMAIN worker'[w].plan :
          /\ worker'[w].seen = worker[w].seen /\ i + 1 \in DOMAIN worker[w].plan
          /\ worker'[w].plan[i] = worker[w].plan[i + 1] /\ i \in Nat
    BY <1>1, <2>2, ProceedPlan
  <2>4. ASSUME NEW i \in DOMAIN worker'[w].plan, worker'[w].plan[i].do # "emit"
        PROVE  /\ row.status = "processing"
               /\ row.tx = worker[w].seen.tx /\ row.since = worker[w].seen.since
               /\ \A k \in DOMAIN worker'[w].plan :
                    k > i => worker'[w].plan[k].do = "emit"
    <3>1. i + 1 \in DOMAIN worker[w].plan /\ worker[w].plan[i + 1].do # "emit"
      BY <2>3, <2>4
    <3>2. ASSUME NEW k \in DOMAIN worker'[w].plan, k > i
          PROVE  worker'[w].plan[k].do = "emit"
      <4>1. /\ k + 1 \in DOMAIN worker[w].plan /\ k + 1 > i + 1
            /\ worker'[w].plan[k] = worker[w].plan[k + 1]
        BY <2>3, <3>2
      <4>2. QED BY <1>1, <3>1, <4>1 DEF PlansHoldRow
    <3>3. QED BY <1>1, <3>1, <3>2 DEF PlansHoldRow
  <2>5. QED BY <2>2, <2>3, <2>4
<1>8. ASSUME worker'[w] = worker[w],
             row'.status = row.status /\ row'.tx = row.tx /\ row'.since = row.since
      PROVE  Holds(w)
  BY <1>1, <1>8 DEF PlansHoldRow
<1>9. ASSUME NEW s \in Submitters, StoreRow(s) PROVE Holds(w)
  <2>1. row.status \in {"none", "failed"} /\ worker' = worker
    BY <1>1, <1>9 DEF CallsHoldRow, StoreRow
  <2>2. QED BY <1>1, <2>1 DEF PlansHoldRow
<1>10. CASE Crash
  <2>1. DOMAIN NoWork.plan = {}
    BY DEF NoWork
  <2>2. (worker'[w] = worker[w] \/ worker'[w] = NoWork) /\ row' = row
    BY <1>1, <1>10 DEF Crash, TypeInv
  <2>3. QED BY <1>8, <2>1, <2>2
<1>11. RetryDue => Holds(w)
  BY <1>1, <1>8, DueRow DEF RetryDue
<1>12. (worker' = worker /\ row' = row) => Holds(w)
  BY <1>8
<1>13. QED BY <1>2, <1>3, <1>4, <1>5, <1>6, <1>7, <1>9, <1>10, <1>11, <1>12 DEF Next, vars, notes,
     Work, LookUp, SendTransaction, SubmitFails, Report, WindowPasses, Settles

LEMMA InitAlone == Init => AloneInv
  BY InitTypes DEF Init, AloneInv, OneAtATime, PlansHoldRow, CallsHoldRow, RowIsFresh, NoRow,
     NoWork, NoSubmit

LEMMA InitUntil == Init => UntilOverlap
  BY InitTypes, InitAlone DEF UntilOverlap

LEMMA UntilKept == UntilOverlap /\ [Next]_vars => UntilOverlap'
<1> SUFFICES ASSUME UntilOverlap, [Next]_vars PROVE UntilOverlap'
  OBVIOUS
<1>1. TypeInv'
  BY TypesKept DEF UntilOverlap
<1>2. ASSUME ~overlapped' PROVE AloneInv'
  <2>1. AloneInv
    BY <1>2, OverlapStays DEF UntilOverlap
  <2>2. QED BY <1>1, <1>2, <2>1, StartsAlone, PlansKeepRow, CallsKeepRow, RowKeptFresh
       DEF AloneInv
<1>3. QED BY <1>1, <1>2 DEF UntilOverlap

\* Until two calls or two cron ticks have overlapped, and whatever is killed, lost or
\* submitted again, the window that counts is that of the proof the row holds.
THEOREM WindowsAreFresh == Spec => []WindowIsFresh
<1>1. UntilOverlap => WindowIsFresh
  BY DEF UntilOverlap, AloneInv, RowIsFresh, WindowIsFresh
<1>2. QED BY <1>1, InitUntil, UntilKept, PTL DEF Spec

LEMMA LifecycleStep ==
  ASSUME AloneInv, [Next]_vars, ~overlapped'
  PROVE  [L!Next]_State
<1>1. TypeInv /\ TypeInv'
  BY TypesKept DEF AloneInv
<1>2. /\ row.status \in {"none", "confirmed", "failed"} => State = row.status
      /\ row.status \in {"queued", "pending", "processing"} => State = "pending"
      /\ row'.status \in {"none", "confirmed", "failed"} => State' = row'.status
      /\ row'.status \in {"queued", "pending", "processing"} => State' = "pending"
      /\ row.status \in Statuses /\ row'.status \in Statuses
  BY <1>1 DEF State, TypeInv, TypeOK, Rows
<1>3. \/ State' = State
      \/ State \in {"none", "failed"} /\ State' = "pending"
      \/ State = "pending" /\ State' \in {"confirmed", "failed"}
  <2>1. CASE row' = row
    BY <1>2, <2>1 DEF Statuses
  <2>2. ASSUME NEW s \in Submitters, StoreRow(s)
        PROVE  State \in {"none", "failed"} /\ State' = "pending"
    BY <1>2, <2>2 DEF AloneInv, CallsHoldRow, StoreRow
  <2>3. ASSUME NEW w \in Workers, WriteRow(w)
        PROVE  State = "pending" /\ State' \in {"pending", "confirmed", "failed"}
    BY <1>1, <1>2, <2>3, WriteAlone, Updates
  <2>4. ASSUME NEW w \in Workers, ClaimPending(w) \/ ClaimQueued(w) PROVE State' = State
    BY <1>1, <1>2, <2>4, ClaimedRow
  <2>5. RetryDue => State' = State
    BY <1>1, <1>2, DueRow DEF Statuses
  <2>6. QED BY <1>1, <2>1, <2>2, <2>3, <2>4, <2>5, RowSteps
<1>4. CASE State' = State
  BY <1>4
<1>5. CASE State \in {"none", "failed"} /\ State' = "pending"
  BY <1>5 DEF L!Next, L!Submit
<1>6. CASE State = "pending" /\ State' \in {"confirmed", "failed"}
  BY <1>6 DEF L!Next, L!Confirm, L!Fail
<1>7. QED BY <1>3, <1>4, <1>5, <1>6

\* Until two calls or two cron ticks have overlapped the anchors table implements the
\* abstract lifecycle: what is confirmed stays confirmed, and only a failed anchor
\* is submitted again.
THEOREM Refinement == Spec => ImplementsLifecycle
<1>1. Init => L!Init
  BY DEF Init, NoRow, State, L!Init
<1>2. UntilOverlap /\ [Next]_vars => [~overlapped' => [L!Next]_State]_State
  BY LifecycleStep, OverlapStays DEF UntilOverlap
<1>3. QED BY <1>1, <1>2, InitUntil, UntilKept, PTL DEF Spec, ImplementsLifecycle
=============================================================================
