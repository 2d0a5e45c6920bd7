---------------------- MODULE ProtectionPipelineProofs ----------------------
(***************************************************************************)
(* Theorems about ProtectionPipeline, for every number of signers, calls,  *)
(* invocations and finalizations, every plan and every number of faults.   *)
(*                                                                         *)
(* An invocation decides from the ledger it has read and appends later,    *)
(* when others have appended too.  What saves it is that the ledger only   *)
(* grows: an event names facts that stay true once they are on record      *)
(* (Founded), so it is founded from the moment it is planned until it is   *)
(* appended, repeated or lost.  PipelineInv says so of everything that     *)
(* waits to become an event: the plans of the invocations, the jobs, the   *)
(* anchors and the copies of the artifact.                                 *)
(***************************************************************************)
EXTENDS ProtectionPipeline, SequenceTheorems, TLAPS

\* Every event the ledger may hold.
AllEvents == Evidence \cup Tracking

RunStates ==
  [job : Jobs \cup {None}, seen : Nat,
   pc : {"idle", "emit", "close", "call", "upload", "failed", "precondition"},
   out : Seq(AllEvents)]
CloserStates ==
  [pc : {"idle", "read", "upload", "verify", "publish"}, seen : Nat, witness : Witnesses]

\* TypeOK, variable by variable.
Types ==
  /\ ledger \in Seq(Evidence) /\ tracked \subseteq Tracking
  /\ phase \in [Jobs -> Q!Phases] /\ holder \in [Jobs -> Runs \cup {None}]
  /\ attempts \in [Jobs -> Nat]
  /\ run \in [Runs -> RunStates] /\ closer \in [Closers -> CloserStates]
  /\ witness \in Witnesses /\ file \in Copies \cup {None}
  /\ anchor \in [Networks \X Witnesses -> {"none", "pending", "confirmed", "failed"}]
  /\ outcome \subseteq Networks \X Witnesses
  /\ call \in [Callers -> [pc : {"new", "checked", "done"}, witness : Witnesses]]
  /\ signed \in 0 .. Signers /\ signing \in {"ready", "stamped", "last", "done"}
  /\ faults \in 0 .. MaxFaults

\* A run past its start works on a job, and a network is called for an anchor.
RunsHaveJobs ==
  \A r \in Runs :
    /\ run[r].pc # "idle" => run[r].job \in Jobs
    /\ run[r].pc = "call" => run[r].job \in Networks \X Witnesses
    /\ run[r].pc = "upload" => run[r].out # <<>>

TypeInv == Types /\ RunsHaveJobs

\* A job is held exactly as long as it is leased.
LeasesAreHeld == \A j \in Jobs : holder[j] # None <=> phase[j] = "leased"

\* A timestamp is among the first n events of the ledger.
TimestampBy(n) == n <= Len(ledger) /\ \E i \in 1 .. n : ledger[i].kind = "tsa.confirmed"
HasTimestamp == \E i \in DOMAIN ledger : ledger[i].kind = "tsa.confirmed"
TimestampOf(w) ==
  \E i \in DOMAIN ledger : ledger[i].kind = "tsa.confirmed" /\ ledger[i].witness = w

\* What an event presupposes of the ledger, when it is to be appended or was.
Founded(e) ==
  /\ e.kind = "document.certified" => HasTimestamp
  /\ e.kind = "job.required" /\ e.type = "build_artifact" => HasTimestamp
  /\ e.kind = "anchor.submitted" => TimestampOf(e.witness)

EventsAreFounded ==
  (\A i \in DOMAIN ledger : Founded(ledger[i])) /\ (\A e \in tracked : Founded(e))

\* An invocation rests on the ledger at every stage of its work, and has stored the
\* artifact whose closure it goes on to append.
RunIsFounded(r) ==
  /\ \A i \in DOMAIN run[r].out :
       /\ Founded(run[r].out[i])
       /\ run[r].out[i].kind = "artifact.finalized" =>
            run[r].pc \in {"upload", "failed"} \/ file # None
  /\ run[r].pc = "call" => TimestampOf(run[r].job[2])
  /\ run[r].pc = "close" => HasTimestamp
  /\ run[r].pc = "upload" => TimestampBy(run[r].seen)

CloserIsFounded(c) ==
  /\ closer[c].pc # "idle" => TimestampBy(closer[c].seen)
  /\ closer[c].pc \in {"verify", "publish"} => file # None

AnchorsAreFounded ==
  /\ \A n \in Networks, w \in Witnesses : anchor[<<n, w>>] # "none" => TimestampOf(w)
  /\ \A a \in outcome : TimestampOf(a[2])

ArtifactIsFounded ==
  /\ phase[ArtifactJob] # "absent" => HasTimestamp
  /\ file # None => TimestampBy(file.seen)
  /\ \A i \in DOMAIN ledger : ledger[i].kind = "artifact.finalized" => file # None

RequestedFirst == HasTimestamp => Has(ledger, "document.protected.requested")

PipelineInv ==
  /\ TypeInv /\ RequestedFirst /\ EventsAreFounded
  /\ \A r \in Runs : RunIsFounded(r)
  /\ \A c \in Closers : CloserIsFounded(c)
  /\ AnchorsAreFounded /\ ArtifactIsFounded
-----------------------------------------------------------------------------
(* What the operators of the pipeline return.                              *)

LEMMA HasTimestampIsHas == HasTimestamp <=> Has(ledger, "tsa.confirmed")
  BY DEF HasTimestamp, Has

LEMMA ContainsTimestamp ==
  ASSUME Types, NEW w
  PROVE  Contains(ledger, Timestamped(w)) <=> TimestampOf(w)
<1>1. ledger \in Seq(Evidence)
  BY DEF Types
<1>2. \A e \in Evidence : e.kind = "tsa.confirmed" /\ e.witness = w <=> e = Timestamped(w)
  BY DEF Evidence, Timestamped
<1>3. Contains(ledger, Timestamped(w)) <=> \E i \in DOMAIN ledger : ledger[i] = Timestamped(w)
  BY <1>1 DEF Contains
<1>4. \A i \in DOMAIN ledger : ledger[i] \in Evidence
  BY <1>1
<1>5. QED BY <1>2, <1>3, <1>4 DEF TimestampOf

LEMMA InOrderTyped == ASSUME NEW S PROVE InOrder(S) \in Seq(S)
  BY DEF InOrder

JobTypes == {"run_tsa", "build_artifact"} \cup Networks

LEMMA RequiredEventsTyped ==
  ASSUME NEW T, NEW jobs \in Seq(T), NEW w
  PROVE  RequiredEvents(jobs, w) \in Seq({Required(type, w) : type \in T})
<1>1. /\ jobs \in [1 .. Len(jobs) -> T] /\ Len(jobs) \in Nat
      /\ DOMAIN jobs = 1 .. Len(jobs)
  OBVIOUS
<1>2. RequiredEvents(jobs, w) \in [1 .. Len(jobs) -> {Required(type, w) : type \in T}]
  BY <1>1 DEF RequiredEvents
<1>3. QED BY <1>1, <1>2, IsASeq

\* The jobs a decision may ask for.
Decidable(s) == {type \in JobTypes : type = "build_artifact" => Has(s, "tsa.confirmed")}

LEMMA DecideTyped == ASSUME NEW s PROVE Decide(s) \in Seq(Decidable(s))
<1>1. Unconfirmed(s) \subseteq Networks
  BY DEF Unconfirmed
<1>2. InOrder(Unconfirmed(s)) \in Seq(Networks)
  <2>1. InOrder(Unconfirmed(s)) \in Seq(Unconfirmed(s))
    BY InOrderTyped
  <2>2. QED BY <1>1, <2>1, SeqMonotonic
<1>3. Networks \subseteq Decidable(s) /\ "run_tsa" \in Decidable(s)
  BY PipelineAssumption DEF Decidable, JobTypes
<1>4. InOrder(Unconfirmed(s)) \in Seq(Decidable(s)) /\ <<"run_tsa">> \in Seq(Decidable(s))
  BY <1>2, <1>3, SeqMonotonic
<1>5. CASE Has(s, "tsa.confirmed")
  <2>1. <<"build_artifact">> \in Seq(Decidable(s))
    BY <1>5 DEF Decidable, JobTypes
  <2>2. QED BY <1>4, <2>1 DEF Decide
<1>6. CASE ~Has(s, "tsa.confirmed")
  BY <1>4, <1>6 DEF Decide
<1>7. QED BY <1>5, <1>6

\* The events a decision on the ledger s may append.
Decided(s) ==
  {e \in AllEvents :
     /\ e.kind \in {"artifact.chain.pending", "job.required", "document.certified"}
     /\ e.kind = "document.certified" => Has(s, "tsa.confirmed")
     /\ e.kind = "job.required" /\ e.type = "build_artifact" => Has(s, "tsa.confirmed")}

LEMMA DecisionEventsTyped ==
  ASSUME NEW s, NEW w \in Witnesses PROVE DecisionEvents(s, w) \in Seq(Decided(s))
<1>1. Pending(w) \in Decided(s)
  BY DEF Pending, Decided, AllEvents, Tracking
<1>2. {Required(type, w) : type \in Decidable(s)} \subseteq Decided(s)
  BY DEF Required, Decidable, JobTypes, Decided, AllEvents, Tracking
<1>3. RequiredEvents(Decide(s), w) \in Seq(Decided(s))
  <2>1. Decide(s) \in Seq(Decidable(s))
    BY DecideTyped
  <2>2. RequiredEvents(Decide(s), w) \in Seq({Required(type, w) : type \in Decidable(s)})
    BY <2>1, RequiredEventsTyped
  <2>3. QED BY <1>2, <2>2, SeqMonotonic
<1>4. Has(s, "tsa.confirmed") => Certified(w) \in Decided(s)
  BY DEF Certified, Decided, AllEvents, Evidence
<1> DEFINE pending == IF ToSet(Decide(s)) \cap Networks # {} /\ Pending(w) \notin tracked
                      THEN <<Pending(w)>> ELSE <<>>
           certified == IF /\ Has(s, "document.protected.requested")
                           /\ Has(s, "tsa.confirmed") /\ ~Contains(s, Certified(w))
                        THEN <<Certified(w)>> ELSE <<>>
<1>5. pending \in Seq(Decided(s))
  BY <1>1
<1>6. certified \in Seq(Decided(s))
  BY <1>4
<1>7. DecisionEvents(s, w) = pending \o RequiredEvents(Decide(s), w) \o certified
  BY DEF DecisionEvents
<1> HIDE DEF pending, certified
<1>8. QED BY <1>3, <1>5, <1>6, <1>7

\* The events of run-tsa for the witness w.
TsaEventSet(w) == {Timestamped(w)} \cup {Required(n, w) : n \in Networks}

LEMMA TsaEventsTyped ==
  ASSUME NEW s, NEW w PROVE TsaEvents(s, w) \in Seq(TsaEventSet(w))
<1> DEFINE asked == Head(Requests(s)).evidence \cap Networks
           open == {n \in asked : Required(n, w) \notin tracked}
<1>1. open \subseteq Networks
  OBVIOUS
<1>2. TsaEvents(s, w) = <<Timestamped(w)>> \o RequiredEvents(InOrder(open), w)
  BY DEF TsaEvents
<1> HIDE DEF open
<1>3. InOrder(open) \in Seq(Networks)
  BY <1>1, InOrderTyped, SeqMonotonic
<1>4. RequiredEvents(InOrder(open), w) \in Seq({Required(n, w) : n \in Networks})
  BY <1>3, RequiredEventsTyped
<1>5. RequiredEvents(InOrder(open), w) \in Seq(TsaEventSet(w))
  BY <1>4, SeqMonotonic DEF TsaEventSet
<1>6. <<Timestamped(w)>> \in Seq(TsaEventSet(w))
  BY DEF TsaEventSet
<1>7. QED BY <1>2, <1>5, <1>6

LEMMA TsaEventsAreEvents ==
  ASSUME NEW w \in Witnesses
  PROVE  /\ TsaEventSet(w) \subseteq AllEvents
         /\ \A e \in TsaEventSet(w) :
              e.kind = "tsa.confirmed" \/ (e.kind = "job.required" /\ e.type \in Networks)
  BY DEF TsaEventSet, Timestamped, Required, AllEvents, Evidence, Tracking

LEMMA EventsByKind ==
  ASSUME NEW e \in AllEvents
  PROVE  IF e.kind \in EvidenceKinds THEN e \in Evidence ELSE e \in Tracking
  BY DEF AllEvents, Evidence, Tracking, EvidenceKinds

LEMMA JobsForTyped ==
  ASSUME NEW e \in AllEvents
  PROVE  /\ \E j \in Jobs : JobsFor(e) \subseteq {j}
         /\ ArtifactJob \in JobsFor(e) => e.kind = "job.required" /\ e.type = "build_artifact"
<1>1. ASSUME NEW w \in Witnesses, NEW m \in Milestones
      PROVE  <<m, w>> \in Jobs /\ <<m, w>> # ArtifactJob
  BY DEF Jobs, Milestones, ArtifactJob
<1>2. "awaiting_tsa" \in Milestones /\ "awaiting_anchors" \in Milestones
      /\ "awaiting_artifact" \in Milestones /\ ArtifactJob \in Jobs
  BY DEF Milestones, Jobs
<1>3. CASE e.kind = "document.protected.requested"
  <2>1. e.witness \in Witnesses /\ JobsFor(e) = {<<"awaiting_tsa", e.witness>>}
    BY <1>3 DEF AllEvents, Evidence, Tracking, JobsFor
  <2>2. QED BY <1>1, <1>2, <2>1
<1>4. CASE e.kind = "tsa.confirmed"
  <2>1. e.witness \in Witnesses /\ JobsFor(e) = {<<"awaiting_anchors", e.witness>>}
    BY <1>4 DEF AllEvents, Evidence, Tracking, JobsFor
  <2>2. QED BY <1>1, <1>2, <2>1
<1>5. CASE e.kind \in {"rekor.confirmed", "anchor.confirmed"}
  <2>1. e.witness \in Witnesses /\ JobsFor(e) = {<<"awaiting_artifact", e.witness>>}
    BY <1>5 DEF AllEvents, Evidence, Tracking, JobsFor
  <2>2. QED BY <1>1, <1>2, <2>1
<1>6. CASE e.kind = "job.required" /\ e.type = "build_artifact"
  <2>1. JobsFor(e) = {ArtifactJob}
    BY <1>6 DEF JobsFor
  <2>2. QED BY <1>2, <1>6, <2>1
<1>7. CASE e.kind = "job.required" /\ e.type # "build_artifact"
  <2>1. /\ e.witness \in Witnesses /\ e.type \in {"run_tsa"} \cup Networks
        /\ JobsFor(e) = {<<e.type, e.witness>>}
    BY <1>7 DEF AllEvents, Evidence, Tracking, JobsFor
  <2>2. <<e.type, e.witness>> \in Jobs
    BY <2>1 DEF Jobs
  <2>3. <<e.type, e.witness>> # ArtifactJob
    BY <1>7 DEF ArtifactJob
  <2>4. QED BY <2>1, <2>2, <2>3
<1>8. CASE e.kind \notin {"document.protected.requested", "tsa.confirmed", "rekor.confirmed",
                          "anchor.confirmed", "job.required"}
  <2>1. JobsFor(e) = {}
    BY <1>8 DEF JobsFor
  <2>2. QED BY <1>2, <2>1
<1>9. QED BY <1>3, <1>4, <1>5, <1>6, <1>7, <1>8
-----------------------------------------------------------------------------
(* What an append does.                                                    *)

LEMMA AppendFacts ==
  ASSUME Types, NEW e \in AllEvents, AppendEvent(e)
  PROVE  /\ ~Rejected(e)
         /\ \/ ledger' = ledger
            \/ ledger' = Append(ledger, e) /\ e \in Evidence
         /\ tracked \subseteq tracked' /\ tracked' \subseteq tracked \cup {e}
         /\ ledger' \in Seq(Evidence) /\ tracked' \subseteq Tracking
         /\ e.kind \in EvidenceKinds /\ ~Ignored(e) => ledger' = Append(ledger, e)
<1>1. ledger \in Seq(Evidence) /\ tracked \subseteq Tracking
  BY DEF Types
<1>2. IF e.kind \in EvidenceKinds THEN e \in Evidence ELSE e \in Tracking
  BY EventsByKind
<1>3. \/ UNCHANGED <<ledger, tracked>> /\ Ignored(e)
      \/ e.kind \in EvidenceKinds /\ ledger' = Append(ledger, e) /\ UNCHANGED tracked
      \/ e.kind \notin EvidenceKinds /\ UNCHANGED ledger /\ tracked' = tracked \cup {e}
  BY DEF AppendEvent, events
<1>4. ~Rejected(e)
  BY DEF AppendEvent
<1>5. CASE UNCHANGED <<ledger, tracked>> /\ Ignored(e)
  BY <1>1, <1>4, <1>5
<1>6. CASE e.kind \in EvidenceKinds /\ ledger' = Append(ledger, e) /\ UNCHANGED tracked
  BY <1>1, <1>2, <1>4, <1>6
<1>7. CASE e.kind \notin EvidenceKinds /\ UNCHANGED ledger /\ tracked' = tracked \cup {e}
  BY <1>1, <1>2, <1>4, <1>7
<1>8. QED BY <1>3, <1>5, <1>6, <1>7

\* To the job table an append is a submission, or nothing.
LEMMA AppendPhase ==
  ASSUME Types, NEW e \in AllEvents, AppendEvent(e)
  PROVE  /\ holder' = holder /\ attempts' = attempts
         /\ \/ phase' = phase
            \/ \E j \in Jobs : /\ phase[j] \in {"absent", "parked"}
                               /\ phase' = [phase EXCEPT ![j] = "todo"]
                               /\ j = ArtifactJob =>
                                    e.kind = "job.required" /\ e.type = "build_artifact"
<1>1. holder' = holder /\ attempts' = attempts
  BY DEF AppendEvent
<1>2. \/ phase' = phase
      \/ phase' = [j \in Jobs |-> IF j \in JobsFor(e) /\ phase[j] \in {"absent", "parked"}
                                  THEN "todo" ELSE phase[j]]
  BY DEF AppendEvent
<1>3. phase \in [Jobs -> Q!Phases]
  BY DEF Types
<1>4. PICK j \in Jobs : JobsFor(e) \subseteq {j}
  BY JobsForTyped
<1>5. CASE j \in JobsFor(e) /\ phase[j] \in {"absent", "parked"}
  <2>1. phase' = phase \/ phase' = [phase EXCEPT ![j] = "todo"]
    BY <1>2, <1>3, <1>4, <1>5
  <2>2. j = ArtifactJob => e.kind = "job.required" /\ e.type = "build_artifact"
    BY <1>5, JobsForTyped
  <2>3. QED BY <1>1, <1>5, <2>1, <2>2
<1>6. CASE ~(j \in JobsFor(e) /\ phase[j] \in {"absent", "parked"})
  <2>1. phase' = phase
    BY <1>2, <1>3, <1>4, <1>6
  <2>2. QED BY <1>1, <2>1
<1>7. QED BY <1>5, <1>6

LEMMA AppendTypes ==
  ASSUME Types, NEW e \in AllEvents, AppendEvent(e)
  PROVE  /\ ledger' \in Seq(Evidence) /\ tracked' \subseteq Tracking
         /\ phase' \in [Jobs -> Q!Phases]
         /\ holder' \in [Jobs -> Runs \cup {None}] /\ attempts' \in [Jobs -> Nat]
<1>1. phase \in [Jobs -> Q!Phases] /\ "todo" \in Q!Phases
      /\ holder \in [Jobs -> Runs \cup {None}] /\ attempts \in [Jobs -> Nat]
  BY DEF Types, Q!Phases
<1>2. phase' \in [Jobs -> Q!Phases]
  BY <1>1, AppendPhase
<1>3. QED BY <1>1, <1>2, AppendFacts, AppendPhase
-----------------------------------------------------------------------------
(* Types, action by action.                                                *)

LEMMA EventsTyped ==
  /\ \A flow \in {"DIRECT_PROTECTION", "SIGNATURE_FLOW"}, stage \in DOMAIN StageRank,
        w \in Witnesses : Requested(flow, stage, w) \in AllEvents
  /\ \A w \in Witnesses : Logged(w) \in AllEvents
  /\ \A n \in Networks, w \in Witnesses :
       Submitted(n, w) \in AllEvents /\ Confirmed(n, w) \in AllEvents
  /\ \A eco \in Copies \cup {None} : Finalized(eco) \in AllEvents
<1>1. ASSUME NEW flow \in {"DIRECT_PROTECTION", "SIGNATURE_FLOW"},
             NEW stage \in DOMAIN StageRank, NEW w \in Witnesses
      PROVE  Requested(flow, stage, w) \in AllEvents
  <2> DEFINE evidence == {"tsa"} \cup (IF flow = "SIGNATURE_FLOW" /\ stage # "final"
                                       THEN {} ELSE Networks)
  <2>1. evidence \in SUBSET ({"tsa"} \cup Networks)
    OBVIOUS
  <2>2. Requested(flow, stage, w) =
          [kind |-> "document.protected.requested", flow |-> flow, stage |-> stage,
           witness |-> w, evidence |-> evidence]
    BY DEF Requested
  <2> HIDE DEF evidence
  <2>3. QED BY <2>1, <2>2 DEF AllEvents, Evidence
<1>2. \A w \in Witnesses : Logged(w) \in AllEvents
  BY DEF Logged, AllEvents, Tracking
<1>3. \A n \in Networks, w \in Witnesses :
        Submitted(n, w) \in AllEvents /\ Confirmed(n, w) \in AllEvents
  BY DEF Submitted, Confirmed, AllEvents, Evidence, Tracking
<1>4. \A eco \in Copies \cup {None} : Finalized(eco) \in AllEvents
  BY DEF Finalized, AllEvents, Evidence
<1>5. QED BY <1>1, <1>2, <1>3, <1>4

LEMMA ConstantsTyped ==
  /\ NoRun \in RunStates /\ NoCloser \in CloserStates /\ 0 \in Witnesses
  /\ \A w \in Witnesses : w \in Nat
<1>1. 0 \in Witnesses /\ \A w \in Witnesses : w \in Nat
  BY PipelineAssumption DEF Witnesses
<1>2. NoRun \in RunStates
  BY DEF NoRun, RunStates
<1>3. NoCloser \in CloserStates
  BY <1>1 DEF NoCloser, CloserStates
<1>4. QED BY <1>1, <1>2, <1>3

LEMMA FaultTyped == ASSUME Types, Fault PROVE faults' \in 0 .. MaxFaults
  BY PipelineAssumption DEF Types, Fault

LEMMA InitTypes == Init => TypeInv
<1> SUFFICES ASSUME Init PROVE TypeInv
  OBVIOUS
<1>1. /\ ledger \in Seq(Evidence) /\ tracked \subseteq Tracking /\ witness \in Witnesses
      /\ file \in Copies \cup {None} /\ outcome \subseteq Networks \X Witnesses
      /\ signed \in 0 .. Signers /\ signing \in {"ready", "stamped", "last", "done"}
      /\ faults \in 0 .. MaxFaults
  BY PipelineAssumption, ConstantsTyped DEF Init
<1>2. /\ phase \in [Jobs -> Q!Phases] /\ holder \in [Jobs -> Runs \cup {None}]
      /\ attempts \in [Jobs -> Nat]
  BY DEF Init, Q!Init, Q!Phases
<1>3. run \in [Runs -> RunStates] /\ closer \in [Closers -> CloserStates]
  BY ConstantsTyped DEF Init
<1>4. anchor \in [Networks \X Witnesses -> {"none", "pending", "confirmed", "failed"}]
  BY DEF Init, A!Init
<1>5. call \in [Callers -> [pc : {"new", "checked", "done"}, witness : Witnesses]]
  BY ConstantsTyped DEF Init
<1>6. Types
  BY <1>1, <1>2, <1>3, <1>4, <1>5 DEF Types
<1>7. RunsHaveJobs
  BY DEF Init, RunsHaveJobs, NoRun
<1>8. QED BY <1>6, <1>7 DEF TypeInv

LEMMA TypesAreTypeOK == Types <=> TypeOK
  BY DEF Types, TypeOK, Q!TypeOK, RunStates, CloserStates, AllEvents

LEMMA CheckRequestTypes ==
  ASSUME TypeInv, NEW c \in Callers, CheckRequest(c) PROVE TypeInv'
<1>1. call' \in [Callers -> [pc : {"new", "checked", "done"}, witness : Witnesses]]
  BY DEF TypeInv, Types, CheckRequest
<1>2. QED BY <1>1 DEF TypeInv, Types, RunsHaveJobs, CheckRequest, events, queue, anchors

LEMMA RequestProtectionTypes ==
  ASSUME TypeInv, NEW c \in Callers, RequestProtection(c) PROVE TypeInv'
<1> DEFINE e == Requested("DIRECT_PROTECTION", "initial", call[c].witness)
<1>1. e \in AllEvents
  BY EventsTyped DEF TypeInv, Types, StageRank
<1>2. UNCHANGED <<events, queue>> \/ AppendEvent(e)
  BY DEF RequestProtection
<1>3. /\ ledger' \in Seq(Evidence) /\ tracked' \subseteq Tracking
      /\ phase' \in [Jobs -> Q!Phases] /\ holder' \in [Jobs -> Runs \cup {None}]
      /\ attempts' \in [Jobs -> Nat]
  BY <1>1, <1>2, AppendTypes DEF TypeInv, Types, events, queue
<1>4. call' \in [Callers -> [pc : {"new", "checked", "done"}, witness : Witnesses]]
  BY DEF TypeInv, Types, RequestProtection
<1>5. QED BY <1>3, <1>4 DEF TypeInv, Types, RunsHaveJobs, RequestProtection, anchors

LEMMA SignTypes ==
  ASSUME TypeInv, Sign \/ RequestForSigner \/ RequestFinal PROVE TypeInv'
<1>1. CASE Sign
  <2>1. signed' \in 0 .. Signers /\ witness' \in Witnesses
    BY <1>1, PipelineAssumption DEF TypeInv, Types, Sign, Witnesses
  <2>2. QED BY <1>1, <2>1 DEF TypeInv, Types, RunsHaveJobs, Sign, events, queue, anchors
<1>2. CASE RequestForSigner
  <2> DEFINE e == Requested("SIGNATURE_FLOW", "initial", signed)
  <2>1. e \in AllEvents
    BY EventsTyped DEF TypeInv, Types, StageRank, Witnesses
  <2>2. UNCHANGED <<events, queue>> \/ AppendEvent(e)
    BY <1>2 DEF RequestForSigner, RequestOnce
  <2>3. /\ ledger' \in Seq(Evidence) /\ tracked' \subseteq Tracking
        /\ phase' \in [Jobs -> Q!Phases] /\ holder' \in [Jobs -> Runs \cup {None}]
        /\ attempts' \in [Jobs -> Nat]
    BY <2>1, <2>2, AppendTypes DEF TypeInv, Types, events, queue
  <2>4. QED BY <1>2, <2>3 DEF TypeInv, Types, RunsHaveJobs, RequestForSigner, anchors
<1>3. CASE RequestFinal
  BY <1>3 DEF TypeInv, Types, RunsHaveJobs, RequestFinal, events, queue, anchors
<1>4. QED BY <1>1, <1>2, <1>3

LEMMA ClaimTypes ==
  ASSUME TypeInv, NEW r \in Runs, NEW j \in Jobs, Claim(r, j) PROVE TypeInv'
<1>1. /\ phase' \in [Jobs -> Q!Phases] /\ holder' \in [Jobs -> Runs \cup {None}]
  BY DEF TypeInv, Types, Claim, Q!Take, Q!Phases
<1>2. attempts' \in [Jobs -> Nat]
  BY DEF TypeInv, Types, Claim
<1>3. PICK pc \in {"emit", "failed", "call", "precondition", "upload"},
           out \in Seq(AllEvents), seen \in Nat :
        /\ run' = [run EXCEPT ![r] = [job |-> j, pc |-> pc, out |-> out, seen |-> seen]]
        /\ pc = "call" => j[1] \in Networks
        /\ pc = "upload" => out # <<>>
  <2> DEFINE Starts(pc, out, seen) ==
               run' = [run EXCEPT ![r] = [job |-> j, pc |-> pc, out |-> out, seen |-> seen]]
         Goal ==
               \E pc \in {"emit", "failed", "call", "precondition", "upload"} :
                 \E out \in Seq(AllEvents), seen \in Nat :
                   Starts(pc, out, seen) /\ (pc = "call" => j[1] \in Networks)
                   /\ (pc = "upload" => out # <<>>)
  <2>1. j[1] \in Milestones \cup {"run_tsa"} => j[2] \in Witnesses
    BY DEF Jobs, Milestones, ArtifactJob
  <2>2. CASE j[1] \in Milestones /\ Starts("emit", DecisionEvents(ledger, j[2]), 0)
    <3>1. DecisionEvents(ledger, j[2]) \in Seq(Decided(ledger))
      BY <2>1, <2>2, DecisionEventsTyped
    <3>2. DecisionEvents(ledger, j[2]) \in Seq(AllEvents)
      BY <3>1, SeqMonotonic DEF Decided
    <3>3. QED BY <2>2, <3>2
  <2>3. CASE j[1] = "run_tsa" /\ Starts("emit", TsaEvents(ledger, j[2]), 0)
    <3>1. TsaEvents(ledger, j[2]) \in Seq(TsaEventSet(j[2]))
      BY TsaEventsTyped
    <3>2. TsaEvents(ledger, j[2]) \in Seq(AllEvents)
      BY <2>1, <2>3, <3>1, TsaEventsAreEvents, SeqMonotonic
    <3>3. QED BY <2>3, <3>2
  <2>4. ASSUME NEW pc \in {"emit", "failed", "precondition"}, Starts(pc, <<>>, 0) PROVE Goal
    <3>1. <<>> \in Seq(AllEvents) /\ 0 \in Nat /\ pc # "call"
      OBVIOUS
    <3>2. QED BY <2>4, <3>1
  <2>5. CASE j[1] \in Networks /\ Starts("call", <<>>, 0)
    <3>1. <<>> \in Seq(AllEvents) /\ 0 \in Nat
      OBVIOUS
    <3>2. QED BY <2>5, <3>1
  <2>6. CASE Starts("upload", <<Logged(witness), Finalized(None)>>, Len(ledger))
    <3>1. Logged(witness) \in AllEvents /\ Finalized(None) \in AllEvents /\ Len(ledger) \in Nat
      BY EventsTyped DEF TypeInv, Types
    <3>2. <<Logged(witness), Finalized(None)>> \in Seq(AllEvents)
      BY <3>1
    <3>3. QED BY <2>6, <3>1, <3>2
  <2>7. QED BY <2>2, <2>3, <2>4, <2>5, <2>6 DEF Claim
<1>4. [job |-> j, pc |-> pc, out |-> out, seen |-> seen] \in RunStates
  BY DEF RunStates
<1>5. run' \in [Runs -> RunStates]
  BY <1>3, <1>4 DEF TypeInv, Types
<1>6. j[1] \in Networks => j \in Networks \X Witnesses
  BY PipelineAssumption DEF Jobs, ArtifactJob
<1>7. RunsHaveJobs'
  BY <1>3, <1>6 DEF TypeInv, Types, RunsHaveJobs
<1>8. faults' \in 0 .. MaxFaults
  BY FaultTyped DEF TypeInv, Types, Claim
<1>9. QED BY <1>1, <1>2, <1>5, <1>7, <1>8 DEF TypeInv, Types, Claim, events, anchors

LEMMA EmitTypes ==
  ASSUME TypeInv, NEW r \in Runs, Emit(r)
  PROVE  /\ TypeInv'
         /\ run[r].out[1] \in AllEvents /\ 1 \in DOMAIN run[r].out
         /\ Head(run[r].out) = run[r].out[1]
         /\ \/ /\ UNCHANGED <<events, queue>> /\ run'[r].out = run[r].out
               /\ run'[r].pc = "failed" /\ run'[r].seen = run[r].seen
            \/ /\ AppendEvent(run[r].out[1])
               /\ run'[r].out = Tail(run[r].out)
               /\ \/ run'[r].pc = "close" /\ run[r].out[1].kind = "tsa.confirmed"
                  \/ run'[r].pc = "emit"
         /\ \A q \in Runs : q # r => run'[q] = run[q]
<1> DEFINE e == run[r].out[1]
           out == run[r].out
<1>1. /\ run[r] \in RunStates /\ run[r].job \in Jobs
      /\ out \in Seq(AllEvents) /\ out # <<>>
  BY DEF TypeInv, Types, RunsHaveJobs, RunStates, Emit
<1>2. e \in AllEvents /\ 1 \in DOMAIN out /\ Head(out) = e /\ Tail(out) \in Seq(AllEvents)
  BY <1>1
<1>3. CASE Rejected(e)
  <2>1. run' = [run EXCEPT ![r].pc = "failed"] /\ UNCHANGED <<events, queue>>
    BY <1>2, <1>3 DEF Emit
  <2>2. /\ run'[r].out = out /\ run'[r].pc = "failed" /\ run'[r].seen = run[r].seen
        /\ run' \in [Runs -> RunStates] /\ \A q \in Runs : q # r => run'[q] = run[q]
        /\ run'[r].job = run[r].job
    BY <1>1, <2>1 DEF TypeInv, Types, RunStates
  <2>3. RunsHaveJobs'
    BY <1>1, <2>2 DEF TypeInv, RunsHaveJobs
  <2>4. TypeInv'
    BY <2>1, <2>2, <2>3 DEF TypeInv, Types, Emit, events, queue, anchors
  <2>5. QED BY <1>2, <2>1, <2>2, <2>4
<1>4. CASE ~Rejected(e)
  <2>1. PICK pc \in {"close", "emit"} :
          /\ run' = [run EXCEPT ![r].out = Tail(out), ![r].pc = pc]
          /\ pc = "close" => e.kind = "tsa.confirmed"
    <3>1. run' = [run EXCEPT ![r].out = Tail(out),
                             ![r].pc = IF e.kind = "tsa.confirmed" THEN "close" ELSE "emit"]
      BY <1>2, <1>4 DEF Emit
    <3>2. CASE e.kind = "tsa.confirmed"
      BY <3>1, <3>2
    <3>3. CASE e.kind # "tsa.confirmed"
      BY <3>1, <3>3
    <3>4. QED BY <3>2, <3>3
  <2>2. /\ run'[r].out = Tail(out) /\ run'[r].pc = pc
        /\ run' \in [Runs -> RunStates] /\ \A q \in Runs : q # r => run'[q] = run[q]
        /\ run'[r].job = run[r].job
    BY <1>1, <1>2, <2>1 DEF TypeInv, Types, RunStates
  <2>3. RunsHaveJobs'
    BY <1>1, <2>2 DEF TypeInv, RunsHaveJobs
  <2>4. AppendEvent(e)
    BY <1>2, <1>4 DEF Emit
  <2>5. /\ ledger' \in Seq(Evidence) /\ tracked' \subseteq Tracking
        /\ phase' \in [Jobs -> Q!Phases] /\ holder' \in [Jobs -> Runs \cup {None}]
        /\ attempts' \in [Jobs -> Nat]
    BY <1>2, <2>4, AppendTypes DEF TypeInv
  <2>6. TypeInv'
    BY <2>2, <2>3, <2>5 DEF TypeInv, Types, Emit, anchors
  <2>7. QED BY <1>2, <2>1, <2>2, <2>4, <2>6
<1>5. QED BY <1>3, <1>4

LEMMA TriggerTypes ==
  ASSUME Types, TriggerFinalization
  PROVE  closer' \in [Closers -> CloserStates] /\ faults' \in 0 .. MaxFaults
<1>1. [pc |-> "read", seen |-> Len(ledger), witness |-> witness] \in CloserStates
  BY DEF Types, CloserStates
<1>2. CASE Fault /\ UNCHANGED closer
  BY <1>2, FaultTyped DEF Types
<1>3. CASE \E c \in Closers :
             /\ closer' = [closer EXCEPT ![c] =
                             [pc |-> "read", seen |-> Len(ledger), witness |-> witness]]
             /\ UNCHANGED faults
  BY <1>1, <1>3 DEF Types
<1>4. QED BY <1>2, <1>3 DEF TriggerFinalization

LEMMA CloseAfterTsaTypes ==
  ASSUME TypeInv, NEW r \in Runs, CloseAfterTsa(r) PROVE TypeInv'
<1>1. run' \in [Runs -> RunStates] /\ RunsHaveJobs'
  BY DEF TypeInv, Types, RunsHaveJobs, RunStates, CloseAfterTsa
<1>2. closer' \in [Closers -> CloserStates] /\ faults' \in 0 .. MaxFaults
  BY TriggerTypes DEF TypeInv, CloseAfterTsa
<1>3. QED BY <1>1, <1>2 DEF TypeInv, Types, CloseAfterTsa, events, queue, anchors

LEMMA SubmitAnchorTypes ==
  ASSUME TypeInv, NEW r \in Runs, SubmitAnchor(r)
  PROVE  /\ TypeInv'
         /\ \E n \in Networks, w \in Witnesses :
              /\ run[r].job = <<n, w>> /\ run[r].job[2] = w
              /\ run'[r].out = <<Submitted(n, w)>> /\ run'[r].pc = "emit"
              /\ \A m \in Networks, v \in Witnesses :
                   anchor'[<<m, v>>] # "none" => anchor[<<m, v>>] # "none" \/ v = w
         /\ \A q \in Runs : q # r => run'[q] = run[q]
<1>1. /\ run[r] \in RunStates /\ run[r].job \in Networks \X Witnesses
      /\ run[r].pc = "call" /\ run[r].job \in Jobs
  BY DEF TypeInv, Types, RunsHaveJobs, SubmitAnchor
<1>2. PICK n \in Networks, w \in Witnesses :
        run[r].job = <<n, w>> /\ run[r].job[1] = n /\ run[r].job[2] = w
  BY <1>1
<1>3. run' = [run EXCEPT ![r].pc = "emit", ![r].out = <<Submitted(n, w)>>]
  BY <1>2 DEF SubmitAnchor
<1>4. <<Submitted(n, w)>> \in Seq(AllEvents)
  BY EventsTyped
<1>5. /\ run' \in [Runs -> RunStates] /\ \A q \in Runs : q # r => run'[q] = run[q]
      /\ run'[r].job = run[r].job /\ run'[r].pc = "emit"
      /\ run'[r].out = <<Submitted(n, w)>>
  BY <1>1, <1>3, <1>4 DEF TypeInv, Types, RunStates
<1>6. RunsHaveJobs'
  BY <1>1, <1>5 DEF TypeInv, RunsHaveJobs
<1>7. /\ anchor' \in [Networks \X Witnesses -> {"none", "pending", "confirmed", "failed"}]
      /\ \A m \in Networks, v \in Witnesses :
           anchor'[<<m, v>>] # "none" => anchor[<<m, v>>] # "none" \/ v = w
  <2>1. anchor' = anchor \/ anchor' = [anchor EXCEPT ![<<n, w>>] = "pending"]
    BY <1>2 DEF SubmitAnchor, A!Submit
  <2>2. QED BY <2>1 DEF TypeInv, Types
<1>8. TypeInv'
  BY <1>5, <1>6, <1>7 DEF TypeInv, Types, SubmitAnchor, events, queue
<1>9. QED BY <1>2, <1>5, <1>7, <1>8

LEMMA BuildArtifactTypes ==
  ASSUME TypeInv, NEW r \in Runs, BuildArtifact(r)
  PROVE  /\ TypeInv'
         /\ file' = [by |-> r, seen |-> run[r].seen] /\ file' # None
         /\ run[r].pc = "upload" /\ run'[r].pc = "emit"
         /\ run'[r].out \in {run[r].out, Tail(run[r].out)}
         /\ \A q \in Runs : q # r => run'[q] = run[q]
<1>1. /\ run[r] \in RunStates /\ run[r].pc = "upload" /\ run[r].job \in Jobs
      /\ run[r].seen \in Nat /\ run[r].out \in Seq(AllEvents) /\ run[r].out # <<>>
  BY DEF TypeInv, Types, RunsHaveJobs, RunStates, BuildArtifact
<1>2. PICK logged \in BOOLEAN :
        /\ run' = [run EXCEPT ![r].pc = "emit", ![r].seen = 0,
                              ![r].out = IF logged THEN @ ELSE Tail(@)]
        /\ IF logged THEN UNCHANGED faults ELSE Fault
  BY DEF BuildArtifact
<1>3. PICK out \in {run[r].out, Tail(run[r].out)} :
        run' = [run EXCEPT ![r].pc = "emit", ![r].seen = 0, ![r].out = out]
  BY <1>2
<1>4. out \in Seq(AllEvents)
  <2>1. Tail(run[r].out) \in Seq(AllEvents)
    BY <1>1
  <2>2. QED BY <1>1, <1>3, <2>1
<1>5. /\ run' \in [Runs -> RunStates] /\ run'[r].out = out /\ run'[r].pc = "emit"
      /\ run'[r].job = run[r].job /\ \A q \in Runs : q # r => run'[q] = run[q]
  BY <1>1, <1>3, <1>4 DEF TypeInv, Types, RunStates
<1>6. RunsHaveJobs'
  BY <1>1, <1>5 DEF TypeInv, RunsHaveJobs
<1>7. file' = [by |-> r, seen |-> run[r].seen] /\ file' \in Copies /\ file' # None
  BY <1>1, PipelineAssumption DEF BuildArtifact, Copies
<1>8. faults' \in 0 .. MaxFaults
  BY <1>2, FaultTyped DEF TypeInv, Types
<1>9. TypeInv'
  BY <1>5, <1>6, <1>7, <1>8 DEF TypeInv, Types, BuildArtifact, events, queue, anchors
<1>10. QED BY <1>1, <1>3, <1>5, <1>7, <1>9

LEMMA SettleTypes ==
  ASSUME TypeInv, NEW r \in Runs, Succeed(r) \/ Fail(r)
  PROVE  /\ TypeInv' /\ run' = [run EXCEPT ![r] = NoRun]
         /\ run[r].pc # "idle"
         /\ \E p \in {"done", "todo", "parked"} : Settle(r, p)
<1>1. PICK p \in {"done", "todo", "parked"} : Settle(r, p)
  BY DEF Succeed, Fail, RetryOrPark
<1>2. phase' \in [Jobs -> Q!Phases] /\ holder' \in [Jobs -> Runs \cup {None}]
  BY <1>1 DEF TypeInv, Types, Settle, Q!Settle, Q!Phases
<1>3. /\ run' = [run EXCEPT ![r] = NoRun]
      /\ run' \in [Runs -> RunStates] /\ run[r].pc # "idle"
  BY <1>1, ConstantsTyped DEF TypeInv, Types, Settle, Succeed, Fail
<1>4. RunsHaveJobs'
  BY <1>3 DEF TypeInv, Types, RunsHaveJobs, NoRun
<1>5. TypeInv'
  BY <1>1, <1>2, <1>3, <1>4 DEF TypeInv, Types, Settle, events, anchors
<1>6. QED BY <1>1, <1>3, <1>5

LEMMA CloseTypes ==
  ASSUME TypeInv, NEW c \in Closers, Close(c) PROVE TypeInv'
<1>1. closer[c] \in CloserStates /\ closer[c].witness \in Witnesses
  BY DEF TypeInv, Types, CloserStates
<1>2. closer' \in [Closers -> CloserStates]
  <2>1. closer[c].seen \in Nat
    BY <1>1 DEF CloserStates
  <2>2. PICK pc \in {"upload", "verify", "publish"} :
          \/ closer' = [closer EXCEPT ![c] = NoCloser]
          \/ closer' = [closer EXCEPT ![c].pc = pc]
    BY <1>1 DEF Close, StartClosing, UploadEco, VerifyUpload, PublishClosure
  <2>3. CASE closer' = [closer EXCEPT ![c] = NoCloser]
    BY <2>3, ConstantsTyped DEF TypeInv, Types
  <2>4. CASE closer' = [closer EXCEPT ![c].pc = pc]
    BY <1>1, <2>4 DEF TypeInv, Types, CloserStates
  <2>5. QED BY <2>2, <2>3, <2>4
<1>3. CASE StartClosing(c)
  <2>1. UNCHANGED <<events, queue>> \/ AppendEvent(Logged(closer[c].witness))
    BY <1>3 DEF StartClosing
  <2>2. /\ ledger' \in Seq(Evidence) /\ tracked' \subseteq Tracking
        /\ phase' \in [Jobs -> Q!Phases] /\ holder' \in [Jobs -> Runs \cup {None}]
        /\ attempts' \in [Jobs -> Nat]
    BY <1>1, <2>1, EventsTyped, AppendTypes DEF TypeInv, Types, events, queue
  <2>3. faults' \in 0 .. MaxFaults
    BY <1>3, FaultTyped DEF TypeInv, Types, StartClosing
  <2>4. QED BY <1>2, <1>3, <2>2, <2>3 DEF TypeInv, Types, RunsHaveJobs, StartClosing, anchors
<1>4. Copy(c) \in Copies
  BY <1>1 DEF Copy, Copies, CloserStates
<1>5. CASE UploadEco(c)
  BY <1>2, <1>4, <1>5 DEF TypeInv, Types, RunsHaveJobs, UploadEco, events, queue, anchors
<1>6. CASE VerifyUpload(c)
  BY <1>2, <1>6 DEF TypeInv, Types, RunsHaveJobs, VerifyUpload, events, queue, anchors
<1>7. CASE PublishClosure(c)
  <2>1. UNCHANGED <<events, queue>> \/ AppendEvent(Finalized(Copy(c)))
    BY <1>7 DEF PublishClosure
  <2>2. /\ ledger' \in Seq(Evidence) /\ tracked' \subseteq Tracking
        /\ phase' \in [Jobs -> Q!Phases] /\ holder' \in [Jobs -> Runs \cup {None}]
        /\ attempts' \in [Jobs -> Nat]
    BY <1>4, <2>1, EventsTyped, AppendTypes DEF TypeInv, Types, events, queue
  <2>3. QED BY <1>2, <1>7, <2>2 DEF TypeInv, Types, RunsHaveJobs, PublishClosure, anchors
<1>8. QED BY <1>3, <1>5, <1>6, <1>7 DEF Close

LEMMA AnchorTypes ==
  ASSUME TypeInv, NEW n \in Networks, NEW w \in Witnesses,
         ConfirmAnchor(n, w) \/ AnchorFails(n, w) \/ CloseAfterAnchor(n, w)
  PROVE  TypeInv'
<1>1. CASE ConfirmAnchor(n, w)
  <2>1. UNCHANGED <<events, queue>> \/ AppendEvent(Confirmed(n, w))
    BY <1>1 DEF ConfirmAnchor
  <2>2. /\ ledger' \in Seq(Evidence) /\ tracked' \subseteq Tracking
        /\ phase' \in [Jobs -> Q!Phases] /\ holder' \in [Jobs -> Runs \cup {None}]
        /\ attempts' \in [Jobs -> Nat]
    BY <2>1, EventsTyped, AppendTypes DEF TypeInv, Types, events, queue
  <2>3. /\ faults' \in 0 .. MaxFaults
        /\ anchor' \in [Networks \X Witnesses -> {"none", "pending", "confirmed", "failed"}]
        /\ outcome' \subseteq Networks \X Witnesses
    BY <1>1, FaultTyped DEF TypeInv, Types, ConfirmAnchor, A!Confirm
  <2>4. QED BY <1>1, <2>2, <2>3 DEF TypeInv, Types, RunsHaveJobs, ConfirmAnchor
<1>2. CASE AnchorFails(n, w)
  <2>1. /\ faults' \in 0 .. MaxFaults
        /\ anchor' \in [Networks \X Witnesses -> {"none", "pending", "confirmed", "failed"}]
        /\ outcome' \subseteq Networks \X Witnesses
    BY <1>2, FaultTyped DEF TypeInv, Types, AnchorFails, A!Fail
  <2>2. QED BY <1>2, <2>1 DEF TypeInv, Types, RunsHaveJobs, AnchorFails, events, queue
<1>3. CASE CloseAfterAnchor(n, w)
  <2>1. closer' \in [Closers -> CloserStates] /\ faults' \in 0 .. MaxFaults
    BY <1>3, TriggerTypes DEF TypeInv, CloseAfterAnchor
  <2>2. QED BY <1>3, <2>1 DEF TypeInv, Types, RunsHaveJobs, CloseAfterAnchor, events, queue
<1>4. QED BY <1>1, <1>2, <1>3

LEMMA FaultTypes ==
  ASSUME TypeInv,
         \/ \E r \in Runs : Crash(r) \/ StepFails(r) \/ TimeOut(r)
         \/ \E c \in Closers : CloserCrash(c)
         \/ \E j \in Jobs : Reclaim(j)
  PROVE  TypeInv'
<1>1. ASSUME NEW r \in Runs, Crash(r) PROVE TypeInv'
  <2>1. run' \in [Runs -> RunStates] /\ RunsHaveJobs'
    BY <1>1, ConstantsTyped DEF TypeInv, Types, RunsHaveJobs, Crash, NoRun
  <2>2. faults' \in 0 .. MaxFaults
    BY <1>1, FaultTyped DEF TypeInv, Crash
  <2>3. QED BY <1>1, <2>1, <2>2 DEF TypeInv, Types, Crash, events, queue, anchors
<1>2. ASSUME NEW r \in Runs, StepFails(r) PROVE TypeInv'
  <2>1. run' \in [Runs -> RunStates]
    BY <1>2 DEF TypeInv, Types, RunStates, StepFails
  <2>2. RunsHaveJobs'
    BY <1>2 DEF TypeInv, Types, RunStates, RunsHaveJobs, StepFails
  <2>3. faults' \in 0 .. MaxFaults
    BY <1>2, FaultTyped DEF TypeInv, StepFails
  <2>4. QED BY <1>2, <2>1, <2>2, <2>3 DEF TypeInv, Types, StepFails, events, queue, anchors
<1>3. ASSUME NEW r \in Runs, TimeOut(r) PROVE TypeInv'
  <2>1. phase' \in [Jobs -> Q!Phases] /\ holder' \in [Jobs -> Runs \cup {None}]
    BY <1>3 DEF TypeInv, Types, TimeOut, Q!Settle, Q!Phases
  <2>2. faults' \in 0 .. MaxFaults
    BY <1>3, FaultTyped DEF TypeInv, TimeOut
  <2>3. QED BY <1>3, <2>1, <2>2 DEF TypeInv, Types, RunsHaveJobs, TimeOut, events, anchors
<1>4. ASSUME NEW c \in Closers, CloserCrash(c) PROVE TypeInv'
  <2>1. closer' \in [Closers -> CloserStates] /\ faults' \in 0 .. MaxFaults
    BY <1>4, FaultTyped, ConstantsTyped DEF TypeInv, Types, CloserCrash
  <2>2. QED BY <1>4, <2>1 DEF TypeInv, Types, RunsHaveJobs, CloserCrash, events, queue, anchors
<1>5. ASSUME NEW j \in Jobs, Reclaim(j) PROVE TypeInv'
  <2>1. phase' \in [Jobs -> Q!Phases] /\ holder' \in [Jobs -> Runs \cup {None}]
    BY <1>5 DEF TypeInv, Types, Reclaim, Q!Lapse, Q!Phases
  <2>2. attempts' \in [Jobs -> Nat]
    BY <1>5 DEF TypeInv, Types, Reclaim
  <2>3. QED BY <1>5, <2>1, <2>2 DEF TypeInv, Types, RunsHaveJobs, Reclaim, events, anchors
<1>6. QED BY <1>1, <1>2, <1>3, <1>4, <1>5

LEMMA TypesKept == TypeInv /\ [Next]_vars => TypeInv'
<1> SUFFICES ASSUME TypeInv, [Next]_vars PROVE TypeInv'
  OBVIOUS
<1>1. ASSUME NEW c \in Callers, CheckRequest(c) \/ RequestProtection(c) PROVE TypeInv'
  BY <1>1, CheckRequestTypes, RequestProtectionTypes
<1>2. ASSUME NEW r \in Runs, Work(r) PROVE TypeInv'
  BY <1>2, EmitTypes, CloseAfterTsaTypes, SubmitAnchorTypes, BuildArtifactTypes, SettleTypes
     DEF Work
<1>3. ASSUME NEW r \in Runs, NEW j \in Jobs, Claim(r, j) PROVE TypeInv'
  BY <1>3, ClaimTypes
<1>4. ASSUME NEW c \in Closers, Close(c) PROVE TypeInv'
  BY <1>4, CloseTypes
<1>5. ASSUME NEW n \in Networks, NEW w \in Witnesses,
             ConfirmAnchor(n, w) \/ AnchorFails(n, w) \/ CloseAfterAnchor(n, w)
      PROVE  TypeInv'
  BY <1>5, AnchorTypes
<1>6. CASE UNCHANGED vars
  BY <1>6 DEF TypeInv, Types, RunsHaveJobs, vars
<1>7. QED BY <1>1, <1>2, <1>3, <1>4, <1>5, <1>6, SignTypes, FaultTypes DEF Next

\* Every variable keeps its type.
THEOREM TypeCorrect == Spec => []TypeOK
<1>1. TypeInv => TypeOK
  BY TypesAreTypeOK DEF TypeInv
<1>2. QED BY <1>1, InitTypes, TypesKept, PTL DEF Spec
-----------------------------------------------------------------------------
(* The job table.                                                          *)

LEMMA QueueSteps ==
  ASSUME TypeInv, [Next]_vars
  PROVE  \/ UNCHANGED <<phase, holder>>
         \/ \E e \in AllEvents : AppendEvent(e)
         \/ \E j \in Jobs, r \in Runs : Q!Take({j}, r)
         \/ \E j \in Jobs, p \in Q!Phases :
             /\ holder[j] \in Runs /\ Q!Settle(j, p)
             /\ \A q \in Runs \ {holder[j]} : run'[q] = run[q]
         \/ \E j \in Jobs : (Q!Lapse({j}, {j}) \/ Q!Lapse({j}, {})) /\ UNCHANGED run
<1> DEFINE Goal ==
      \/ UNCHANGED <<phase, holder>>
      \/ \E e \in AllEvents : AppendEvent(e)
      \/ \E j \in Jobs, r \in Runs : Q!Take({j}, r)
      \/ \E j \in Jobs, p \in Q!Phases :
          /\ holder[j] \in Runs /\ Q!Settle(j, p)
          /\ \A q \in Runs \ {holder[j]} : run'[q] = run[q]
      \/ \E j \in Jobs : (Q!Lapse({j}, {j}) \/ Q!Lapse({j}, {})) /\ UNCHANGED run
<1>1. ASSUME NEW c \in Callers, CheckRequest(c) \/ RequestProtection(c) PROVE Goal
  <2>1. Requested("DIRECT_PROTECTION", "initial", call[c].witness) \in AllEvents
    BY EventsTyped DEF TypeInv, Types, StageRank
  <2>2. QED BY <1>1, <2>1 DEF CheckRequest, RequestProtection, queue
<1>2. CASE Sign \/ RequestForSigner \/ RequestFinal
  <2>1. Requested("SIGNATURE_FLOW", "initial", signed) \in AllEvents
    BY EventsTyped DEF TypeInv, Types, StageRank, Witnesses
  <2>2. QED BY <1>2, <2>1 DEF Sign, RequestForSigner, RequestFinal, RequestOnce, queue
<1>3. ASSUME NEW r \in Runs, Emit(r) PROVE Goal
  BY <1>3, EmitTypes DEF queue
<1>4. ASSUME NEW r \in Runs, Succeed(r) \/ Fail(r) PROVE Goal
  <2>1. PICK p \in {"done", "todo", "parked"} : Settle(r, p)
    BY <1>4, SettleTypes
  <2>2. run[r].job \in Jobs
    BY <1>4, SettleTypes DEF TypeInv, RunsHaveJobs
  <2>3. QED BY <2>1, <2>2 DEF Settle, Q!Phases
<1>5. ASSUME NEW r \in Runs,
             \/ CloseAfterTsa(r) \/ SubmitAnchor(r) \/ BuildArtifact(r)
             \/ Crash(r) \/ StepFails(r)
      PROVE  Goal
  BY <1>5 DEF CloseAfterTsa, SubmitAnchor, BuildArtifact, Crash, StepFails, queue
<1>6. ASSUME NEW r \in Runs, TimeOut(r) PROVE Goal
  <2>1. /\ run[r].job \in Jobs /\ holder[run[r].job] = r
        /\ Q!Settle(run[r].job, RetryOrPark(run[r].job)) /\ UNCHANGED run
    BY <1>6 DEF TypeInv, Types, RunStates, TimeOut
  <2>2. RetryOrPark(run[r].job) \in Q!Phases
    BY DEF RetryOrPark, Q!Phases
  <2>3. QED BY <2>1, <2>2
<1>7. ASSUME NEW r \in Runs, NEW j \in Jobs, Claim(r, j) PROVE Goal
  BY <1>7 DEF Claim
<1>8. ASSUME NEW j \in Jobs, Reclaim(j) PROVE Goal
  BY <1>8 DEF Reclaim
<1>9. ASSUME NEW c \in Closers, Close(c) \/ CloserCrash(c) PROVE Goal
  <2>1. Logged(closer[c].witness) \in AllEvents /\ Finalized(Copy(c)) \in AllEvents
    BY EventsTyped DEF TypeInv, Types, CloserStates, Copy, Copies
  <2>2. QED BY <1>9, <2>1 DEF Close, StartClosing, UploadEco, VerifyUpload, PublishClosure,
       CloserCrash, queue
<1>10. ASSUME NEW n \in Networks, NEW w \in Witnesses,
             ConfirmAnchor(n, w) \/ AnchorFails(n, w) \/ CloseAfterAnchor(n, w)
      PROVE  Goal
  BY <1>10, EventsTyped DEF ConfirmAnchor, AnchorFails, CloseAfterAnchor, queue
<1>11. CASE UNCHANGED vars
  BY <1>11 DEF vars
<1>12. QED BY <1>1, <1>2, <1>3, <1>4, <1>5, <1>6, <1>7, <1>8, <1>9, <1>10, <1>11 DEF Next, Work

LEMMA QueueStep == ASSUME TypeInv, [Next]_vars PROVE [Q!Next]_<<phase, holder>>
<1>1. ASSUME NEW e \in AllEvents, AppendEvent(e) PROVE [Q!Next]_<<phase, holder>>
  BY <1>1, AppendPhase DEF TypeInv, Q!Next, Q!Submit
<1>2. ASSUME NEW j \in Jobs, NEW r \in Runs, Q!Take({j}, r) PROVE Q!Next
  BY <1>2 DEF Q!Next
<1>3. ASSUME NEW j \in Jobs, NEW p \in Q!Phases, Q!Settle(j, p) PROVE Q!Next
  BY <1>3 DEF Q!Next
<1>4. ASSUME NEW j \in Jobs, Q!Lapse({j}, {j}) \/ Q!Lapse({j}, {}) PROVE Q!Next
  BY <1>4 DEF Q!Next
<1>5. QED BY <1>1, <1>2, <1>3, <1>4, QueueSteps

\* A lease ends by its holder's hand or by nobody's.
LEMMA HolderSettles == ASSUME TypeInv, [Next]_vars PROVE OnlyHolderSettles
<1> USE PipelineAssumption DEF OnlyHolderSettles, TypeInv, Types
<1>1. CASE UNCHANGED <<phase, holder>>
  BY <1>1
<1>2. ASSUME NEW e \in AllEvents, AppendEvent(e) PROVE OnlyHolderSettles
  BY <1>2 DEF AppendEvent
<1>3. ASSUME NEW j \in Jobs, NEW r \in Runs, Q!Take({j}, r) PROVE OnlyHolderSettles
  BY <1>3 DEF Q!Take
<1>4. ASSUME NEW j \in Jobs, NEW p \in Q!Phases, Q!Settle(j, p),
             \A q \in Runs \ {holder[j]} : run'[q] = run[q]
      PROVE  OnlyHolderSettles
  BY <1>4 DEF Q!Settle
<1>5. ASSUME UNCHANGED run PROVE OnlyHolderSettles
  BY <1>5
<1>6. QED BY <1>1, <1>2, <1>3, <1>4, <1>5, QueueSteps

\* Whatever overlaps, is killed or goes on as a zombie: the pipeline uses the job table
\* as LeaseQueue, which JobQueue implements, allows, and nobody ends the lease of another.
THEOREM QueueUsedAsAllowed == Spec => UsesLeaseQueue
<1>1. Init => Q!Init
  BY DEF Init
<1>2. TypeInv /\ [Next]_vars => [Q!Next]_Q!vars
  BY QueueStep DEF Q!vars
<1>3. TypeInv /\ [Next]_vars => [OnlyHolderSettles]_vars
  BY HolderSettles
<1>4. QED BY <1>1, <1>2, <1>3, InitTypes, TypesKept, PTL DEF Spec, UsesLeaseQueue, Q!Spec

\* A job has a holder exactly as long as it is leased: the name a settlement compares is
\* that of the one invocation the job is leased to, and none once a zombie lost it.
THEOREM LeasesHaveHolders == Spec => []LeasesAreHeld
<1>1. Init => LeasesAreHeld
  BY DEF Init, Q!Init, LeasesAreHeld
<1>2. TypeInv /\ LeasesAreHeld /\ [Next]_vars => LeasesAreHeld'
  <2> SUFFICES ASSUME TypeInv, LeasesAreHeld, [Next]_vars PROVE LeasesAreHeld'
    OBVIOUS
  <2>1. /\ phase \in [Jobs -> Q!Phases] /\ holder \in [Jobs -> Runs \cup {None}]
        /\ None \notin Runs
    BY PipelineAssumption DEF TypeInv, Types
  <2>2. ASSUME NEW e \in AllEvents, AppendEvent(e) PROVE LeasesAreHeld'
    BY <2>1, <2>2, AppendPhase DEF TypeInv, LeasesAreHeld
  <2>3. ASSUME NEW j \in Jobs, NEW r \in Runs, Q!Take({j}, r) PROVE LeasesAreHeld'
    BY <2>1, <2>3 DEF LeasesAreHeld, Q!Take
  <2>4. ASSUME NEW j \in Jobs, NEW p \in Q!Phases, Q!Settle(j, p) PROVE LeasesAreHeld'
    BY <2>1, <2>4 DEF LeasesAreHeld, Q!Settle
  <2>5. ASSUME NEW j \in Jobs, Q!Lapse({j}, {j}) \/ Q!Lapse({j}, {}) PROVE LeasesAreHeld'
    BY <2>1, <2>5 DEF LeasesAreHeld, Q!Lapse
  <2>6. CASE UNCHANGED <<phase, holder>>
    BY <2>6 DEF LeasesAreHeld
  <2>7. QED BY <2>2, <2>3, <2>4, <2>5, <2>6, QueueSteps
<1>3. QED BY <1>1, <1>2, InitTypes, TypesKept, PTL DEF Spec
-----------------------------------------------------------------------------
(* The ledger.                                                             *)

\* Where an appended event comes from.
Source(e) ==
  \/ e.kind \in {"document.protected.requested", "rekor.confirmed", "anchor.confirmed"}
  \/ \E r \in Runs : /\ run[r].pc = "emit" /\ 1 \in DOMAIN run[r].out /\ e = run[r].out[1]
  \/ e.kind = "artifact.finalized" /\ \E c \in Closers : closer[c].pc = "publish"

LEMMA LedgerSteps ==
  ASSUME TypeInv, [Next]_vars
  PROVE  \/ /\ UNCHANGED <<ledger, tracked>>
            /\ phase'[ArtifactJob] # "absent" => phase[ArtifactJob] # "absent"
         \/ \E e \in AllEvents : AppendEvent(e) /\ Source(e)
<1> DEFINE Same == /\ UNCHANGED <<ledger, tracked>>
                   /\ phase'[ArtifactJob] # "absent" => phase[ArtifactJob] # "absent"
           Goal == Same \/ \E e \in AllEvents : AppendEvent(e) /\ Source(e)
<1>1. ArtifactJob \in Jobs /\ phase \in [Jobs -> Q!Phases]
  BY DEF TypeInv, Types, Jobs
<1>2. UNCHANGED <<events, phase>> => Same
  BY DEF events
<1>3. ASSUME NEW j \in Jobs,
             \/ \E r \in Runs : Q!Take({j}, r)
             \/ \E p : Q!Settle(j, p)
             \/ \E S : Q!Lapse({j}, S)
      PROVE  phase'[ArtifactJob] # "absent" => phase[ArtifactJob] # "absent"
  BY <1>1, <1>3 DEF Q!Take, Q!Settle, Q!Lapse
<1>4. ASSUME NEW c \in Callers, CheckRequest(c) \/ RequestProtection(c) PROVE Goal
  <2> DEFINE e == Requested("DIRECT_PROTECTION", "initial", call[c].witness)
  <2>1. e \in AllEvents
    BY EventsTyped DEF TypeInv, Types, StageRank
  <2>2. Source(e)
    BY DEF Source, Requested
  <2>3. UNCHANGED <<events, queue>> \/ AppendEvent(e)
    BY <1>4 DEF CheckRequest, RequestProtection
  <2> HIDE DEF e
  <2>4. QED BY <1>2, <2>1, <2>2, <2>3 DEF queue
<1>5. CASE Sign \/ RequestForSigner \/ RequestFinal
  <2> DEFINE e == Requested("SIGNATURE_FLOW", "initial", signed)
  <2>1. e \in AllEvents
    BY EventsTyped DEF TypeInv, Types, StageRank, Witnesses
  <2>2. Source(e)
    BY DEF Source, Requested
  <2>3. UNCHANGED <<events, queue>> \/ AppendEvent(e)
    BY <1>5 DEF Sign, RequestForSigner, RequestFinal, RequestOnce
  <2> HIDE DEF e
  <2>4. QED BY <1>2, <2>1, <2>2, <2>3 DEF queue
<1>6. ASSUME NEW r \in Runs, Emit(r) PROVE Goal
  <2>1. Source(run[r].out[1])
    BY <1>6, EmitTypes DEF Source, Emit
  <2>2. QED BY <1>2, <1>6, <2>1, EmitTypes DEF queue
<1>7. ASSUME NEW r \in Runs, Succeed(r) \/ Fail(r) PROVE Same
  <2>1. PICK p : Settle(r, p)
    BY <1>7, SettleTypes
  <2>2. run[r].job \in Jobs
    BY <1>7, SettleTypes DEF TypeInv, RunsHaveJobs
  <2>3. UNCHANGED phase \/ Q!Settle(run[r].job, p)
    BY <2>1 DEF Settle
  <2>4. QED BY <1>3, <2>1, <2>2, <2>3 DEF Settle, events
<1>8. ASSUME NEW r \in Runs,
             \/ CloseAfterTsa(r) \/ SubmitAnchor(r) \/ BuildArtifact(r)
             \/ Crash(r) \/ StepFails(r)
      PROVE  Same
  BY <1>2, <1>8 DEF CloseAfterTsa, SubmitAnchor, BuildArtifact, Crash, StepFails, queue
<1>9. ASSUME NEW r \in Runs, TimeOut(r) PROVE Same
  <2>1. run[r].job \in Jobs /\ \E p : Q!Settle(run[r].job, p)
    BY <1>9 DEF TypeInv, Types, RunStates, TimeOut
  <2>2. QED BY <1>3, <1>9, <2>1 DEF TimeOut, events
<1>10. ASSUME NEW r \in Runs, NEW j \in Jobs, Claim(r, j) PROVE Same
  BY <1>3, <1>10 DEF Claim, events
<1>11. ASSUME NEW j \in Jobs, Reclaim(j) PROVE Same
  BY <1>3, <1>11 DEF Reclaim, events
<1>12. ASSUME NEW c \in Closers, Close(c) \/ CloserCrash(c) PROVE Goal
  <2>1. Logged(closer[c].witness) \in AllEvents /\ Finalized(Copy(c)) \in AllEvents
    BY EventsTyped DEF TypeInv, Types, CloserStates, Copy, Copies
  <2>2. /\ Source(Logged(closer[c].witness))
        /\ closer[c].pc = "publish" => Source(Finalized(Copy(c)))
    BY DEF Source, Logged, Finalized
  <2>3. \/ UNCHANGED <<events, queue>> \/ AppendEvent(Logged(closer[c].witness))
        \/ closer[c].pc = "publish" /\ AppendEvent(Finalized(Copy(c)))
    BY <1>12 DEF Close, StartClosing, UploadEco, VerifyUpload, PublishClosure, CloserCrash
  <2>4. QED BY <1>2, <2>1, <2>2, <2>3 DEF queue
<1>13. ASSUME NEW n \in Networks, NEW w \in Witnesses,
              ConfirmAnchor(n, w) \/ AnchorFails(n, w) \/ CloseAfterAnchor(n, w)
       PROVE  Goal
  <2>1. Confirmed(n, w) \in AllEvents /\ Source(Confirmed(n, w))
    BY EventsTyped DEF Source, Confirmed
  <2>2. UNCHANGED <<events, queue>> \/ AppendEvent(Confirmed(n, w))
    BY <1>13 DEF ConfirmAnchor, AnchorFails, CloseAfterAnchor
  <2>3. QED BY <1>2, <2>1, <2>2 DEF queue
<1>14. CASE UNCHANGED vars
  BY <1>2, <1>14 DEF vars, events
<1>15. QED BY <1>4, <1>5, <1>6, <1>7, <1>8, <1>9, <1>10, <1>11, <1>12, <1>13, <1>14
       DEF Next, Work

\* The ledger is append-only, and what was rejected is not in it.
LEMMA LedgerGrows ==
  ASSUME TypeInv, [Next]_vars
  PROVE  /\ ledger \in Seq(Evidence) /\ ledger' \in Seq(Evidence)
         /\ \/ ledger' = ledger
            \/ \E e \in Evidence : ~Rejected(e) /\ ledger' = Append(ledger, e)
         /\ Len(ledger) <= Len(ledger')
         /\ \A i \in DOMAIN ledger : i \in DOMAIN ledger' /\ ledger'[i] = ledger[i]
         /\ tracked \subseteq tracked'
<1>1. ledger \in Seq(Evidence)
  BY DEF TypeInv, Types
<1>2. /\ ledger' = ledger \/ \E e \in Evidence : ~Rejected(e) /\ ledger' = Append(ledger, e)
      /\ tracked \subseteq tracked'
  BY LedgerSteps, AppendFacts DEF TypeInv
<1>3. CASE ledger' = ledger
  BY <1>1, <1>2, <1>3
<1>4. ASSUME NEW e \in Evidence, ~Rejected(e), ledger' = Append(ledger, e)
      PROVE  /\ ledger' \in Seq(Evidence) /\ Len(ledger) <= Len(ledger')
             /\ \A i \in DOMAIN ledger : i \in DOMAIN ledger' /\ ledger'[i] = ledger[i]
  BY <1>1, <1>4
<1>5. QED BY <1>1, <1>2, <1>3, <1>4

LEMMA UniqueKept ==
  ASSUME TypeInv, ProofsAreUnique, [Next]_vars PROVE ProofsAreUnique'
<1>1. ledger \in Seq(Evidence)
  BY DEF TypeInv, Types
<1>2. CASE ledger' = ledger
  BY <1>2 DEF ProofsAreUnique
<1>3. ASSUME NEW e \in Evidence, ~Rejected(e), ledger' = Append(ledger, e)
      PROVE  ProofsAreUnique'
  <2>1. /\ DOMAIN ledger' = DOMAIN ledger \cup {Len(ledger) + 1}
        /\ ledger'[Len(ledger) + 1] = e
        /\ \A i \in DOMAIN ledger : ledger'[i] = ledger[i]
    BY <1>1, <1>3
  <2>2. e.kind = "artifact.finalized" =>
          \A i \in DOMAIN ledger : ledger[i].kind # "artifact.finalized"
    BY <1>3 DEF Rejected, Has
  <2>3. e.kind = "tsa.confirmed" =>
          \A i \in DOMAIN ledger :
            ~(ledger[i].kind = "tsa.confirmed" /\ ledger[i].witness = e.witness)
    BY <1>3, ContainsTimestamp DEF Rejected, TypeInv, TimestampOf
  <2>4. QED BY <2>1, <2>2, <2>3 DEF ProofsAreUnique
<1>4. QED BY <1>2, <1>3, LedgerGrows

\* Whatever overlaps, a witness is timestamped once and the document closed once.
THEOREM ProofsStayUnique == Spec => []ProofsAreUnique
<1>1. Init => ProofsAreUnique
  BY DEF Init, ProofsAreUnique
<1>2. TypeInv /\ ProofsAreUnique /\ [Next]_vars => ProofsAreUnique'
  BY UniqueKept
<1>3. QED BY <1>1, <1>2, InitTypes, TypesKept, PTL DEF Spec

\* What the ledger shows it goes on to show.
LEMMA FoundationsStay ==
  ASSUME TypeInv, [Next]_vars
  PROVE  /\ HasTimestamp => HasTimestamp'
         /\ \A w : TimestampOf(w) => TimestampOf(w)'
         /\ \A n \in Nat : TimestampBy(n) => TimestampBy(n)'
         /\ \A e : Founded(e) => Founded(e)'
<1>1. /\ ledger \in Seq(Evidence) /\ ledger' \in Seq(Evidence)
      /\ Len(ledger) <= Len(ledger')
      /\ \A i \in DOMAIN ledger : i \in DOMAIN ledger' /\ ledger'[i] = ledger[i]
  BY LedgerGrows
<1>2. HasTimestamp => HasTimestamp'
  BY <1>1 DEF HasTimestamp
<1>3. \A w : TimestampOf(w) => TimestampOf(w)'
  BY <1>1 DEF TimestampOf
<1>4. \A n \in Nat : TimestampBy(n) => TimestampBy(n)'
  <2> SUFFICES ASSUME NEW n \in Nat, TimestampBy(n) PROVE TimestampBy(n)'
    OBVIOUS
  <2>1. PICK i \in 1 .. n : n <= Len(ledger) /\ ledger[i].kind = "tsa.confirmed"
    BY DEF TimestampBy
  <2>2. n <= Len(ledger') /\ ledger'[i] = ledger[i]
    BY <1>1, <2>1
  <2>3. QED BY <2>1, <2>2 DEF TimestampBy
<1>5. \A e : Founded(e) => Founded(e)'
  BY <1>2, <1>3 DEF Founded
<1>6. QED BY <1>2, <1>3, <1>4, <1>5
-----------------------------------------------------------------------------
(* Invocations and what they may append.                                   *)

LEMMA RunSteps ==
  ASSUME TypeInv, [Next]_vars, NEW r \in Runs
  PROVE  \/ run'[r] = run[r]
         \/ run'[r] = NoRun
         \/ \E j \in Jobs : Claim(r, j)
         \/ Emit(r) \/ CloseAfterTsa(r) \/ SubmitAnchor(r) \/ BuildArtifact(r)
         \/ StepFails(r)
<1> DEFINE Goal ==
      \/ run'[r] = run[r]
      \/ run'[r] = NoRun
      \/ \E j \in Jobs : Claim(r, j)
      \/ Emit(r) \/ CloseAfterTsa(r) \/ SubmitAnchor(r) \/ BuildArtifact(r)
      \/ StepFails(r)
<1>1. run \in [Runs -> RunStates]
  BY DEF TypeInv, Types
<1>2. ASSUME NEW q \in Runs, Work(q) \/ Crash(q) \/ StepFails(q) \/ TimeOut(q) PROVE Goal
  <2>1. CASE q = r
    <3>1. Succeed(r) \/ Fail(r) => run'[r] = NoRun
      BY <1>1, SettleTypes
    <3>2. Crash(r) => run'[r] = NoRun
      BY <1>1 DEF Crash
    <3>3. TimeOut(r) => run'[r] = run[r]
      BY DEF TimeOut
    <3>4. QED BY <1>2, <2>1, <3>1, <3>2, <3>3 DEF Work
  <2>2. CASE q # r
    <3>1. CASE Succeed(q) \/ Fail(q) \/ Crash(q)
      <4>1. run' = [run EXCEPT ![q] = NoRun]
        BY <3>1, SettleTypes DEF Crash
      <4>2. QED BY <1>1, <2>2, <4>1
    <3>2. CASE Emit(q) \/ SubmitAnchor(q) \/ BuildArtifact(q)
      BY <2>2, <3>2, EmitTypes, SubmitAnchorTypes, BuildArtifactTypes
    <3>3. CASE CloseAfterTsa(q) \/ StepFails(q) \/ TimeOut(q)
      BY <1>1, <2>2, <3>3 DEF CloseAfterTsa, StepFails, TimeOut
    <3>4. QED BY <1>2, <3>1, <3>2, <3>3 DEF Work
  <2>3. QED BY <2>1, <2>2
<1>3. ASSUME NEW q \in Runs, NEW j \in Jobs, Claim(q, j) PROVE Goal
  <2>1. CASE q = r
    BY <1>3, <2>1
  <2>2. CASE q # r
    BY <1>1, <1>3, <2>2 DEF Claim
  <2>3. QED BY <2>1, <2>2
<1>4. run' = run => Goal
  OBVIOUS
<1>5. QED BY <1>2, <1>3, <1>4 DEF Next, vars, CheckRequest, RequestProtection, Sign,
     RequestForSigner, RequestFinal, Reclaim, Close, StartClosing, UploadEco, VerifyUpload,
     PublishClosure, CloserCrash, ConfirmAnchor, AnchorFails, CloseAfterAnchor

\* What an invocation that starts with the record s has to rely on.
WellStarted(j, s) ==
  /\ s.job = j /\ s.pc # "close"
  /\ s.pc = "call" => TimestampOf(j[2])
  /\ s.pc = "upload" => j = ArtifactJob /\ phase[j] # "absent" /\ s.seen = Len(ledger)
  /\ \A i \in DOMAIN s.out :
       /\ Founded(s.out[i])
       /\ s.out[i].kind = "artifact.finalized" => s.pc = "upload"

LEMMA StartsWell ==
  ASSUME NEW j, NEW S, NEW out \in Seq(S), NEW seen,
         \A e \in S : Founded(e) /\ e.kind # "artifact.finalized"
  PROVE  WellStarted(j, [job |-> j, pc |-> "emit", out |-> out, seen |-> seen])
<1>1. \A i \in DOMAIN out : out[i] \in S
  OBVIOUS
<1>2. QED BY <1>1 DEF WellStarted

\* An invocation starts with what the ledger it has read allows.
LEMMA ClaimStarts ==
  ASSUME TypeInv, NEW r \in Runs, NEW j \in Jobs, Claim(r, j)
  PROVE  WellStarted(j, run'[r])
<1> DEFINE Rec(pc, out, seen) == [job |-> j, pc |-> pc, out |-> out, seen |-> seen]
           Starts(pc, out, seen) == run' = [run EXCEPT ![r] = Rec(pc, out, seen)]
<1>1. ASSUME NEW pc, NEW out, NEW seen, Starts(pc, out, seen)
      PROVE  run'[r] = Rec(pc, out, seen)
  BY <1>1 DEF TypeInv, Types
<1>2. j[1] \in Milestones \cup {"run_tsa"} => j[2] \in Witnesses
  BY DEF Jobs, Milestones, ArtifactJob
<1>3. CASE j[1] \in Milestones /\ Starts("emit", DecisionEvents(ledger, j[2]), 0)
  <2>1. DecisionEvents(ledger, j[2]) \in Seq(Decided(ledger))
    BY <1>2, <1>3, DecisionEventsTyped
  <2>2. \A e \in Decided(ledger) : Founded(e) /\ e.kind # "artifact.finalized"
    BY HasTimestampIsHas DEF Decided, Founded
  <2>3. WellStarted(j, Rec("emit", DecisionEvents(ledger, j[2]), 0))
    BY <2>1, <2>2, StartsWell
  <2>4. QED BY <1>1, <1>3, <2>3
<1>4. CASE j[1] = "run_tsa" /\ Starts("emit", TsaEvents(ledger, j[2]), 0)
  <2>1. TsaEvents(ledger, j[2]) \in Seq(TsaEventSet(j[2]))
    BY TsaEventsTyped
  <2>2. \A e \in TsaEventSet(j[2]) : Founded(e) /\ e.kind # "artifact.finalized"
    BY <1>2, <1>4, TsaEventsAreEvents, PipelineAssumption DEF Founded
  <2>3. WellStarted(j, Rec("emit", TsaEvents(ledger, j[2]), 0))
    BY <2>1, <2>2, StartsWell
  <2>4. QED BY <1>1, <1>4, <2>3
<1>5. ASSUME NEW pc \in {"emit", "failed", "precondition"}, Starts(pc, <<>>, 0)
      PROVE  WellStarted(j, run'[r])
  <2>1. WellStarted(j, Rec(pc, <<>>, 0))
    BY DEF WellStarted
  <2>2. QED BY <1>1, <1>5, <2>1
<1>6. CASE Contains(ledger, Timestamped(j[2])) /\ Starts("call", <<>>, 0)
  <2>1. WellStarted(j, Rec("call", <<>>, 0))
    BY <1>6, ContainsTimestamp DEF TypeInv, WellStarted
  <2>2. QED BY <1>1, <1>6, <2>1
<1>7. CASE /\ j = ArtifactJob
           /\ Starts("upload", <<Logged(witness), Finalized(None)>>, Len(ledger))
  <2> DEFINE out == <<Logged(witness), Finalized(None)>>
  <2>1. Founded(Logged(witness)) /\ Founded(Finalized(None))
    BY DEF Founded, Logged, Finalized
  <2>2. phase[j] # "absent"
    BY DEF Claim, Q!Take
  <2>3. \A i \in DOMAIN out : Founded(out[i])
    BY <2>1
  <2> HIDE DEF out
  <2>4. WellStarted(j, Rec("upload", out, Len(ledger)))
    BY <1>7, <2>2, <2>3 DEF WellStarted
  <2>5. QED BY <1>1, <1>7, <2>4 DEF out
<1>8. QED BY <1>3, <1>4, <1>5, <1>6, <1>7 DEF Claim

LEMMA FileStays ==
  ASSUME TypeInv, [Next]_vars PROVE file # None => file' # None
<1>1. ASSUME NEW r \in Runs, BuildArtifact(r) PROVE file' # None
  BY <1>1, BuildArtifactTypes
<1>2. ASSUME NEW c \in Closers, UploadEco(c) PROVE file' # None
  <2>1. closer[c].seen \in Nat
    BY DEF TypeInv, Types, CloserStates
  <2>2. QED BY <1>2, <2>1, PipelineAssumption DEF UploadEco, Copy
<1>3. QED BY <1>1, <1>2 DEF Next, vars, CheckRequest, RequestProtection, Sign,
     RequestForSigner, RequestFinal, Work, Emit, CloseAfterTsa, SubmitAnchor, Succeed, Fail,
     Settle, Claim, Crash, StepFails, TimeOut, Reclaim, Close, StartClosing,
     VerifyUpload, PublishClosure, CloserCrash, ConfirmAnchor, AnchorFails, CloseAfterAnchor

\* No step takes from an invocation what it relies on.
LEMMA RunsStayFounded ==
  ASSUME PipelineInv, [Next]_vars, NEW r \in Runs PROVE RunIsFounded(r)'
<1>1. /\ TypeInv /\ RunIsFounded(r) /\ run \in [Runs -> RunStates]
      /\ run[r].out \in Seq(AllEvents) /\ run[r].seen \in Nat
  BY DEF PipelineInv, TypeInv, Types, RunStates
<1>2. /\ HasTimestamp => HasTimestamp'
      /\ \A w : TimestampOf(w) => TimestampOf(w)'
      /\ \A n \in Nat : TimestampBy(n) => TimestampBy(n)'
      /\ \A e : Founded(e) => Founded(e)'
      /\ file # None => file' # None
  BY <1>1, FoundationsStay, FileStays
<1>3. CASE run'[r] = run[r]
  BY <1>1, <1>2, <1>3 DEF RunIsFounded
<1>4. CASE run'[r] = NoRun
  BY <1>4 DEF RunIsFounded, NoRun
<1>5. ASSUME NEW j \in Jobs, Claim(r, j) PROVE RunIsFounded(r)'
  <2>1. WellStarted(j, run'[r])
    BY <1>1, <1>5, ClaimStarts
  <2>2. run'[r].pc = "call" => TimestampOf(run'[r].job[2])
    BY <2>1 DEF WellStarted
  <2>3. run'[r].pc = "upload" => TimestampBy(run'[r].seen) /\ run'[r].seen \in Nat
    <3>1. HasTimestamp => TimestampBy(Len(ledger)) /\ Len(ledger) \in Nat
      BY <1>1 DEF TypeInv, Types, HasTimestamp, TimestampBy
    <3>2. QED BY <2>1, <3>1 DEF WellStarted, PipelineInv, ArtifactIsFounded
  <2>4. QED BY <1>2, <2>1, <2>2, <2>3 DEF WellStarted, RunIsFounded
<1>6. CASE Emit(r)
  <2>1. /\ run[r].out[1] \in AllEvents /\ run[r].pc = "emit"
        /\ \/ UNCHANGED <<events, queue>> /\ run'[r].out = run[r].out /\ run'[r].pc = "failed"
           \/ /\ AppendEvent(run[r].out[1]) /\ run'[r].out = Tail(run[r].out)
              /\ \/ run'[r].pc = "close" /\ run[r].out[1].kind = "tsa.confirmed"
                 \/ run'[r].pc = "emit"
    BY <1>1, <1>6, EmitTypes DEF Emit
  <2>2. \A i \in DOMAIN run'[r].out : \E k \in DOMAIN run[r].out : run'[r].out[i] = run[r].out[k]
    <3>1. CASE run'[r].out = run[r].out
      BY <3>1
    <3>2. CASE run'[r].out = Tail(run[r].out)
      <4>1. run[r].out # <<>>
        BY <1>6 DEF Emit
      <4>2. \A i \in DOMAIN Tail(run[r].out) :
              i + 1 \in DOMAIN run[r].out /\ Tail(run[r].out)[i] = run[r].out[i + 1]
        BY <1>1, <4>1
      <4>3. QED BY <3>2, <4>2
    <3>3. QED BY <2>1, <3>1, <3>2
  <2>3. run'[r].pc = "close" => HasTimestamp'
    <3>1. SUFFICES ASSUME run'[r].pc = "close" PROVE HasTimestamp'
      OBVIOUS
    <3>2. AppendEvent(run[r].out[1]) /\ run[r].out[1].kind = "tsa.confirmed"
      BY <2>1, <3>1
    <3>3. ledger' = Append(ledger, run[r].out[1]) /\ ledger \in Seq(Evidence)
      BY <1>1, <2>1, <3>2, AppendFacts DEF TypeInv, Types, EvidenceKinds, Ignored
    <3>4. Len(ledger) + 1 \in DOMAIN ledger' /\ ledger'[Len(ledger) + 1] = run[r].out[1]
      BY <3>3
    <3>5. QED BY <3>2, <3>4 DEF HasTimestamp
  <2>4. QED BY <1>1, <1>2, <2>1, <2>2, <2>3 DEF RunIsFounded
<1>7. CASE CloseAfterTsa(r)
  <2>1. run'[r].out = run[r].out /\ run'[r].pc = "emit" /\ run[r].pc = "close"
    BY <1>1, <1>7 DEF CloseAfterTsa, RunStates
  <2>2. QED BY <1>1, <1>2, <2>1 DEF RunIsFounded
<1>8. CASE SubmitAnchor(r)
  <2>1. PICK n \in Networks, w \in Witnesses :
          /\ run[r].job[2] = w
          /\ run'[r].out = <<Submitted(n, w)>> /\ run'[r].pc = "emit"
    BY <1>1, <1>8, SubmitAnchorTypes
  <2>2. TimestampOf(w)
    BY <1>1, <1>8, <2>1 DEF RunIsFounded, SubmitAnchor
  <2>3. Founded(Submitted(n, w)) /\ Submitted(n, w).kind = "anchor.submitted"
    BY <2>2 DEF Founded, Submitted
  <2>4. \A i \in DOMAIN run'[r].out : run'[r].out[i] = Submitted(n, w)
    BY <2>1
  <2>5. QED BY <1>2, <2>1, <2>3, <2>4 DEF RunIsFounded
<1>9. CASE BuildArtifact(r)
  <2>1. /\ file' # None /\ run'[r].pc = "emit" /\ run[r].out # <<>>
        /\ run'[r].out \in {run[r].out, Tail(run[r].out)}
    BY <1>1, <1>9, BuildArtifactTypes DEF TypeInv, RunsHaveJobs
  <2>2. \A i \in DOMAIN run'[r].out : \E k \in DOMAIN run[r].out : run'[r].out[i] = run[r].out[k]
    <3>1. \A i \in DOMAIN Tail(run[r].out) :
            i + 1 \in DOMAIN run[r].out /\ Tail(run[r].out)[i] = run[r].out[i + 1]
      BY <1>1, <2>1
    <3>2. QED BY <2>1, <3>1
  <2>3. QED BY <1>1, <1>2, <2>1, <2>2 DEF RunIsFounded
<1>10. CASE StepFails(r)
  <2>1. run'[r].out = run[r].out /\ run'[r].pc = "failed"
    BY <1>1, <1>10 DEF StepFails, RunStates
  <2>2. QED BY <1>1, <1>2, <2>1 DEF RunIsFounded
<1>11. QED BY <1>1, <1>3, <1>4, <1>5, <1>6, <1>7, <1>8, <1>9, <1>10, RunSteps
-----------------------------------------------------------------------------
(* Closures, anchors and the artifact.                                     *)

LEMMA TriggerSteps ==
  ASSUME TypeInv, TriggerFinalization, NEW c \in Closers
  PROVE  \/ closer'[c] = closer[c]
         \/ closer'[c].pc = "read" /\ closer'[c].seen = Len(ledger)
<1>1. CASE UNCHANGED closer
  BY <1>1
<1>2. ASSUME NEW d \in Closers,
             closer' = [closer EXCEPT ![d] =
                          [pc |-> "read", seen |-> Len(ledger), witness |-> witness]]
      PROVE  \/ closer'[c] = closer[c]
             \/ closer'[c].pc = "read" /\ closer'[c].seen = Len(ledger)
  BY <1>2 DEF TypeInv, Types
<1>3. QED BY <1>1, <1>2 DEF TriggerFinalization

\* A closure begins behind a timestamp, and goes on from what it has read.
LEMMA CloserSteps ==
  ASSUME TypeInv, [Next]_vars, NEW c \in Closers
  PROVE  \/ closer'[c] = closer[c]
         \/ closer'[c] = NoCloser
         \/ /\ closer'[c].pc = "read" /\ closer'[c].seen = Len(ledger)
            /\ \/ \E r \in Runs : run[r].pc = "close"
               \/ outcome # {}
         \/ /\ closer[c].pc # "idle" /\ closer'[c].seen = closer[c].seen
            /\ closer'[c].pc \in {"verify", "publish"} =>
                 closer[c].pc \in {"verify", "publish"} \/ file' # None
<1> DEFINE Goal ==
      \/ closer'[c] = closer[c]
      \/ closer'[c] = NoCloser
      \/ /\ closer'[c].pc = "read" /\ closer'[c].seen = Len(ledger)
         /\ \/ \E r \in Runs : run[r].pc = "close"
            \/ outcome # {}
      \/ /\ closer[c].pc # "idle" /\ closer'[c].seen = closer[c].seen
         /\ closer'[c].pc \in {"verify", "publish"} =>
              closer[c].pc \in {"verify", "publish"} \/ file' # None
<1>1. closer \in [Closers -> CloserStates] /\ closer[c] \in CloserStates
  BY DEF TypeInv, Types
<1>2. ASSUME NEW r \in Runs, CloseAfterTsa(r) PROVE Goal
  BY <1>2, TriggerSteps DEF CloseAfterTsa
<1>3. ASSUME NEW n \in Networks, NEW w \in Witnesses, CloseAfterAnchor(n, w) PROVE Goal
  BY <1>3, TriggerSteps DEF CloseAfterAnchor
<1>4. ASSUME NEW d \in Closers, Close(d) \/ CloserCrash(d) PROVE Goal
  <2>1. CASE d # c
    BY <1>1, <1>4, <2>1 DEF Close, StartClosing, UploadEco, VerifyUpload, PublishClosure,
       CloserCrash
  <2>2. CASE d = c
    <3>1. CASE closer' = [closer EXCEPT ![c] = NoCloser]
      BY <1>1, <3>1
    <3>2. CASE StartClosing(c) /\ closer' = [closer EXCEPT ![c].pc = "upload"]
      BY <1>1, <3>2 DEF CloserStates, StartClosing
    <3>3. CASE UploadEco(c)
      <4>1. closer[c].seen \in Nat
        BY <1>1 DEF CloserStates
      <4>2. file' # None
        BY <3>3, <4>1, PipelineAssumption DEF UploadEco, Copy
      <4>3. QED BY <1>1, <3>3, <4>2 DEF CloserStates, UploadEco
    <3>4. CASE VerifyUpload(c) /\ closer' = [closer EXCEPT ![c].pc = "publish"]
      BY <1>1, <3>4 DEF CloserStates, VerifyUpload
    <3>5. VerifyUpload(c) => \/ closer' = [closer EXCEPT ![c] = NoCloser]
                             \/ closer' = [closer EXCEPT ![c].pc = "publish"]
      BY <1>1 DEF VerifyUpload
    <3>6. QED BY <1>4, <2>2, <3>1, <3>2, <3>3, <3>4, <3>5
          DEF Close, StartClosing, PublishClosure, CloserCrash
  <2>3. QED BY <2>1, <2>2
<1>5. closer' = closer => Goal
  OBVIOUS
<1>6. QED BY <1>2, <1>3, <1>4, <1>5 DEF Next, vars, CheckRequest, RequestProtection, Sign,
     RequestForSigner, RequestFinal, Work, Emit, SubmitAnchor, BuildArtifact, Succeed, Fail,
     Settle, Claim, Crash, StepFails, TimeOut, Reclaim, ConfirmAnchor, AnchorFails

LEMMA ClosersStayFounded ==
  ASSUME PipelineInv, [Next]_vars, NEW c \in Closers PROVE CloserIsFounded(c)'
<1>1. /\ TypeInv /\ CloserIsFounded(c) /\ closer[c].seen \in Nat
      /\ Len(ledger) \in Nat /\ ledger \in Seq(Evidence)
  BY DEF PipelineInv, TypeInv, Types, CloserStates
<1>2. /\ \A n \in Nat : TimestampBy(n) => TimestampBy(n)'
      /\ file # None => file' # None
  BY <1>1, FoundationsStay, FileStays
<1>3. CASE closer'[c] = closer[c]
  BY <1>1, <1>2, <1>3 DEF CloserIsFounded
<1>4. CASE closer'[c] = NoCloser
  BY <1>4 DEF CloserIsFounded, NoCloser
<1>5. CASE /\ closer'[c].pc = "read" /\ closer'[c].seen = Len(ledger)
           /\ (\E r \in Runs : run[r].pc = "close") \/ outcome # {}
  <2>1. HasTimestamp
    BY <1>5 DEF PipelineInv, RunIsFounded, AnchorsAreFounded, TimestampOf, HasTimestamp
  <2>2. TimestampBy(Len(ledger))
    BY <1>1, <2>1 DEF HasTimestamp, TimestampBy
  <2>3. QED BY <1>1, <1>2, <1>5, <2>2 DEF CloserIsFounded
<1>6. CASE /\ closer[c].pc # "idle" /\ closer'[c].seen = closer[c].seen
           /\ closer'[c].pc \in {"verify", "publish"} =>
                closer[c].pc \in {"verify", "publish"} \/ file' # None
  BY <1>1, <1>2, <1>6 DEF CloserIsFounded
<1>7. QED BY <1>1, <1>3, <1>4, <1>5, <1>6, CloserSteps

LEMMA AnchorsStayFounded ==
  ASSUME PipelineInv, [Next]_vars PROVE AnchorsAreFounded'
<1>1. /\ TypeInv /\ AnchorsAreFounded
      /\ anchor \in [Networks \X Witnesses -> {"none", "pending", "confirmed", "failed"}]
      /\ outcome \subseteq Networks \X Witnesses
  BY DEF PipelineInv, TypeInv, Types
<1>2. \A w : TimestampOf(w) => TimestampOf(w)'
  BY <1>1, FoundationsStay
<1>3. CASE anchor' = anchor /\ outcome' \subseteq outcome
  BY <1>1, <1>2, <1>3 DEF AnchorsAreFounded
<1>4. ASSUME NEW r \in Runs, SubmitAnchor(r) PROVE AnchorsAreFounded'
  <2>1. PICK w \in Witnesses :
          /\ run[r].job[2] = w
          /\ \A m \in Networks, v \in Witnesses :
               anchor'[<<m, v>>] # "none" => anchor[<<m, v>>] # "none" \/ v = w
    BY <1>1, <1>4, SubmitAnchorTypes
  <2>2. TimestampOf(w)
    BY <1>4, <2>1 DEF PipelineInv, RunIsFounded, SubmitAnchor
  <2>3. outcome' = outcome
    BY <1>4 DEF SubmitAnchor
  <2>4. QED BY <1>1, <1>2, <2>1, <2>2, <2>3 DEF AnchorsAreFounded
<1>5. ASSUME NEW n \in Networks, NEW w \in Witnesses, ConfirmAnchor(n, w) \/ AnchorFails(n, w)
      PROVE  AnchorsAreFounded'
  <2>1. /\ <<n, w>> \in Networks \X Witnesses /\ anchor[<<n, w>>] = "pending"
        /\ \E s \in {"confirmed", "failed"} : anchor' = [anchor EXCEPT ![<<n, w>>] = s]
        /\ outcome' \subseteq outcome \cup {<<n, w>>}
    BY <1>5 DEF ConfirmAnchor, AnchorFails, A!Confirm, A!Fail
  <2>2. TimestampOf(w)
    BY <1>1, <2>1 DEF AnchorsAreFounded
  <2>3. \A m \in Networks, v \in Witnesses :
          anchor'[<<m, v>>] # "none" => anchor[<<m, v>>] # "none"
    BY <1>1, <2>1
  <2>4. \A a \in outcome' : a \in outcome \/ a[2] = w
    BY <2>1
  <2>5. QED BY <1>1, <1>2, <2>2, <2>3, <2>4 DEF AnchorsAreFounded
<1>6. QED BY <1>3, <1>4, <1>5 DEF Next, vars, anchors, CheckRequest, RequestProtection, Sign,
     RequestForSigner, RequestFinal, Work, Emit, CloseAfterTsa, BuildArtifact, Succeed, Fail,
     Settle, Claim, Crash, StepFails, TimeOut, Reclaim, Close, StartClosing, UploadEco,
     VerifyUpload, PublishClosure, CloserCrash, CloseAfterAnchor

\* An event is founded when it is appended: whoever appends it kept to the order.
LEMMA SourcesAreFounded ==
  ASSUME PipelineInv, NEW e \in AllEvents, Source(e)
  PROVE  Founded(e) /\ (e.kind = "artifact.finalized" => file # None)
<1>1. CASE e.kind \in {"document.protected.requested", "rekor.confirmed", "anchor.confirmed"}
  BY <1>1 DEF Founded
<1>2. ASSUME NEW r \in Runs, run[r].pc = "emit", 1 \in DOMAIN run[r].out, e = run[r].out[1]
      PROVE  Founded(e) /\ (e.kind = "artifact.finalized" => file # None)
  BY <1>2 DEF PipelineInv, RunIsFounded
<1>3. ASSUME e.kind = "artifact.finalized", NEW c \in Closers, closer[c].pc = "publish"
      PROVE  Founded(e) /\ (e.kind = "artifact.finalized" => file # None)
  BY <1>3 DEF PipelineInv, CloserIsFounded, Founded
<1>4. QED BY <1>1, <1>2, <1>3 DEF Source

LEMMA EventsStayFounded ==
  ASSUME PipelineInv, [Next]_vars
  PROVE  /\ EventsAreFounded'
         /\ \A i \in DOMAIN ledger' : ledger'[i].kind = "artifact.finalized" => file' # None
<1>1. /\ TypeInv /\ EventsAreFounded /\ ledger \in Seq(Evidence)
      /\ \A i \in DOMAIN ledger : ledger[i].kind = "artifact.finalized" => file # None
  BY DEF PipelineInv, TypeInv, Types, ArtifactIsFounded
<1>2. (\A e : Founded(e) => Founded(e)') /\ (file # None => file' # None)
  BY <1>1, FoundationsStay, FileStays
<1>3. CASE UNCHANGED <<ledger, tracked>>
  BY <1>1, <1>2, <1>3 DEF EventsAreFounded
<1>4. ASSUME NEW e \in AllEvents, AppendEvent(e), Source(e)
      PROVE  /\ EventsAreFounded'
             /\ \A i \in DOMAIN ledger' :
                  ledger'[i].kind = "artifact.finalized" => file' # None
  <2>1. Founded(e)' /\ (e.kind = "artifact.finalized" => file' # None)
    BY <1>2, <1>4, SourcesAreFounded
  <2>2. /\ ledger' = ledger \/ ledger' = Append(ledger, e)
        /\ tracked' \subseteq tracked \cup {e}
    BY <1>1, <1>4, AppendFacts DEF TypeInv
  <2>3. \A i \in DOMAIN ledger' :
          ledger'[i] = e \/ (i \in DOMAIN ledger /\ ledger'[i] = ledger[i])
    BY <1>1, <2>2
  <2>4. \A f : (\E i \in DOMAIN ledger' : f = ledger'[i]) =>
                 Founded(f)' /\ (f.kind = "artifact.finalized" => file' # None)
    BY <1>1, <1>2, <2>1, <2>3 DEF EventsAreFounded
  <2>5. \A f \in tracked' : Founded(f)'
    BY <1>1, <1>2, <2>1, <2>2 DEF EventsAreFounded
  <2>6. QED BY <2>4, <2>5 DEF EventsAreFounded
<1>5. QED BY <1>1, <1>3, <1>4, LedgerSteps

LEMMA ArtifactStaysFounded ==
  ASSUME PipelineInv, [Next]_vars PROVE ArtifactIsFounded'
<1>1. TypeInv /\ ArtifactIsFounded /\ ArtifactJob \in Jobs /\ phase \in [Jobs -> Q!Phases]
  BY DEF PipelineInv, TypeInv, Types, Jobs
<1>2. (HasTimestamp => HasTimestamp') /\ (\A n \in Nat : TimestampBy(n) => TimestampBy(n)')
  BY <1>1, FoundationsStay
<1>3. phase'[ArtifactJob] # "absent" => HasTimestamp'
  <2>1. CASE phase'[ArtifactJob] # "absent" => phase[ArtifactJob] # "absent"
    BY <1>1, <1>2, <2>1 DEF ArtifactIsFounded
  <2>2. ASSUME NEW e \in AllEvents, AppendEvent(e), Source(e)
        PROVE  phase'[ArtifactJob] # "absent" => HasTimestamp'
    <3>1. e.kind = "job.required" /\ e.type = "build_artifact" => HasTimestamp
      BY <2>2, SourcesAreFounded DEF Founded
    <3>2. \/ phase' = phase
          \/ \E j \in Jobs : /\ phase' = [phase EXCEPT ![j] = "todo"]
                             /\ j = ArtifactJob =>
                                  e.kind = "job.required" /\ e.type = "build_artifact"
      BY <1>1, <2>2, AppendPhase DEF TypeInv
    <3>3. QED BY <1>1, <1>2, <3>1, <3>2 DEF ArtifactIsFounded
  <2>3. QED BY <1>1, <2>1, <2>2, LedgerSteps
<1>4. file' # None => TimestampBy(file.seen)' 
  <2>1. CASE file' = file
    <3>1. file # None => file.seen \in Nat
      BY <1>1 DEF TypeInv, Types, Copies
    <3>2. QED BY <1>1, <1>2, <2>1, <3>1 DEF ArtifactIsFounded
  <2>2. ASSUME NEW r \in Runs, BuildArtifact(r) PROVE TimestampBy(file.seen)'
    <3>1. run[r].seen \in Nat /\ TimestampBy(run[r].seen) /\ file'.seen = run[r].seen
      BY <1>1, <2>2 DEF PipelineInv, TypeInv, Types, RunStates, RunIsFounded, BuildArtifact
    <3>2. QED BY <1>2, <3>1
  <2>3. ASSUME NEW c \in Closers, UploadEco(c) PROVE TimestampBy(file.seen)'
    <3>1. /\ closer[c].seen \in Nat /\ TimestampBy(closer[c].seen)
          /\ file'.seen = closer[c].seen
      BY <1>1, <2>3 DEF PipelineInv, TypeInv, Types, CloserStates, CloserIsFounded,
         UploadEco, Copy
    <3>2. QED BY <1>2, <3>1
  <2>4. QED BY <2>1, <2>2, <2>3 DEF Next, vars, CheckRequest, RequestProtection, Sign,
       RequestForSigner, RequestFinal, Work, Emit, CloseAfterTsa, SubmitAnchor, Succeed,
       Fail, Settle, Claim, Crash, StepFails, TimeOut, Reclaim, Close, StartClosing,
       VerifyUpload, PublishClosure, CloserCrash, ConfirmAnchor, AnchorFails, CloseAfterAnchor
<1>5. QED BY <1>3, <1>4, EventsStayFounded DEF ArtifactIsFounded

\* The append itself refuses a timestamp no one has asked for.
LEMMA RequestStaysFirst ==
  ASSUME TypeInv, RequestedFirst, [Next]_vars PROVE RequestedFirst'
<1>1. /\ ledger \in Seq(Evidence)
      /\ \A i \in DOMAIN ledger : i \in DOMAIN ledger' /\ ledger'[i] = ledger[i]
  BY LedgerGrows
<1>2. Has(ledger, "document.protected.requested") => Has(ledger', "document.protected.requested")
  BY <1>1 DEF Has
<1>3. CASE ledger' = ledger
  BY <1>3 DEF RequestedFirst, HasTimestamp
<1>4. ASSUME NEW e \in Evidence, ~Rejected(e), ledger' = Append(ledger, e)
      PROVE  RequestedFirst'
  <2>1. e.kind = "tsa.confirmed" => Has(ledger, "document.protected.requested")
    BY <1>4 DEF Rejected
  <2>2. HasTimestamp' => HasTimestamp \/ e.kind = "tsa.confirmed"
    BY <1>1, <1>4 DEF HasTimestamp
  <2>3. QED BY <1>2, <2>1, <2>2 DEF RequestedFirst
<1>5. QED BY <1>3, <1>4, LedgerGrows

LEMMA PipelineInvInit == Init => PipelineInv
<1> SUFFICES ASSUME Init PROVE PipelineInv
  OBVIOUS
<1>1. TypeInv /\ ledger = <<>>
  BY InitTypes DEF Init
<1>2. RequestedFirst /\ EventsAreFounded
  BY DEF Init, RequestedFirst, HasTimestamp, EventsAreFounded
<1>3. (\A r \in Runs : RunIsFounded(r)) /\ (\A c \in Closers : CloserIsFounded(c))
  BY DEF Init, RunIsFounded, CloserIsFounded, NoRun, NoCloser
<1>4. AnchorsAreFounded
  BY DEF Init, A!Init, AnchorsAreFounded
<1>5. ArtifactIsFounded
  BY DEF Init, Q!Init, ArtifactIsFounded, Jobs
<1>6. QED BY <1>1, <1>2, <1>3, <1>4, <1>5 DEF PipelineInv

LEMMA PipelineInvKept == PipelineInv /\ [Next]_vars => PipelineInv'
<1> SUFFICES ASSUME PipelineInv, [Next]_vars PROVE PipelineInv'
  OBVIOUS
<1>1. TypeInv' /\ RequestedFirst'
  BY TypesKept, RequestStaysFirst DEF PipelineInv
<1>2. (\A r \in Runs : RunIsFounded(r)') /\ (\A c \in Closers : CloserIsFounded(c)')
  BY RunsStayFounded, ClosersStayFounded
<1>3. QED BY <1>1, <1>2, EventsStayFounded, AnchorsStayFounded, ArtifactStaysFounded
      DEF PipelineInv

\* However invocations overlap, fail and are repeated, the proof grows in its order: a
\* timestamp follows a request, a certification follows a timestamp, and no chain is given
\* a witness whose own timestamp is not on record.
THEOREM EvidenceStaysInOrder == Spec => []EvidenceInOrder
<1>1. PipelineInv => EvidenceInOrder
  <2> SUFFICES ASSUME PipelineInv PROVE EvidenceInOrder
    OBVIOUS
  <2>1. Has(ledger, "tsa.confirmed") => Has(ledger, "document.protected.requested")
    BY HasTimestampIsHas DEF PipelineInv, RequestedFirst
  <2>2. Has(ledger, "document.certified") => Has(ledger, "tsa.confirmed")
    BY HasTimestampIsHas DEF PipelineInv, EventsAreFounded, Founded, Has
  <2>3. ASSUME NEW n \in Networks, NEW w \in Witnesses,
               anchor[<<n, w>>] # "none" \/ Submitted(n, w) \in tracked
        PROVE  Contains(ledger, Timestamped(w))
    <3>1. TimestampOf(w)
      BY <2>3 DEF PipelineInv, AnchorsAreFounded, EventsAreFounded, Founded, Submitted
    <3>2. QED BY <3>1, ContainsTimestamp DEF PipelineInv, TypeInv
  <2>4. QED BY <2>1, <2>2, <2>3 DEF EvidenceInOrder
<1>2. QED BY <1>1, PipelineInvInit, PipelineInvKept, PTL DEF Spec

\* Whichever copy won the race for the artifact's path, a closed document has an ECO in
\* storage that was made from a ledger with a timestamp in it.
THEOREM StoredEcosAreTimestamped == Spec => []StoredEcoIsTimestamped
<1>1. PipelineInv => StoredEcoIsTimestamped
  <2> SUFFICES ASSUME PipelineInv PROVE StoredEcoIsTimestamped
    OBVIOUS
  <2>1. Has(ledger, "artifact.finalized") => file # None
    BY DEF PipelineInv, ArtifactIsFounded, Has
  <2>2. ASSUME file # None PROVE Has(Snapshot(file.seen), "tsa.confirmed")
    <3>1. file.seen \in Nat /\ ledger \in Seq(Evidence) /\ file.seen <= Len(ledger)
      BY <2>2 DEF PipelineInv, TypeInv, Types, Copies, ArtifactIsFounded, TimestampBy
    <3>2. PICK i \in 1 .. file.seen : ledger[i].kind = "tsa.confirmed"
      BY <2>2 DEF PipelineInv, ArtifactIsFounded, TimestampBy
    <3>3. i \in DOMAIN Snapshot(file.seen) /\ Snapshot(file.seen)[i] = ledger[i]
      BY <3>1 DEF Snapshot
    <3>4. QED BY <3>2, <3>3 DEF Has
  <2>3. QED BY <2>1, <2>2 DEF StoredEcoIsTimestamped
<1>2. QED BY <1>1, PipelineInvInit, PipelineInvKept, PTL DEF Spec
=============================================================================
