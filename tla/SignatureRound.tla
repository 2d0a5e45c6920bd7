--------------------------- MODULE SignatureRound ---------------------------
(***************************************************************************)
(* What a signature workflow promises: each signer signs at most once, in  *)
(* a sequential workflow after all before him; it ends once, and it is     *)
(* completed only when everybody has signed whose link is alive, unless    *)
(* somebody has miscounted who is left.  Without that, nobody signs after  *)
(* completion but one whose link lapsed while his signature was under way; *)
(* after a refusal, a cancellation or a completion by mistake a signature   *)
(* under way may still arrive, in no order that is promised.               *)
(***************************************************************************)
EXTENDS Naturals

CONSTANT Signers  \* numbers: the order of signing

VARIABLES
  sequential,
  signed,
  excused,     \* signers whose link is no longer alive
  miscounted,  \* a count of those who are left has failed
  outcome

vars == <<sequential, signed, excused, miscounted, outcome>>

Init ==
  /\ sequential \in BOOLEAN /\ signed = {} /\ excused = {}
  /\ miscounted = FALSE /\ outcome = "active"

InTurn(s) == \A r \in Signers : r < s => r \in signed \cup excused

Sign(s) ==
  /\ s \in Signers \ signed
  /\ sequential => \/ InTurn(s) \/ outcome \in {"rejected", "cancelled"}
                   \/ outcome = "completed" /\ miscounted
  /\ signed' = signed \cup {s}
  /\ UNCHANGED <<sequential, excused, miscounted, outcome>>

Excuse(S) ==
  /\ excused' = excused \cup S
  /\ UNCHANGED <<sequential, signed, miscounted, outcome>>

Miscount ==
  /\ miscounted' = TRUE
  /\ UNCHANGED <<sequential, signed, excused, outcome>>

End(o) ==
  /\ outcome = "active" /\ outcome' = o
  /\ o = "completed" => miscounted \/ signed \cup excused = Signers
  /\ UNCHANGED <<sequential, signed, excused, miscounted>>

Next ==
  \/ \E s \in Signers : Sign(s)
  \/ \E S \in SUBSET Signers : Excuse(S)
  \/ Miscount
  \/ \E o \in {"completed", "rejected", "cancelled"} : End(o)

Spec == Init /\ [][Next]_vars
=============================================================================
