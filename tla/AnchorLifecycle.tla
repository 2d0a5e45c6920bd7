-------------------------- MODULE AnchorLifecycle --------------------------
(***************************************************************************)
(* What a user of the anchors table may rely on, without transactions,     *)
(* attempts or workers: an anchor is submitted, and then confirmed or      *)
(* failed.  Only a failed anchor is submitted again.                       *)
(***************************************************************************)
CONSTANT Anchors      \* the keys (document_hash, anchor_type)
VARIABLE state        \* state[a]: how far the anchor is

States == {"none", "pending", "confirmed", "failed"}

Init == state = [a \in Anchors |-> "none"]

Submit(a) == /\ state[a] \in {"none", "failed"}
             /\ state' = [state EXCEPT ![a] = "pending"]

Confirm(a) == /\ state[a] = "pending"
              /\ state' = [state EXCEPT ![a] = "confirmed"]

Fail(a) == /\ state[a] = "pending"
           /\ state' = [state EXCEPT ![a] = "failed"]

Next == \E a \in Anchors : Submit(a) \/ Confirm(a) \/ Fail(a)

Spec == Init /\ [][Next]_state
=============================================================================
