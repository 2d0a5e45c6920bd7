---------------------------- MODULE MCJobQueue ------------------------------
(* Instances of JobQueue for TLC: which types the keys have, and which     *)
(* invocations share an isolate.                                           *)
EXTENDS JobQueue, TLC

CONSTANTS e1, o1, o2, w1, w2, w3, d, p

\* A decision job and an anchor job, whose errors may be terminal.
DecisionAndAnchor == (d :> "protect_document_v2") @@ (p :> "submit_anchor_polygon")

\* The orchestrator runs in two isolates, or twice in one.
OneOrTwoIsolates == {(e1 :> w1) @@ (o1 :> w2) @@ (o2 :> w) : w \in {w2, w3}}
=============================================================================
