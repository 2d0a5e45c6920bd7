------------------------- MODULE MCSigningWorkflow -------------------------
(* Instances of SigningWorkflow for TLC.                                   *)
EXTENDS SigningWorkflow, TLC

CONSTANTS t1, t2, t3

OneTabEach == (t1 :> 1) @@ (t2 :> 2)
SecondTab == (t1 :> 1) @@ (t2 :> 1) @@ (t3 :> 2)
=============================================================================
