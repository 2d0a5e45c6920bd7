------------------------ MODULE MCProtectionPipeline ------------------------
(* Instances of ProtectionPipeline for TLC.                                *)
EXTENDS ProtectionPipeline

CONSTANTS c1, c2, r1, r2, f1, f2

NoNetworks == {}
Bitcoin == {"bitcoin"}
TwoNetworks == {"polygon", "bitcoin"}

\* Invocations are interchangeable.
Invocations == Permutations({r1, r2}) \cup Permutations({f1, f2}) \cup Permutations({c1, c2})
=============================================================================
