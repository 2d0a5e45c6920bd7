-------------------------- MODULE MCAnchorWorker ----------------------------
(* Instances of AnchorWorker for TLC.                                      *)
EXTENDS AnchorWorker, TLC

CONSTANTS s1, s2, w1, w2

\* Calls and invocations are interchangeable.
Invocations == Permutations({s1, s2}) \cup Permutations({w1, w2})
=============================================================================
