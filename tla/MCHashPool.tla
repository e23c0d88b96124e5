----------------------------- MODULE MCHashPool -----------------------------
(* HashPool for TLC. *)
EXTENDS HashPool

CONSTANTS w1, w2, s1, s2, s3, s4

Workers2 == {w1, w2}
Subs4 == {s1, s2, s3, s4}
AllFaults == FaultKinds
=============================================================================
