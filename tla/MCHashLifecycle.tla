--------------------------- MODULE MCHashLifecycle --------------------------
(* HashLifecycle for TLC. *)
EXTENDS HashLifecycle

CONSTANTS w1, w2, s1, s2, s3

Workers2 == {w1, w2}
Subs3 == {s1, s2, s3}
NoFaults == {}
StartFault == {"digest_create"}
AllFaults == FaultKinds
AllHashFaults == Resources \cup {"config", "digest_init", "submission",
                                "outer_update"}
ThreadFault == {"pthread_create"}
=============================================================================
