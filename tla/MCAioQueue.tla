----------------------------- MODULE MCAioQueue -----------------------------
(* AioQueue for TLC. *)
EXTENDS AioQueue

CONSTANTS u1, u2, u3, s1, s2

Updates2 == {u1, u2}
Updates3 == {u1, u2, u3}
Slots2 == {s1, s2}
NoFaults == {}
AllFaults == {"malloc", "pool", "block", "event"}
PoolFault == {"pool"}
=============================================================================
