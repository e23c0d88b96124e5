------------------------------ MODULE MCBlkHash -----------------------------
(* BlkHash for TLC. *)
EXTENDS BlkHash

Bytes == {0, 1}
NoFaults == {}
AllFaults == {"malloc", "pool", "block", "outer"}
BlockFault == {"block"}
=============================================================================
