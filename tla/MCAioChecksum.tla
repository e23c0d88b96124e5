---------------------------- MODULE MCAioChecksum ---------------------------
(* AioChecksum for TLC. *)
EXTENDS AioChecksum

AllFaults == {"open", "read", "truncate", "poll", "update", "zero", "final", "pool"}
=============================================================================
