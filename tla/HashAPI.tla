------------------------------- MODULE HashAPI ------------------------------
(***************************************************************************)
(* What include/blkhash.h promises of one hash: bytes are added in the     *)
(* order of the calls, whatever the calls, and a hash that did not fail    *)
(* is finalized once with the digest of all the bytes.  After the first    *)
(* error no digest is ever returned.                                       *)
(***************************************************************************)
EXTENDS Construction

CONSTANTS Byte, NoDigest

VARIABLES
    message,    \* the bytes added so far
    failed,     \* an error was recorded
    digest      \* the digest returned to the caller

vars == <<message, failed, digest>>

Init ==
    /\ message = <<>>
    /\ failed = FALSE
    /\ digest = NoDigest

\* A call that is accepted extends the message with its bytes.
Extend ==
    /\ ~failed
    /\ digest = NoDigest
    /\ Len(message') >= Len(message)
    /\ SubSeq(message', 1, Len(message)) = message
    /\ UNCHANGED <<failed, digest>>

Fail ==
    /\ digest = NoDigest
    /\ failed' = TRUE
    /\ UNCHANGED <<message, digest>>

Finalize ==
    /\ ~failed
    /\ digest = NoDigest
    /\ digest' = Digest(message)
    /\ UNCHANGED <<message, failed>>

Next == Extend \/ Fail \/ Finalize

Spec == Init /\ [][Next]_vars
=============================================================================
