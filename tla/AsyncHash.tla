------------------------------ MODULE AsyncHash -----------------------------
(***************************************************************************)
(* What the async API of blkhash promises to an application                *)
(* (include/blkhash.h): an update that was accepted is completed once, in  *)
(* any order; the completion carries an error if a part of the update      *)
(* failed; the completion fd becomes readable when there are completions,  *)
(* and the application reads it before it reaps.  Once the hash failed it  *)
(* accepts nothing.                                                        *)
(*                                                                         *)
(* AioQueue implements this module, and AioChecksum is an application that *)
(* is built on it.                                                         *)
(***************************************************************************)
EXTENDS Integers, Sequences, FiniteSets

CONSTANTS
    Updates,     \* the requests of the application, by user_data
    QueueDepth   \* updates that may be started and not reaped

VARIABLES
    updating,    \* updates that were accepted and are not completed
    bad,         \* those of them that failed
    cq,          \* completions that were not reaped
    signals,     \* threads about to signal the completion fd
    event,       \* the completion fd is readable
    herror       \* the hash failed

vars == <<updating, bad, cq, signals, event, herror>>

Init ==
    /\ updating = {} /\ bad = {}
    /\ cq = <<>>
    /\ signals = 0
    /\ event = FALSE
    /\ herror = FALSE

DepthReached == Cardinality(updating) + Len(cq) >= QueueDepth

Start(u) ==
    /\ ~herror /\ ~DepthReached
    /\ u \notin updating /\ \A i \in DOMAIN cq : cq[i].user_data # u
    /\ updating' = updating \cup {u}
    /\ UNCHANGED <<bad, cq, signals, event, herror>>

\* A part of an update fails: in a worker, or in the call that starts the
\* update, which then fails the hash as well.
UpdateFails(u, call) ==
    /\ u \in updating
    /\ bad' = bad \cup {u}
    /\ herror' = (herror \/ call)
    /\ UNCHANGED <<updating, cq, signals, event>>

\* A call fails without an update, or a failed submission is collected.
CallFails ==
    /\ herror' = TRUE
    /\ UNCHANGED <<updating, bad, cq, signals, event>>

\* Whoever queues the first completion is going to signal.
Done(u) ==
    /\ u \in updating
    /\ updating' = updating \ {u} /\ bad' = bad \ {u}
    /\ cq' = Append(cq, [user_data |-> u, error |-> u \in bad])
    /\ signals' = IF cq = <<>> THEN signals + 1 ELSE signals
    /\ UNCHANGED <<event, herror>>

Signal ==
    /\ signals > 0
    /\ signals' = signals - 1
    /\ event' = TRUE
    /\ UNCHANGED <<updating, bad, cq, herror>>

\* The completion fd cannot be signalled; the hash is failed a step later.
SignalLost ==
    /\ signals > 0
    /\ signals' = signals - 1
    /\ UNCHANGED <<updating, bad, cq, event, herror>>

Read ==
    /\ event
    /\ event' = FALSE
    /\ UNCHANGED <<updating, bad, cq, signals, herror>>

\* The first n completions are reaped, which signals again for the rest.
Reap(n) ==
    /\ ~herror
    /\ n \in 0..Len(cq)
    /\ cq' = SubSeq(cq, n + 1, Len(cq))
    /\ signals' = IF n \in 1..Len(cq) - 1 THEN signals + 1 ELSE signals
    /\ UNCHANGED <<updating, bad, event, herror>>

Next ==
    \/ \E u \in Updates : Start(u)
    \/ \E u \in Updates, call \in BOOLEAN : UpdateFails(u, call)
    \/ CallFails
    \/ \E u \in Updates : Done(u)
    \/ Signal
    \/ SignalLost
    \/ Read
    \/ \E n \in 0..Len(cq) : Reap(n)

Spec == Init /\ [][Next]_vars
=============================================================================
