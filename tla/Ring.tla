-------------------------------- MODULE Ring --------------------------------
(***************************************************************************)
(* The ring buffer of lib/submission.c (struct submission_queue).  The     *)
(* queue of lib/hash-pool.c is the same ring without the checks for full   *)
(* and empty (push_unlocked, pop_unlocked).                                *)
(***************************************************************************)
EXTENDS Naturals, Sequences

\* submission_queue_init(); what the array holds is not initialized.
RingInit(size, any) ==
    [ring |-> [i \in 0..size - 1 |-> any], size |-> size, len |-> 0,
     head |-> 0, tail |-> 0]

\* submission_queue_full(), submission_queue_first()
RingFull(r) == r.len = r.size

RingFirst(r) == r.ring[r.head]

RingNext_Stays(r, i) == i \* wrong: the index is not moved

RingNext(r, i) == (i + 1) % r.size

\* submission_queue_push(), which returns ENOBUFS when the ring is full
RingPush(r, x) ==
    IF RingFull(r) THEN r
    ELSE [r EXCEPT !.ring[r.tail] = x, !.tail = RingNext(r, r.tail), !.len = @ + 1]

\* submission_queue_pop(), which returns ENOENT when it is empty
RingPop(r) ==
    IF r.len = 0 THEN r
    ELSE [r EXCEPT !.head = RingNext(r, r.head), !.len = @ - 1]

\* The rings that RingInit(), RingPush() and RingPop() make.
WellFormed(r, S) ==
    /\ r.size \in Nat \ {0}
    /\ r \in [ring : [0..r.size - 1 -> S], size : Nat, len : 0..r.size,
              head : 0..r.size - 1, tail : 0..r.size - 1]
    /\ r.tail = (r.head + r.len) % r.size

\* What the ring stands for: its entries, the oldest first.
Contents(r) == [i \in 1..r.len |-> r.ring[(r.head + i - 1) % r.size]]
=============================================================================
