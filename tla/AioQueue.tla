------------------------------ MODULE AioQueue ------------------------------
(***************************************************************************)
(* The async API of lib/blkhash.c: blkhash_aio_update() and its completion *)
(* object (lib/completion.c), the completion queue that workers append to, *)
(* the event that wakes up the application (lib/event.c), and              *)
(* blkhash_aio_completions().                                              *)
(*                                                                         *)
(* An update is cut into blocks; each block is a submission that holds a   *)
(* reference to the completion.  A slot is a submission: it is with the    *)
(* pool, in its queue or with a worker that hashes it (the stage "work"),  *)
(* and then with the worker that completes it.  The caller holds a         *)
(* reference of its own while it submits.  Whoever drops the last          *)
(* reference appends to the queue, and signals the event if the queue was  *)
(* empty.  The application reads the event and then reaps, as blkhash.h    *)
(* tells it to.                                                            *)
(***************************************************************************)
EXTENDS Integers, Sequences, FiniteSets

CONSTANTS
    Updates,      \* the application's requests: buffer and user_data
    Slots,        \* submissions that can be in progress
    MaxBlocks,    \* bound: blocks in an update
    QueueDepth,   \* config.queue_depth
    ReapCount,    \* the count given to blkhash_aio_completions()
    Pipe,         \* the event is a pipe, not an eventfd
    Faults,       \* the calls that may fail
    None

ASSUME AioAssumption ==
    /\ IsFiniteSet(Updates) /\ IsFiniteSet(Slots)
    /\ None \notin Updates
    /\ {MaxBlocks, QueueDepth} \subseteq Nat
    /\ ReapCount \in Nat \ {0}
    /\ Pipe \in BOOLEAN
    /\ Faults \subseteq {"malloc", "pool", "block", "event"}

EBADF == 9
EAGAIN == 11
ENOMEM == 12

VARIABLES
    owner,      \* who owns the buffer of an update: application or library
    inflight,   \* h->inflight
    error,      \* h->error
    cq,         \* h->cq, the completions not reaped yet
    event,      \* signals that were not read
    refs, cerr, \* completion->refs and completion->error, by update
    slot,       \* a submission: its stage, update and error
    pool_error, \* h->pool.error, set when a worker does not start
    cpc, cur, todo,  \* the caller: its stage, its update, blocks to submit
    perr,       \* the error the caller found h->error unset for, to store it
    ret,        \* the value returned by the last call
    broken      \* history: updates with a block that failed

vars == <<owner, inflight, error, cq, event, refs, cerr, slot, cpc, cur, todo,
          perr, ret, broken, pool_error>>

libVars == <<inflight, cq, event>>
callerVars == <<cpc, cur, todo, perr>>

FreeSlot == [stage |-> "free", update |-> None, error |-> 0]

Init ==
    /\ owner = [u \in Updates |-> "application"]
    /\ inflight = 0
    /\ error = 0
    /\ cq = <<>>
    /\ event = 0
    /\ refs = [u \in Updates |-> 0]
    /\ cerr = [u \in Updates |-> 0]
    /\ slot = [s \in Slots |-> FreeSlot]
    /\ cpc = "idle" /\ cur = None /\ todo = 0 /\ perr = 0
    /\ ret = 0
    /\ broken = {}
    /\ pool_error = 0

FirstError(old, new) == IF old = 0 THEN new ELSE old

\* set_error() of blkhash.c, which takes no lock: the check of h->error, and
\* the store that it leads to a step later, if any (0 is no store).
SetErrorChecked(err) == IF error = 0 THEN err ELSE 0

SetErrorStored(err) == IF err = 0 THEN error ELSE err

-----------------------------------------------------------------------------
(* lib/completion.c *)

completion_ref_None(u) == UNCHANGED refs \* wrong: takes no reference

completion_ref(u) == refs' = [refs EXCEPT ![u] = @ + 1]

completion_set_error_None(u, err) == UNCHANGED cerr \* wrong: not stored

completion_set_error(u, err) == cerr' = [cerr EXCEPT ![u] = FirstError(@, err)]

-----------------------------------------------------------------------------
(* blkhash_aio_update() *)

DepthReached_OneMore == inflight > QueueDepth \* wrong: off by one

DepthReached == inflight >= QueueDepth

MayStart_Failed == ~DepthReached \* wrong: does not look at h->error

MayStart == error = 0 /\ ~DepthReached

StartUpdate(u, blocks) ==
    /\ cpc = "idle" /\ owner[u] = "application"
    /\ MayStart
    /\ inflight' = inflight + 1
    /\ owner' = [owner EXCEPT ![u] = "library"]
    /\ refs' = [refs EXCEPT ![u] = 1]
    /\ cerr' = [cerr EXCEPT ![u] = 0]
    /\ broken' = broken \ {u}
    /\ cpc' = "submit" /\ cur' = u /\ todo' = blocks
    /\ UNCHANGED <<error, cq, event, slot, perr, ret, pool_error>>

\* completion_new() fails: inflight stays incremented.
CompletionFails(u) ==
    /\ "malloc" \in Faults
    /\ cpc = "idle" /\ owner[u] = "application"
    /\ error = 0 /\ ~DepthReached
    /\ inflight' = inflight + 1
    /\ perr' = SetErrorChecked(ENOMEM)
    /\ cpc' = "refuse"
    /\ UNCHANGED <<owner, error, cq, event, refs, cerr, slot, cur, todo, ret,
                   broken, pool_error>>

\* The queue is full, or the hash failed.
RefuseUpdate(u) ==
    /\ cpc = "idle" /\ owner[u] = "application"
    /\ error # 0 \/ DepthReached
    /\ ret' = IF error # 0 THEN error ELSE EAGAIN
    /\ UNCHANGED <<owner, libVars, error, refs, cerr, slot, callerVars, broken,
                   pool_error>>

\* submit_data_block() of one block: the submission takes a reference.
SubmitBlock(s) ==
    /\ cpc = "submit" /\ todo > 0
    /\ slot[s].stage = "free" /\ pool_error = 0
    /\ slot' = [slot EXCEPT ![s] = [stage |-> "work", update |-> cur, error |-> 0]]
    /\ completion_ref(cur)
    /\ todo' = todo - 1
    /\ cpc' = "collect"
    /\ UNCHANGED <<owner, libVars, error, cerr, cur, perr, ret, broken, pool_error>>

\* do_update() fails: h->error is going to be set.  A rejected submission has
\* stored its error in the completion.
FailUpdate(err, stored) ==
    /\ perr' = SetErrorChecked(err)
    /\ completion_set_error(cur, stored)
    /\ broken' = broken \cup {cur}
    /\ cpc' = "fail" /\ todo' = 0
    /\ UNCHANGED <<owner, libVars, error, refs, cur, ret, pool_error>>

\* The store of set_error(), then what the call does with h->error: the error
\* of a failed update is stored in its completion too.
StoreError ==
    /\ cpc \in {"refuse", "fail", "store", "restore"}
    /\ error' = SetErrorStored(perr)
    /\ perr' = 0
    /\ IF cpc = "fail" THEN completion_set_error(cur, error') ELSE UNCHANGED cerr
    /\ ret' = IF cpc = "refuse" THEN error' ELSE ret
    /\ cpc' = CASE cpc = "fail" -> "unref"
                 [] cpc = "store" -> "end"
                 [] OTHER -> "idle"
    /\ UNCHANGED <<owner, libVars, refs, slot, cur, todo, broken, pool_error>>

\* No memory for a submission, or hash_pool_submit() returns the error of a
\* worker that could not start, which is negative.  The rejected submission
\* drops its reference at once, and the caller still holds one.
SubmitFails ==
    /\ cpc = "submit" /\ todo > 0
    /\ \/ "malloc" \in Faults /\ FailUpdate(ENOMEM, 0)
       \/ pool_error # 0 /\ FailUpdate(pool_error, pool_error)
    /\ UNCHANGED slot

NoFreeSlot == \A s \in Slots : slot[s].stage # "free"

\* hash_submission() meets a submission that failed earlier, after a block was
\* submitted or to make room for the next one.
CollectFailed(s) ==
    /\ cpc = "collect" \/ (cpc = "submit" /\ todo > 0 /\ NoFreeSlot)
    /\ slot[s].stage = "failed"
    /\ slot' = [slot EXCEPT ![s] = FreeSlot]
    /\ FailUpdate(slot[s].error, 0)

\* hash_completed_submissions() ends; a failed submission may be behind one
\* that is not completed.
Collected ==
    /\ cpc = "collect"
    /\ cpc' = "submit"
    /\ UNCHANGED <<owner, libVars, error, refs, cerr, slot, cur, todo, perr, ret,
                   broken, pool_error>>

Submitted ==
    /\ cpc = "submit" /\ todo = 0
    /\ cpc' = "unref"
    /\ UNCHANGED <<owner, libVars, error, refs, cerr, slot, cur, todo, perr, ret,
                   broken, pool_error>>

-----------------------------------------------------------------------------
(* Dropping a reference: completion_unref() and update_completed() *)

\* The stage a thread is in after it dropped a reference: whoever drops the
\* last one runs the callback.
AfterUnref_OneLeft(u) == IF refs[u] <= 2 THEN "append" ELSE "end" \* wrong

AfterUnref(u) == IF refs[u] = 1 THEN "append" ELSE "end"

Unref(u) == refs' = [refs EXCEPT ![u] = @ - 1]

\* The event is signalled when the queue was empty.
AfterAppend == IF cq = <<>> THEN "signal" ELSE "end"

AppendCompletion(u) ==
    cq' = Append(cq, [user_data |-> u, error |-> cerr[u]])

event_signal == event' = event + 1

\* event_signal() fails: the event is not signalled.
event_signal_fails == "event" \in Faults /\ UNCHANGED event

CallerUnref ==
    /\ cpc = "unref"
    /\ Unref(cur)
    /\ cpc' = AfterUnref(cur)
    /\ UNCHANGED <<owner, libVars, error, cerr, slot, cur, todo, perr, ret, broken,
                   pool_error>>

CallerAppend ==
    /\ cpc = "append"
    /\ AppendCompletion(cur)
    /\ cpc' = AfterAppend
    /\ UNCHANGED <<owner, inflight, event, error, refs, cerr, slot, cur, todo,
                   perr, ret, broken, pool_error>>

CallerSignal ==
    /\ cpc = "signal"
    /\ \/ event_signal /\ cpc' = "end" /\ UNCHANGED perr
       \/ event_signal_fails /\ cpc' = "store" /\ perr' = SetErrorChecked(EBADF)
    /\ UNCHANGED <<owner, inflight, error, cq, refs, cerr, slot, cur, todo, ret,
                   broken, pool_error>>

\* blkhash_aio_update() returns 0, whatever do_update() returned.
UpdateReturns ==
    /\ cpc = "end"
    /\ cpc' = "idle" /\ cur' = None
    /\ ret' = 0
    /\ UNCHANGED <<owner, libVars, error, refs, cerr, slot, todo, perr, broken,
                   pool_error>>

-----------------------------------------------------------------------------
(* A worker with its submission *)

SetStage(s, stage) == slot' = [slot EXCEPT ![s].stage = stage]

\* A worker reads the application's buffer, and then it is done with it.
HashBlock(s) ==
    /\ slot[s].stage = "work"
    /\ \/ SetStage(s, "unref") /\ UNCHANGED <<cerr, broken>>
       \/ /\ "block" \in Faults
          /\ slot' = [slot EXCEPT ![s].stage = "unref", ![s].error = ENOMEM]
          /\ completion_set_error(slot[s].update, ENOMEM)
          /\ broken' = broken \cup {slot[s].update}
    /\ UNCHANGED <<owner, libVars, error, refs, callerVars, ret, pool_error>>

WorkerUnref(s) ==
    /\ slot[s].stage = "unref"
    /\ Unref(slot[s].update)
    /\ SetStage(s, AfterUnref(slot[s].update))
    /\ UNCHANGED <<owner, libVars, error, cerr, callerVars, ret, broken, pool_error>>

WorkerAppend(s) ==
    /\ slot[s].stage = "append"
    /\ AppendCompletion(slot[s].update)
    /\ SetStage(s, AfterAppend)
    /\ UNCHANGED <<owner, inflight, event, error, refs, cerr, callerVars, ret,
                   broken, pool_error>>

WorkerSignal(s) ==
    /\ slot[s].stage = "signal"
    /\ \/ event_signal /\ SetStage(s, "end")
       \/ /\ event_signal_fails
          /\ SetStage(s, IF SetErrorChecked(EBADF) # 0 THEN "store" ELSE "end")
    /\ UNCHANGED <<owner, inflight, error, cq, refs, cerr, callerVars, ret, broken,
                   pool_error>>

\* The worker stores the error, whatever the caller stored in between.
WorkerStore(s) ==
    /\ slot[s].stage = "store"
    /\ error' = SetErrorStored(EBADF)
    /\ SetStage(s, "end")
    /\ UNCHANGED <<owner, libVars, refs, cerr, callerVars, ret, broken, pool_error>>

\* A submission when its worker let go of it: a failed one is kept until
\* hash_submission() looks at it.
Released_Kept(s) == slot[s] \* wrong: it is never marked completed

Released(s) ==
    IF slot[s].error = 0 THEN FreeSlot
    ELSE [stage |-> "failed", update |-> None, error |-> slot[s].error]

\* sub->completed: the caller collects the submission.
WorkerEnd(s) ==
    /\ slot[s].stage = "end"
    /\ slot' = [slot EXCEPT ![s] = Released(s)]
    /\ UNCHANGED <<owner, libVars, error, refs, cerr, callerVars, ret, broken,
                   pool_error>>

\* digest_create() fails in a worker that starts.
WorkerNotStarted ==
    /\ "pool" \in Faults
    /\ pool_error = 0 /\ pool_error' = -ENOMEM
    /\ UNCHANGED <<owner, libVars, error, refs, cerr, slot, callerVars, ret, broken>>

-----------------------------------------------------------------------------
(* The application waits for completions and reaps them *)

\* Signals that are left when the application read the event: none for an
\* eventfd, those beyond queue_depth bytes for a pipe.
Unread == IF Pipe /\ event > QueueDepth THEN event - QueueDepth ELSE 0

\* poll() returns and the application reads the pending data.
ReadEvent ==
    /\ cpc = "idle" /\ event > 0
    /\ event' = Unread
    /\ cpc' = "reap"
    /\ UNCHANGED <<owner, inflight, error, cq, refs, cerr, slot, cur, todo, perr, ret,
                   broken, pool_error>>

\* blkhash_aio_completions() after an error: the application gives up.
CompletionsFail ==
    /\ cpc = "reap" /\ error # 0
    /\ ret' = -error
    /\ cpc' = "gave_up"
    /\ UNCHANGED <<owner, libVars, error, refs, cerr, slot, cur, todo, perr, broken,
                   pool_error>>

HaveMore_Never(n) == FALSE \* wrong: forgets the completions that are left

HaveMore(n) == n > 0 /\ n < Len(cq)

Completions ==
    /\ cpc = "reap" /\ error = 0
    /\ LET n == IF Len(cq) < ReapCount THEN Len(cq) ELSE ReapCount
           reaped == {cq[i].user_data : i \in 1..n}
       IN /\ cq' = SubSeq(cq, n + 1, Len(cq))
          /\ inflight' = inflight - n
          /\ owner' = [u \in Updates |-> IF u \in reaped THEN "application"
                                         ELSE owner[u]]
          /\ ret' = n
          /\ cpc' = IF HaveMore(n) THEN "resignal" ELSE "idle"
    /\ UNCHANGED <<event, error, refs, cerr, slot, cur, todo, perr, broken,
                   pool_error>>

\* Completions are left: signal again, for the next poll.
Resignal ==
    /\ cpc = "resignal"
    /\ \/ event_signal /\ cpc' = "idle" /\ UNCHANGED <<perr, ret>>
       \/ /\ event_signal_fails
          /\ cpc' = "restore" /\ perr' = SetErrorChecked(EBADF)
          /\ ret' = -EBADF
    /\ UNCHANGED <<owner, inflight, error, cq, refs, cerr, slot, cur, todo, broken,
                   pool_error>>

-----------------------------------------------------------------------------

\* The worker that hashed a block completes it.
Complete(s) ==
    \/ WorkerUnref(s)
    \/ WorkerAppend(s)
    \/ WorkerSignal(s)
    \/ WorkerStore(s)
    \/ WorkerEnd(s)

Worker(s) == HashBlock(s) \/ Complete(s)

\* The steps inside a running call, apart from failing ones, and the loop that
\* polls and reaps.
Caller ==
    \/ \E s \in Slots : SubmitBlock(s)
    \/ \E s \in Slots : CollectFailed(s)
    \/ Collected
    \/ Submitted
    \/ StoreError
    \/ CallerUnref
    \/ CallerAppend
    \/ CallerSignal
    \/ UpdateReturns
    \/ ReadEvent
    \/ CompletionsFail
    \/ Completions
    \/ Resignal

Next ==
    \/ \E u \in Updates, n \in 0..MaxBlocks : StartUpdate(u, n)
    \/ \E u \in Updates : CompletionFails(u)
    \/ \E u \in Updates : RefuseUpdate(u)
    \/ SubmitFails
    \/ Caller
    \/ \E s \in Slots : Worker(s)
    \/ WorkerNotStarted

Spec == Init /\ [][Next]_vars

\* Every thread that can run does, and the application keeps polling; it need
\* not start an update.  HashPool shows that every submission in the pool is
\* hashed if all the workers start; if one does not, a submission may stay in the
\* queue of the pool for good.
Fairness ==
    /\ WF_vars(Caller)
    /\ \A s \in Slots : WF_vars(pool_error = 0 /\ HashBlock(s)) /\ WF_vars(Complete(s))

FairSpec == Spec /\ Fairness

-----------------------------------------------------------------------------
(* Properties *)

SlotsOf(u, stages) == {s \in Slots : slot[s].update = u /\ slot[s].stage \in stages}

CallerAt(u, stages) == IF cur = u /\ cpc \in stages THEN 1 ELSE 0

\* Every update the library owns is in exactly one place: some reference is
\* left, or one thread is about to append its completion, or one completion is
\* in the queue.  So each update is reported once, and none is forgotten.
ReportedOnce ==
    \A u \in Updates :
        (IF refs[u] > 0 THEN 1 ELSE 0)
          + Cardinality(SlotsOf(u, {"append"})) + CallerAt(u, {"append"})
          + Cardinality({i \in DOMAIN cq : cq[i].user_data = u})
            = IF owner[u] = "library" THEN 1 ELSE 0

Owned == {u \in Updates : owner[u] = "library"}

\* inflight counts the updates the library owns (one more was counted when
\* completion_new() failed) and the queue never holds more completions, so
\* update_completed() always finds room: assert(cq.count < queue_depth) and
\* assert(inflight >= count) hold.
QueueHasRoom ==
    /\ inflight \in {Cardinality(Owned),
                     Cardinality(Owned)
                       + (IF error # 0 \/ cpc = "refuse" THEN 1 ELSE 0)}
    /\ inflight <= QueueDepth
    /\ \A u \in Updates :
          SlotsOf(u, {"append"}) # {} \/ CallerAt(u, {"append"}) = 1 =>
              Len(cq) < QueueDepth

\* While the completion is in the queue, and until the application owns the
\* buffer again and changes it, no worker reads the buffer.
BufferReleased ==
    \A u \in Updates :
        owner[u] = "application" \/ (\E i \in DOMAIN cq : cq[i].user_data = u)
            => SlotsOf(u, {"work"}) = {}

\* The completion of an update carries an error exactly when one of its blocks
\* failed, or could not be submitted because an earlier one had: whichever
\* worker failed, and whichever thread dropped the last reference.
FailureReported ==
    \A i \in DOMAIN cq :
        cq[i].error # 0 <=> cq[i].user_data \in broken

Signalling ==
    Cardinality({s \in Slots : slot[s].stage = "signal"})
      + (IF cpc \in {"signal", "resignal"} THEN 1 ELSE 0)

\* A signal that failed and is going to fail the hash.
Storing ==
    Cardinality({s \in Slots : slot[s].stage = "store"})
      + (IF cpc \in {"store", "restore"} THEN 1 ELSE 0)

\* Exactly one notification for completions in the queue: while there are any,
\* there is one unread signal, or one thread about to signal, or the
\* application read the signal and is about to reap; when there are none there
\* is none.  So no notification is lost, poll() never returns in vain ("At
\* least one request should be ready now", man/example-aio.c), and a pipe
\* never holds more than one byte.
OneNotification ==
    error = 0 =>
        event + Signalling + Storing + (IF cpc = "reap" THEN 1 ELSE 0)
          = IF cq = <<>> THEN 0 ELSE 1

\* "negative errno value on errors": what blkhash_aio_completions() returned
\* to an application that gave up because of it was negative.
ErrorsAreNegative == cpc = "gave_up" => ret < 0

\* AioQueue implements the abstract async API.
Abstract ==
    INSTANCE AsyncHash WITH
        updating <- {u \in Updates : /\ owner[u] = "library"
                                     /\ \A i \in DOMAIN cq : cq[i].user_data # u},
        bad <- {u \in Updates : /\ owner[u] = "library" /\ cerr[u] # 0
                                /\ \A i \in DOMAIN cq : cq[i].user_data # u},
        cq <- [i \in DOMAIN cq |-> [user_data |-> cq[i].user_data,
                                    error |-> cq[i].error # 0]],
        signals <- Signalling,
        event <- event > 0,
        herror <- error # 0

\* The detailed queue behaves as AsyncHash says, whatever fails: h->error is
\* written by the workers and by the caller without a lock, and the first error
\* may be replaced, but a hash that failed never works again.
ImplementsAsync == Abstract!Spec

\* Every update the library accepted is reported, unless the hash failed or a
\* worker of the pool did not start: the update may then wait for a submission
\* that nobody takes, and h->error stays 0.
EventuallyReported ==
    \A u \in Updates :
        owner[u] = "library" ~> \/ owner[u] = "application"
                                \/ error # 0 \/ pool_error # 0
=============================================================================
