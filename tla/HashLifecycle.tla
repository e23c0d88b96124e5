---------------------------- MODULE HashLifecycle ---------------------------
(***************************************************************************)
(* A hash from blkhash_new_opts() to blkhash_free(): every step of the     *)
(* constructor and its error path, the pool of HashPool, the submission    *)
(* queue of its owner (lib/submission.c), and the memory they share.  The  *)
(* owner pushes a submission to its queue and to the pool, pops completed  *)
(* submissions in order and destroys them.  blkhash_free() releases the    *)
(* completion queue and the submissions first and stops the workers last.  *)
(***************************************************************************)
EXTENDS HashPool, Ring

CONSTANTS
    FreeEarly,  \* the owner may free a hash while the pool has submissions
    HashFaults  \* the steps of the owner that may fail

\* What blkhash_new_opts() does, with its calls of config_init(),
\* hash_pool_init() and submission_queue_init(), in the order it is done.  A
\* hash has a completion queue if the queue depth was set.
PoolResources == {"queue", "workers", "mutex", "cond"}

Steps(async) ==
    <<"h", "config", "queue", "workers", "mutex", "cond", "threads", "ring">>
      \o (IF async THEN <<"cq_mutex", "cq_array", "event">> ELSE <<>>)
      \o <<"pending", "outer", "digest_init">>

\* What the steps acquire, apart from the threads.
Resources ==
    PoolResources \cup {"h", "ring", "cq_mutex", "cq_array", "event", "pending",
                        "outer"}

ASSUME LifecycleAssumption ==
    /\ FreeEarly \in BOOLEAN
    /\ HashFaults \subseteq
          Resources \cup {"config", "digest_init", "submission", "outer_update"}

VARIABLES
    async,      \* config.queue_depth is not 0
    step,       \* the next step of the constructor
    phase,      \* of the owner, see below
    finalized,  \* h->finalized
    sq,         \* h->sq
    freed,      \* destroyed submissions
    dropped,    \* history: submissions that were popped and not destroyed
    res,        \* resources that are held
    gone,       \* history: resources that were released,
    twice,      \* those that were released again,
    used,       \* and those that the owner used again
    order       \* history: the submissions in the order of the pushes

resVars == <<res, gone, twice, used>>
subsVars == <<sq, freed, dropped, order>>
hashVars == <<async, step, phase, finalized, subsVars, resVars>>
allVars == <<vars, hashVars>>

\* The owner is new in the constructor, null if there is no hash, and open,
\* failed or done between two calls; inside a call it submits a block, collects
\* completed submissions or waits for all inflight.
InCall == {"submit", "collect", "inflight"}

\* The constructor that failed, or blkhash_free(); it ends in freed.  When it uses
\* or releases the pool again the behaviour is undefined: it may also end in
\* aborted or, in a join that does not return, in stuck.
Freeing == {"unwind", "free", "free_pool", "joining"}

InitHash ==
    /\ Init
    /\ async \in BOOLEAN
    /\ step = 1
    /\ phase = "new"
    /\ finalized = FALSE
    /\ sq = RingInit(QueueSize, None)
    /\ freed = {} /\ dropped = {}
    /\ res = {} /\ gone = {} /\ twice = {} /\ used = {}
    /\ order = <<>>

\* Releases those of the resources that were ever acquired: the pointers of
\* the others are NULL.
Release(resources) ==
    /\ res' = res \ resources
    /\ gone' = gone \cup (resources \cap res)
    /\ twice' = twice \cup (resources \cap gone)
    /\ UNCHANGED used

-----------------------------------------------------------------------------
(* blkhash_new_opts() *)

NewStep == Steps(async)[step]

StepDone ==
    /\ step' = step + 1
    /\ phase' = IF step = Len(Steps(async)) THEN "open" ELSE "new"

\* A step that succeeds.
Acquire ==
    /\ phase = "new" /\ NewStep # "threads"
    /\ res' = res \cup ({NewStep} \cap Resources)
    /\ StepDone
    /\ UNCHANGED <<vars, async, finalized, subsVars, gone, twice, used>>

CreateWorker(w) ==
    /\ phase = "new" /\ NewStep = "threads"
    /\ CreateThread(w)
    /\ IF life' = "ready" THEN StepDone ELSE UNCHANGED <<step, phase>>
    /\ UNCHANGED <<async, finalized, subsVars, resVars>>

\* What hash_pool_init() releases when one of its steps fails.
Unwound == IF NewStep \in PoolResources THEN PoolResources ELSE {}

\* A step fails: without memory for the hash there is nothing to release,
\* otherwise blkhash_free() follows.
NewFails ==
    /\ phase = "new" /\ NewStep \in HashFaults
    /\ phase' = IF NewStep = "h" THEN "null" ELSE "free"
    /\ Release(Unwound)
    /\ UNCHANGED <<vars, async, step, finalized, subsVars>>

\* pthread_create() fails and hash_pool_init() stops the workers it created.
InitFails ==
    /\ phase = "new" /\ NewStep = "threads"
    /\ CreateThreadFails
    /\ phase' = "unwind"
    /\ UNCHANGED <<async, step, finalized, subsVars, resVars>>

-----------------------------------------------------------------------------
(* The calls of the owner *)

SqFull_Never == FALSE \* wrong: does not wait for room

SqFull == RingFull(sq)

FirstCompleted_NoWait == sq.len > 0 \* wrong: does not wait for the worker

FirstCompleted == sq.len > 0 /\ completed[RingFirst(sq)]

\* blkhash_update() or blkhash_aio_update() comes to a data block.
StartSubmit ==
    /\ phase = "open" /\ ~finalized
    /\ submitted # Subs
    /\ phase' = "submit"
    /\ UNCHANGED <<vars, async, step, finalized, subsVars, resVars>>

\* blkhash_final(), which does not look at h->error: it submits the pending
\* data, or only a zero submission, which the pool never sees.
StartFinal ==
    /\ phase \in {"open", "failed"} /\ ~finalized
    /\ finalized' = TRUE
    /\ \/ phase' = "submit" /\ submitted # Subs
       \/ phase' = "inflight"
    /\ UNCHANGED <<vars, async, step, subsVars, resVars>>

\* submit_data_block() when the queue has room.  A submission the pool rejects
\* stays in the queue.
SubmitBlock(s) ==
    /\ phase = "submit" /\ ~SqFull
    /\ Submit(s)
    /\ sq' = RingPush(sq, s)
    /\ order' = Append(order, s)
    /\ phase' = IF SubmitError # 0 THEN "failed" ELSE "collect"
    /\ UNCHANGED <<async, step, finalized, freed, dropped, resVars>>

\* submission_create_data() fails.
CreateFails ==
    /\ "submission" \in HashFaults
    /\ phase = "submit" /\ ~SqFull
    /\ phase' = "failed"
    /\ UNCHANGED <<vars, async, step, finalized, subsVars, resVars>>

\* The first submission is popped when it is completed: to make room in
\* maybe_hash_first_submission(), by hash_completed_submissions(), and by
\* hash_inflight_submissions().  When hash_submission() fails, since the
\* submission failed or since the outer digest did, it is not destroyed.
HashFirst ==
    /\ phase \in {"collect", "inflight"} \/ (phase = "submit" /\ SqFull)
    /\ FirstCompleted
    /\ sq' = RingPop(sq)
    /\ \/ /\ suberr[RingFirst(sq)] = 0
          /\ freed' = freed \cup {RingFirst(sq)}
          /\ UNCHANGED <<phase, dropped>>
       \/ /\ suberr[RingFirst(sq)] # 0 \/ "outer_update" \in HashFaults
          /\ phase' = "failed"
          /\ dropped' = dropped \cup {RingFirst(sq)}
          /\ UNCHANGED freed
    /\ UNCHANGED <<vars, async, step, finalized, resVars, order>>

\* hash_completed_submissions() stops at one that is not completed.
Collected ==
    /\ phase = "collect" /\ ~FirstCompleted
    /\ phase' = IF finalized THEN "inflight" ELSE "open"
    /\ UNCHANGED <<vars, async, step, finalized, subsVars, resVars>>

EndFinal ==
    /\ phase = "inflight" /\ sq.len = 0
    /\ phase' = "done"
    /\ UNCHANGED <<vars, async, step, finalized, subsVars, resVars>>

-----------------------------------------------------------------------------
(* blkhash_free() *)

Queued == {queue[i] : i \in DOMAIN queue} \ {STOP}

Inflight == Queued # {} \/ \E w \in Workers : held[w] # None

\* After blkhash_final(), or to give up on the hash.
StartFree ==
    /\ phase = "done" \/ (phase \in {"open", "failed"} /\ (FreeEarly \/ ~Inflight))
    /\ phase' = "free"
    /\ UNCHANGED <<vars, async, step, finalized, subsVars, resVars>>

\* The resources of the hash itself.
HashResources_NoEvent == {"outer", "pending", "cq_array", "cq_mutex", "ring"} \* wrong

HashResources ==
    {"outer", "pending", "ring"}
      \cup (IF async THEN {"event", "cq_array", "cq_mutex"} ELSE {})

\* blkhash_free() up to hash_pool_destroy(): the outer digest, the pending
\* data, the completion queue and the submissions in the queue are gone.
FreeQueues ==
    /\ phase = "free"
    /\ phase' = "free_pool"
    /\ Release(HashResources)
    /\ freed' = freed \cup {Contents(sq)[i] : i \in 1..sq.len}
    /\ sq' = RingInit(QueueSize, None)
    /\ UNCHANGED <<vars, async, step, finalized, dropped, order>>

\* What stop_workers() uses of a pool that hash_pool_init() released when it
\* failed: the mutex, the condition, workers_count and the pointers are still
\* there.  A mutex and a condition that were never initialized are zero bytes
\* of calloc(), which works.
StopUses ==
    gone \cap ({"mutex", "cond"}
                  \cup (IF threads # {} THEN {"queue", "workers"} ELSE {}))

\* stop_workers() in hash_pool_destroy().
FreePool ==
    /\ phase = "free_pool" /\ StopUses = {}
    /\ Destroy
    /\ phase' = "joining"
    /\ UNCHANGED <<async, step, finalized, subsVars, resVars>>

\* stop_workers() in hash_pool_destroy() after hash_pool_init() destroyed the
\* mutex, and maybe stopped and joined the workers before: mutex_lock() aborts,
\* or it works.  A STOP that a worker left in the queue is then taken for a
\* submission, which ends the program; otherwise new STOPs are queued in the
\* array that was freed, and the workers are joined again.
StopAgain ==
    /\ phase = "free_pool" /\ StopUses # {}
    /\ used' = used \cup StopUses
    /\ \/ phase' = "aborted" /\ UNCHANGED vars
       \/ queue = <<>> /\ StopWorkers /\ phase' = "joining"
       \/ queue = <<>> /\ StopWorkers /\ phase' = "stuck" /\ threads # {}
    /\ UNCHANGED <<async, step, finalized, subsVars, res, gone, twice>>

\* The workers are joined, in hash_pool_init() or in hash_pool_destroy(), and
\* the pool is released; free() may abort when it was released before.
JoinWorkers ==
    /\ phase \in {"unwind", "joining"}
    /\ Join
    /\ \/ phase = "unwind" /\ phase' = "free" /\ Release(PoolResources)
       \/ phase = "joining" /\ phase' = "freed" /\ Release(PoolResources \cup {"h"})
       \/ /\ phase = "joining" /\ PoolResources \cap gone # {}
          /\ phase' = "aborted" /\ Release(PoolResources)
    /\ UNCHANGED <<async, step, finalized, subsVars>>

WorkerStep(w) == Worker(w) /\ UNCHANGED hashVars

Wakeup(w) == SpuriousWakeup(w) /\ UNCHANGED hashVars

\* The hash was freed, or there is none, or the program is at its end.
Over == phase \in {"freed", "null", "aborted", "stuck"} /\ UNCHANGED allVars

NextHash ==
    \/ Acquire
    \/ \E w \in Workers : CreateWorker(w)
    \/ NewFails
    \/ InitFails
    \/ StartSubmit
    \/ StartFinal
    \/ \E s \in Subs : SubmitBlock(s)
    \/ CreateFails
    \/ HashFirst
    \/ Collected
    \/ EndFinal
    \/ StartFree
    \/ FreeQueues
    \/ FreePool
    \/ StopAgain
    \/ JoinWorkers
    \/ \E w \in Workers : WorkerStep(w)
    \/ \E w \in Workers : Wakeup(w)
    \/ Over

SpecHash == InitHash /\ [][NextHash]_allVars

\* A thread inside a call keeps running, as do the workers; the owner need not
\* make a call.
FairSpecHash ==
    /\ SpecHash
    /\ WF_allVars(\E s \in Subs : SubmitBlock(s)) /\ WF_allVars(HashFirst)
    /\ WF_allVars(Collected) /\ WF_allVars(EndFinal)
    /\ WF_allVars(FreeQueues) /\ WF_allVars(FreePool)
    /\ WF_allVars(StopAgain) /\ WF_allVars(JoinWorkers)
    /\ \A w \in Workers : WF_allVars(WorkerStep(w))

-----------------------------------------------------------------------------
(* Properties *)

\* "The queue can never be full since the submitter waits until the submission
\* queue is not full": hash_pool_submit() never returns ENOBUFS.
PoolHasRoom == \A s \in Subs : suberr[s] # ENOBUFS

\* The ring is well formed, which its proofs assume, and a FIFO: it holds the
\* last submissions that were pushed, in their order, also when the indices
\* wrapped around.
QueueInOrder ==
    /\ WellFormed(sq, Subs \cup {None})
    /\ phase \notin {"free_pool", "joining", "freed"} =>
          Contents(sq) = SubSeq(order, Len(order) - sq.len + 1, Len(order))

\* Memory a worker, or stop_workers() clearing the queue, still uses is not
\* released: no submission in the pool is destroyed, the completion queue
\* exists while a submission can complete, and the pool and the configuration
\* in the hash exist while a worker runs.  The one exception is the pool of a
\* hash_pool_init() that failed in pthread_cond_init() or pthread_create(),
\* which stop_workers() uses after its release.
NoUseAfterFree ==
    /\ \A w \in Workers : held[w] # None => held[w] \notin freed
    /\ Queued \cap freed = {}
    /\ async /\ Inflight =>
          {"cq_array", "event"} \subseteq res
    /\ (\E w \in threads : pc[w] # "done") =>
          PoolResources \cup {"h"} \subseteq res
    /\ used # {} => NewStep \in {"cond", "threads"}

\* "Free resources allocated in blkhash_new()": whichever step of the
\* constructor or of a call failed, after blkhash_free() nothing is held but
\* the submissions for which hash_submission() failed: one in an update, after
\* which every update fails at once, and one in blkhash_final(), which goes on.
NothingLeaks ==
    phase \in {"freed", "null"} =>
        /\ res = {}
        /\ submitted \subseteq freed \cup dropped
        /\ Cardinality(dropped) <= 2

\* No resource of the hash is released twice.
ReleasedOnce == twice = {}

\* submission_wait() spins until the pool completed the submission; still every
\* call returns, with an error or without.
CallReturns == phase \in InCall ~> phase \notin InCall

\* Every call returns, or a worker could not create its digest.
CallReturnsIfStarted == phase \in InCall ~> phase \notin InCall \/ error # 0

\* blkhash_free() and a constructor that fails return, with all the workers
\* joined; only after hash_pool_init() failed with something to release they
\* may not.
FreeReturns ==
    phase \in Freeing ~>
        \/ phase = "freed"
        \/ /\ phase \in {"aborted", "stuck"}
           /\ NewStep \in {"workers", "mutex", "cond", "threads"}
=============================================================================
